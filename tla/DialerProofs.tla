----------------------------- MODULE DialerProofs -----------------------------
(***************************************************************************)
(* fdMappings stays exact whatever the handlers of a batch do, for any     *)
(* addresses, descriptors and timeout; and when OnCreatePeer makes a peer  *)
(* for every KCP connection, a dial gets at most one answer, Busy tells    *)
(* whether it is still to come, and no attempt outlives its dial. Every    *)
(* operator that a handler is made of has a lemma of its own; a step puts  *)
(* them together.                                                          *)
(***************************************************************************)
EXTENDS Dialer, TLAPS

ConnKinds == {"tcpConn", "kcpConn"}
Kinds == ConnKinds \cup {"tcpPeer", "kcpPair"}
ItemRec == [kind : Kinds, fd : Fds]

-----------------------------------------------------------------------------
(* The parts of the invariant. *)

\* The record of what handlers work on, field by field.
Record(t) ==
    t = [items |-> t.items, map |-> t.map, open |-> t.open, conns |-> t.conns,
         busy |-> t.busy, alive |-> t.alive, made |-> t.made, asked |-> t.asked,
         dials |-> t.dials]

Shape(t) ==
    /\ Record(t)
    /\ t.made \in Nat /\ DOMAIN t.items \subseteq 1 .. t.made
    /\ t.items \in [DOMAIN t.items -> ItemRec]
    /\ t.map \in [Fds -> Nat] /\ t.open \subseteq Fds /\ t.conns \in Seq(Nat)
    /\ t.busy \in Nat /\ t.alive \in BOOLEAN /\ t.asked \in {"no", "asked", "twice"}
    /\ t.dials \in Nat

\* Items and descriptors match; the descriptors in extra are open and nobody's.
Owned(t, extra) ==
    /\ \A i \in DOMAIN t.items : t.map[t.items[i].fd] = i /\ t.items[i].fd \notin extra
    /\ t.open = {t.items[i].fd : i \in DOMAIN t.items} \cup extra
    /\ extra \subseteq Fds /\ \A f \in extra : t.map[f] = NoItem
    /\ \A f \in Fds : t.map[f] # NoItem =>
          t.map[f] \in DOMAIN t.items /\ t.items[t.map[f]].fd = f

Table(t) == Shape(t) /\ Owned(t, {})

\* An attempt is among the dialer's, and the dialer is busy with it.
Session(t) ==
    /\ \A i \in DOMAIN t.items : t.items[i].kind \in ConnKinds => i \in Attempts(t) /\ t.busy > 0
    /\ t.busy > 0 <=> t.asked = "asked"
    /\ t.asked # "twice"

\* What is left of the attempts after Stop: nothing.
Idle(t) == t.busy = 0 /\ \A i \in DOMAIN t.items : t.items[i].kind \notin ConnKinds

Same(t, u) ==
    t.alive = u.alive /\ t.asked = u.asked /\ t.dials = u.dials

-----------------------------------------------------------------------------
(* The operators. *)

\* Destroying items takes their descriptors out of the table and closes them.
LEMMA DestroyFields ==
    ASSUME NEW t, Shape(t), NEW I
    PROVE  LET d == Destroy(t, I)
               kept == DOMAIN t.items \ I
               fds == {t.items[i].fd : i \in DOMAIN t.items \cap I} IN
           /\ Shape(d) /\ DOMAIN d.items = kept
           /\ \A i \in kept : d.items[i] = t.items[i]
           /\ d.map = [f \in Fds |-> IF f \in fds THEN NoItem ELSE t.map[f]]
           /\ d.open = t.open \ fds
           /\ d.conns = t.conns /\ d.busy = t.busy /\ d.made = t.made /\ Same(d, t)
<1> DEFINE d == Destroy(t, I)
           gone == I \cap DOMAIN t.items
           fds == {t.items[i].fd : i \in gone}
           kept == DOMAIN t.items \ gone
           items == Restrict(t.items, kept)
           map == [f \in Fds |-> IF f \in fds THEN NoItem ELSE t.map[f]]
<1>1. d = [items |-> items, map |-> map, open |-> t.open \ fds, conns |-> t.conns,
           busy |-> t.busy, alive |-> t.alive, made |-> t.made, asked |-> t.asked,
           dials |-> t.dials]
  <2> HIDE DEF items, map, fds
  <2>1. d = [t EXCEPT !.items = items, !.map = map, !.open = t.open \ fds]
    BY DEF Destroy, items, map, fds
  <2> QED BY <2>1 DEF Shape, Record
<1>2. /\ items = [i \in kept |-> t.items[i]] /\ DOMAIN items = kept
      /\ \A i \in kept : items[i] = t.items[i]
  BY DEF Restrict
<1>3. items \in [kept -> ItemRec] /\ kept \subseteq 1 .. t.made
  BY <1>2 DEF Shape
<1>4. map \in [Fds -> Nat]
  BY DEF Shape, NoItem
<1>5. fds = {t.items[i].fd : i \in DOMAIN t.items \cap I} /\ kept = DOMAIN t.items \ I
  OBVIOUS
<1> HIDE DEF d, items, map, fds, kept
<1>6. Record(d)
  BY <1>1 DEF Record
<1>7. Shape(d)
  BY <1>1, <1>2, <1>3, <1>4, <1>6 DEF Shape
<1> QED BY <1>1, <1>2, <1>5, <1>7 DEF d, map, Same

\* The others stay as they were.
LEMMA DestroyKept ==
    ASSUME NEW t, Shape(t), NEW I
    PROVE  LET d == Destroy(t, I)
               kept == DOMAIN t.items \ I IN
           /\ Shape(d) /\ DOMAIN d.items = kept
           /\ \A i \in kept : d.items[i] = t.items[i]
           /\ d.conns = t.conns /\ d.busy = t.busy /\ d.made = t.made /\ Same(d, t)
<1> DEFINE d == Destroy(t, I)
           kept == DOMAIN t.items \ I
           fds == {t.items[i].fd : i \in DOMAIN t.items \cap I}
<1>1. /\ Shape(d) /\ DOMAIN d.items = kept
      /\ \A i \in kept : d.items[i] = t.items[i]
      /\ d.map = [f \in Fds |-> IF f \in fds THEN NoItem ELSE t.map[f]]
      /\ d.open = t.open \ fds
      /\ d.conns = t.conns /\ d.busy = t.busy /\ d.made = t.made /\ Same(d, t)
  BY DestroyFields
<1> QED BY <1>1

LEMMA DestroyOwned ==
    ASSUME NEW t, Shape(t), NEW extra, Owned(t, extra), NEW I
    PROVE  Owned(Destroy(t, I), extra)
<1> DEFINE d == Destroy(t, I)
           kept == DOMAIN t.items \ I
           fds == {t.items[i].fd : i \in DOMAIN t.items \cap I}
<1>1. /\ DOMAIN d.items = kept /\ \A i \in kept : d.items[i] = t.items[i]
      /\ d.map = [f \in Fds |-> IF f \in fds THEN NoItem ELSE t.map[f]]
      /\ d.open = t.open \ fds
  BY DestroyFields
<1> HIDE DEF d
<1>2. /\ \A i \in DOMAIN t.items : t.items[i].fd \in Fds
      /\ \A i \in DOMAIN t.items : t.map[t.items[i].fd] = i /\ t.items[i].fd \notin extra
      /\ DOMAIN t.items \subseteq 1 .. t.made /\ t.made \in Nat
  BY DEF Shape, ItemRec, Owned
<1>3. \A i \in kept : t.items[i].fd \notin fds
  BY <1>2
<1>4. \A i \in kept : d.map[d.items[i].fd] = i /\ d.items[i].fd \notin extra
  BY <1>1, <1>2, <1>3
<1>5. d.open = {d.items[i].fd : i \in kept} \cup extra
  <2>1. t.open = {t.items[i].fd : i \in DOMAIN t.items} \cup extra
    BY DEF Owned
  <2>2. {d.items[i].fd : i \in kept} = {t.items[i].fd : i \in kept}
    BY <1>1
  <2> QED BY <1>1, <1>2, <1>3, <2>1, <2>2
<1>6. \A f \in extra : d.map[f] = NoItem
  BY <1>1 DEF Owned
<1>7. ASSUME NEW f \in Fds, d.map[f] # NoItem
      PROVE  d.map[f] \in kept /\ d.items[d.map[f]].fd = f
  <2>1. f \notin fds /\ d.map[f] = t.map[f]
    BY <1>1, <1>7
  <2>2. t.map[f] \in DOMAIN t.items /\ t.items[t.map[f]].fd = f
    BY <1>7, <2>1 DEF Owned
  <2> QED BY <1>1, <2>1, <2>2
<1> QED BY <1>1, <1>4, <1>5, <1>6, <1>7 DEF Owned, d

LEMMA DestroySession ==
    ASSUME NEW t, Shape(t), Session(t), NEW I
    PROVE  Session(Destroy(t, I))
<1> DEFINE d == Destroy(t, I)
<1>1. /\ DOMAIN d.items = DOMAIN t.items \ I
      /\ \A i \in DOMAIN t.items \ I : d.items[i] = t.items[i]
      /\ d.conns = t.conns /\ d.busy = t.busy /\ d.asked = t.asked
  BY DestroyKept DEF Same
<1> HIDE DEF d
<1>2. Attempts(d) = Attempts(t)
  BY <1>1 DEF Attempts
<1> QED BY <1>1, <1>2 DEF Session, d

\* Stop leaves the dialer without attempts in its list, not busy, and without
\* an attempt anywhere if all of them were in its list.
LEMMA StopFields ==
    ASSUME NEW t, Shape(t)
    PROVE  LET d == Stop(t)
               kept == DOMAIN t.items \ Attempts(t) IN
           /\ Shape(d) /\ DOMAIN d.items = kept
           /\ \A i \in kept : d.items[i] = t.items[i]
           /\ d.conns = <<>> /\ d.busy = 0 /\ d.made = t.made /\ Same(d, t)
           /\ \A extra : Owned(t, extra) => Owned(d, extra)
<1> DEFINE I == Attempts(t)
           u == Destroy(t, I)
           d == Stop(t)
<1> HIDE DEF I
<1>1. /\ Shape(u) /\ DOMAIN u.items = DOMAIN t.items \ I
      /\ \A i \in DOMAIN t.items \ I : u.items[i] = t.items[i]
      /\ u.made = t.made /\ Same(u, t)
  BY DestroyKept
<1>2. \A extra : Owned(t, extra) => Owned(u, extra)
  BY DestroyOwned
<1>3. d = [u EXCEPT !.conns = <<>>, !.busy = 0]
  BY DEF Stop, I
<1> HIDE DEF u
<1>4. d = [items |-> u.items, map |-> u.map, open |-> u.open, conns |-> <<>>, busy |-> 0,
           alive |-> u.alive, made |-> u.made, asked |-> u.asked, dials |-> u.dials]
  BY <1>1, <1>3 DEF Shape, Record
<1> HIDE DEF d
<1>5. Shape(d)
  BY <1>1, <1>4 DEF Shape, Record
<1>6. \A extra : Owned(u, extra) => Owned(d, extra)
  BY <1>4 DEF Owned
<1> QED BY <1>1, <1>2, <1>4, <1>5, <1>6 DEF d, I, Same

LEMMA StopIdle ==
    ASSUME NEW t, Shape(t), Session(t)
    PROVE  Idle(Stop(t))
BY StopFields DEF Session, Idle

\* An item takes over a descriptor that is open and nobody's.
LEMMA NewItemFields ==
    ASSUME NEW t, Shape(t), NEW extra, Owned(t, extra), NEW fd \in extra, NEW kind \in Kinds
    PROVE  LET n == NewItem(t, kind, fd)
               new == t.made + 1 IN
           /\ Shape(n) /\ Owned(n, extra \ {fd})
           /\ DOMAIN n.items = DOMAIN t.items \cup {new}
           /\ \A i \in DOMAIN t.items : n.items[i] = t.items[i]
           /\ n.items[new] = [kind |-> kind, fd |-> fd]
           /\ n.busy = t.busy /\ n.conns = t.conns /\ Same(n, t)
<1> DEFINE n == NewItem(t, kind, fd)
           new == t.made + 1
           items == [i \in DOMAIN t.items \cup {new} |->
                       IF i = new THEN [kind |-> kind, fd |-> fd] ELSE t.items[i]]
           map == [t.map EXCEPT ![fd] = new]
<1>1. n = [items |-> items, map |-> map, open |-> t.open, conns |-> t.conns,
           busy |-> t.busy, alive |-> t.alive, made |-> new, asked |-> t.asked,
           dials |-> t.dials]
  <2> DEFINE a == [t EXCEPT !.items = items]
             b == [a EXCEPT !.map[fd] = new]
             c == [b EXCEPT !.made = new]
  <2>1. n = c
    BY DEF NewItem
  <2> HIDE DEF items, new
  <2>4. Record(t)
    BY DEF Shape
  <2>2. a = [items |-> items, map |-> t.map, open |-> t.open, conns |-> t.conns,
             busy |-> t.busy, alive |-> t.alive, made |-> t.made, asked |-> t.asked,
             dials |-> t.dials]
    BY <2>4 DEF Record
  <2> HIDE DEF a
  <2>3. b = [items |-> items, map |-> map, open |-> t.open, conns |-> t.conns,
             busy |-> t.busy, alive |-> t.alive, made |-> t.made, asked |-> t.asked,
             dials |-> t.dials]
    BY <2>2
  <2> HIDE DEF b
  <2> QED BY <2>1, <2>3
<1>2. /\ t.made \in Nat /\ new \in Nat /\ new \notin DOMAIN t.items /\ new # NoItem
      /\ DOMAIN t.items \cup {new} \subseteq 1 .. new /\ fd \in Fds
  BY DEF Shape, NoItem, Owned
<1>3. /\ DOMAIN items = DOMAIN t.items \cup {new}
      /\ \A i \in DOMAIN t.items : items[i] = t.items[i]
      /\ items[new] = [kind |-> kind, fd |-> fd]
  BY <1>2
<1>4. items \in [DOMAIN items -> ItemRec]
  BY <1>2 DEF Shape, ItemRec
<1>5. map \in [Fds -> Nat]
  BY <1>2 DEF Shape
<1> HIDE DEF n, items, new
<1>6. Shape(n)
  BY <1>1, <1>2, <1>3, <1>4, <1>5 DEF Shape, Record
<1>7. Owned(n, extra \ {fd})
  <2>1. \A f \in Fds : map[f] = IF f = fd THEN new ELSE t.map[f]
    BY DEF Shape
  <2>2. \A i \in DOMAIN t.items : t.items[i].fd \in Fds /\ t.items[i].fd # fd
    BY DEF Shape, ItemRec, Owned
  <2>3. \A i \in DOMAIN items : map[items[i].fd] = i /\ items[i].fd \notin extra \ {fd}
    BY <1>2, <1>3, <2>1, <2>2 DEF Owned
  <2>4. t.open = {items[i].fd : i \in DOMAIN items} \cup (extra \ {fd})
    <3>1. {items[i].fd : i \in DOMAIN items} = {t.items[i].fd : i \in DOMAIN t.items} \cup {fd}
      BY <1>3
    <3> HIDE DEF map
    <3>2. t.open = {t.items[i].fd : i \in DOMAIN t.items} \cup extra
      BY DEF Owned
    <3>3. {fd} \cup (extra \ {fd}) = extra
      OBVIOUS
    <3> QED BY <3>1, <3>2, <3>3
  <2>5. \A f \in extra \ {fd} : map[f] = NoItem
    BY <2>1 DEF Owned
  <2>6. \A f \in Fds : map[f] # NoItem => map[f] \in DOMAIN items /\ items[map[f]].fd = f
    BY <1>2, <1>3, <2>1 DEF Owned
  <2>7. extra \ {fd} \subseteq Fds
    BY DEF Owned
  <2>8. n.items = items /\ n.map = map /\ n.open = t.open
    BY <1>1
  <2> QED BY <2>3, <2>4, <2>5, <2>6, <2>7, <2>8 DEF Owned
<1> QED BY <1>1, <1>3, <1>6, <1>7 DEF n, new, Same

\* ~TcpConn with its descriptor kept open: it is nobody's.
LEMMA HandOverFields ==
    ASSUME NEW t, Table(t), NEW i \in DOMAIN t.items
    PROVE  LET d == HandOver(t, i)
               fd == t.items[i].fd IN
           /\ Shape(d) /\ Owned(d, {fd}) /\ DOMAIN d.items = DOMAIN t.items \ {i}
           /\ \A j \in DOMAIN t.items \ {i} : d.items[j] = t.items[j]
           /\ d.conns = t.conns /\ d.busy = t.busy /\ Same(d, t)
<1> DEFINE u == Destroy(t, {i})
           d == HandOver(t, i)
           fd == t.items[i].fd
<1>1. /\ Shape(u) /\ DOMAIN u.items = DOMAIN t.items \ {i}
      /\ \A j \in DOMAIN t.items \ {i} : u.items[j] = t.items[j]
      /\ u.map = [f \in Fds |-> IF f \in {t.items[j].fd : j \in DOMAIN t.items \cap {i}}
                                THEN NoItem ELSE t.map[f]]
      /\ u.open = t.open \ {t.items[j].fd : j \in DOMAIN t.items \cap {i}}
      /\ u.conns = t.conns /\ u.busy = t.busy /\ Same(u, t)
  BY DestroyFields DEF Table
<1>2. {t.items[j].fd : j \in DOMAIN t.items \cap {i}} = {fd}
  OBVIOUS
<1>3. Owned(u, {})
  BY DestroyOwned DEF Table
<1>4. d = [u EXCEPT !.open = t.open]
  BY DEF HandOver
<1> HIDE DEF u
<1>5. d = [items |-> u.items, map |-> u.map, open |-> t.open, conns |-> u.conns,
           busy |-> u.busy, alive |-> u.alive, made |-> u.made, asked |-> u.asked,
           dials |-> u.dials]
  BY <1>1, <1>4 DEF Shape, Record
<1> HIDE DEF d
<1>6. Shape(d)
  BY <1>1, <1>5 DEF Shape, Record, Table
<1>7. Owned(d, {fd})
  <2>1. fd \in Fds /\ fd \in t.open /\ t.map[fd] = i
    BY DEF Table, Shape, ItemRec, Owned
  <2>2. \A j \in DOMAIN u.items : u.items[j].fd # fd
    <3>1. \A j \in DOMAIN t.items : t.map[t.items[j].fd] = j
      BY DEF Table, Owned
    <3> QED BY <1>1, <2>1, <3>1
  <2>3. u.map[fd] = NoItem
    BY <1>1, <1>2, <2>1
  <2>4. u.open = t.open \ {fd}
    BY <1>1, <1>2
  <2> QED BY <1>3, <1>5, <2>1, <2>2, <2>3, <2>4 DEF Owned
<1> QED BY <1>1, <1>5, <1>6, <1>7 DEF d, Same

-----------------------------------------------------------------------------
(* What a handler of the program leaves behind. *)

\* The fields that say nothing of items and descriptors.
With(t, conns, busy, alive, asked, dials) ==
    [items |-> t.items, map |-> t.map, open |-> t.open, conns |-> conns, busy |-> busy,
     alive |-> alive, made |-> t.made, asked |-> asked, dials |-> dials]

LEMMA SameItems ==
    ASSUME NEW t, Table(t), NEW u, Record(u), u.items = t.items, u.map = t.map,
           u.open = t.open, u.made = t.made, u.conns \in Seq(Nat), u.busy \in Nat,
           u.alive \in BOOLEAN, u.asked \in {"no", "asked", "twice"}, u.dials \in Nat
    PROVE  Table(u)
BY DEF Table, Shape, Owned

LEMMA StoppedFields ==
    ASSUME NEW t, Table(t), NEW u \in {Stopped(t), Disposed(t)}
    PROVE  /\ Table(u) /\ u.items = Stop(t).items /\ u.busy = 0 /\ u.asked = "no"
<1> DEFINE d == Stop(t)
<1>1. Table(d) /\ d.busy = 0 /\ Record(d)
  BY StopFields DEF Table, Shape
<1>2. Stopped(t) = [d EXCEPT !.asked = "no"]
  BY DEF Stopped
<1> HIDE DEF d
<1>3. Stopped(t) = With(d, d.conns, 0, d.alive, "no", d.dials)
  BY <1>1, <1>2 DEF Record, With
<1>4. Disposed(t) = With(d, d.conns, 0, FALSE, "no", d.dials)
  <2> DEFINE w == Stopped(t)
  <2>1. Disposed(t) = [w EXCEPT !.alive = FALSE]
    BY DEF Disposed
  <2>2. w = With(d, d.conns, 0, d.alive, "no", d.dials)
    BY <1>3
  <2> HIDE DEF w
  <2> QED BY <2>1, <2>2 DEF With
<1>5. d.conns \in Seq(Nat) /\ d.alive \in BOOLEAN /\ d.dials \in Nat
  BY <1>1 DEF Table, Shape
<1>8. \E v \in BOOLEAN : u = With(d, d.conns, 0, v, "no", d.dials)
  BY <1>3, <1>4, <1>5
<1>6. /\ Record(u) /\ u.items = d.items /\ u.map = d.map /\ u.open = d.open
      /\ u.made = d.made /\ u.conns \in Seq(Nat) /\ u.busy = 0 /\ u.alive \in BOOLEAN
      /\ u.asked = "no" /\ u.dials \in Nat
  BY <1>5, <1>8 DEF With, Record
<1>7. Table(u)
  BY <1>1, <1>6, SameItems
<1> QED BY <1>6, <1>7 DEF d

LEMMA DialBegunFields ==
    ASSUME NEW t, Table(t)
    PROVE  LET b == DialBegun(t) IN
           /\ Table(b) /\ Record(b) /\ b.items = Stop(t).items /\ b.busy = Timeout
           /\ b.asked = "asked"
<1> DEFINE d == Stop(t)
           b == DialBegun(t)
<1>1. Table(d) /\ d.conns = <<>> /\ Record(d) /\ t.dials + 1 \in Nat
  BY StopFields DEF Table, Shape
<1>2. b = [d EXCEPT !.busy = Timeout, !.dials = t.dials + 1, !.asked = "asked"]
  BY DEF DialBegun
<1> HIDE DEF d, b
<1>3. b = With(d, d.conns, Timeout, d.alive, "asked", t.dials + 1)
  BY <1>1, <1>2 DEF Record, With
<1>4. d.conns \in Seq(Nat) /\ d.alive \in BOOLEAN /\ Timeout \in Nat
  BY <1>1, DialerAssumption DEF Table, Shape, DialerAssumption
<1>5. /\ Record(b) /\ b.items = d.items /\ b.map = d.map /\ b.open = d.open
      /\ b.made = d.made /\ b.conns \in Seq(Nat) /\ b.busy = Timeout /\ b.alive \in BOOLEAN
      /\ b.asked = "asked" /\ b.dials \in Nat
  BY <1>1, <1>3, <1>4 DEF With, Record
<1>6. Table(b)
  BY <1>1, <1>4, <1>5, SameItems
<1> QED BY <1>5, <1>6 DEF d, b

\* The descriptors of a dial are free and all different.
LEMMA DescriptorsApart ==
    ASSUME NEW t, NEW fd \in Descriptors(t)
    PROVE  /\ fd \in [DOMAIN Addrs -> Fds \ t.open]
           /\ \A j, k \in DOMAIN Addrs : fd[j] = fd[k] => j = k
<1>1. /\ fd \in [DOMAIN Addrs -> Fds \ t.open]
      /\ \A k \in DOMAIN Addrs : fd[k] \notin {fd[j] : j \in 1 .. k - 1}
  BY DEF Descriptors
<1>2. DOMAIN Addrs \subseteq Nat \ {0}
  BY DialerAssumption DEF DialerAssumption
<1>3. ASSUME NEW j \in DOMAIN Addrs, NEW k \in DOMAIN Addrs, j < k PROVE fd[j] # fd[k]
  <2>1. j \in 1 .. k - 1
    BY <1>2, <1>3
  <2> QED BY <1>1, <2>1
<1>4. \A j, k \in DOMAIN Addrs : j = k \/ j < k \/ k < j
  BY <1>2
<1> QED BY <1>1, <1>3, <1>4

LEMMA AttemptFields ==
    ASSUME NEW t, Table(t), NEW fd \in Descriptors(t)
    PROVE  LET a == Attempt(t, fd)
               new == t.made + 1 .. t.made + Len(Addrs) IN
           /\ Table(a) /\ DOMAIN a.items = DOMAIN t.items \cup new
           /\ \A i \in DOMAIN t.items : a.items[i] = t.items[i]
           /\ new = Attempts(a) /\ a.busy = t.busy /\ a.asked = t.asked
<1> DEFINE a == Attempt(t, fd)
           n == Len(Addrs)
           new == t.made + 1 .. t.made + n
           At(f) == CHOOSE k \in DOMAIN Addrs : fd[k] = f
           items == [i \in DOMAIN t.items \cup new |->
                       IF i \in new
                       THEN [kind |-> ConnKind[Addrs[i - t.made]], fd |-> fd[i - t.made]]
                       ELSE t.items[i]]
           map == [f \in Fds |-> IF f \in Range(fd) THEN t.made + At(f) ELSE t.map[f]]
           conns == [k \in DOMAIN Addrs |-> t.made + k]
<1>1. /\ n \in Nat /\ DOMAIN Addrs = 1 .. n /\ \A k \in 1 .. n : Addrs[k] \in {"tcp", "kcp"}
  BY DialerAssumption DEF DialerAssumption
<1>2. fd \in [1 .. n -> Fds \ t.open] /\ \A j, k \in 1 .. n : fd[j] = fd[k] => j = k
  BY <1>1, DescriptorsApart
<1>3. Range(fd) = {fd[k] : k \in 1 .. n}
  BY <1>2 DEF Range
<1>4. a = [items |-> items, map |-> map, open |-> t.open \cup Range(fd), conns |-> conns,
           busy |-> t.busy, alive |-> t.alive, made |-> t.made + n, asked |-> t.asked,
           dials |-> t.dials]
  <2>1. Record(t)
    BY DEF Table, Shape
  <2>2. a = [t EXCEPT !.items = items, !.map = map, !.open = t.open \cup Range(fd),
                      !.conns = conns, !.made = t.made + n]
    BY DEF Attempt
  <2> HIDE DEF a, n, items, map, conns
  <2> QED BY <2>1, <2>2 DEF Record
<1>5. /\ t.made \in Nat /\ DOMAIN t.items \subseteq 1 .. t.made
      /\ t.items \in [DOMAIN t.items -> ItemRec] /\ t.map \in [Fds -> Nat]
  BY DEF Table, Shape
<1> HIDE DEF n
<1>6. \A i \in new : i \notin DOMAIN t.items /\ i - t.made \in 1 .. n /\ t.made + (i - t.made) = i
  BY <1>1, <1>5
<1>7. \A k \in 1 .. n : t.made + k \in new /\ (t.made + k) - t.made = k
  BY <1>1, <1>5
<1> HIDE DEF new
<1>8. /\ DOMAIN items = DOMAIN t.items \cup new
      /\ \A i \in DOMAIN t.items : items[i] = t.items[i]
      /\ \A i \in new : items[i] = [kind |-> ConnKind[Addrs[i - t.made]], fd |-> fd[i - t.made]]
  BY <1>6
<1>9. items \in [DOMAIN items -> ItemRec]
  <2>1. \A k \in 1 .. n : ConnKind[Addrs[k]] \in Kinds
    BY <1>1 DEF ConnKind, Kinds, ConnKinds
  <2>2. \A i \in new : items[i] \in ItemRec
    BY <1>2, <1>6, <1>8, <2>1 DEF ItemRec
  <2>3. \A i \in DOMAIN t.items : items[i] \in ItemRec
    BY <1>5, <1>8
  <2>4. \A i \in DOMAIN t.items \cup new : items[i] \in ItemRec
    BY <2>2, <2>3
  <2> QED BY <1>8, <2>4
<1>10. \A k \in 1 .. n : At(fd[k]) = k
  BY <1>1, <1>2
<1> HIDE DEF items, At
<1>11. /\ \A f \in Fds : f \notin Range(fd) => map[f] = t.map[f]
       /\ \A k \in 1 .. n : map[fd[k]] = t.made + k
  BY <1>2, <1>3, <1>10
<1>12. map \in [Fds -> Nat]
  <2>1. \A k \in 1 .. n : t.made + At(fd[k]) \in Nat
    BY <1>5, <1>10
  <2>2. \A f \in Range(fd) : t.made + At(f) \in Nat
    BY <1>3, <2>1
  <2> QED BY <1>5, <2>2
<1>13. conns \in Seq(Nat) /\ Len(conns) = n /\ \A k \in 1 .. n : conns[k] = t.made + k
  BY <1>1, <1>5
<1> HIDE DEF a, map, conns
<1>14. Shape(a)
  <2>1. DOMAIN items \subseteq 1 .. t.made + n
    BY <1>1, <1>5, <1>8 DEF new
  <2>2. t.open \cup Range(fd) \subseteq Fds
    BY <1>2, <1>3 DEF Table, Shape
  <2>3. Record(a) /\ t.made + n \in Nat
    BY <1>1, <1>4, <1>5 DEF Record
  <2> QED BY <1>4, <1>9, <1>12, <1>13, <2>1, <2>2, <2>3 DEF Shape, Table
<1>15. Owned(a, {})
  <2>1. \A i \in DOMAIN t.items : t.items[i].fd \in Fds
    BY <1>5 DEF ItemRec
  <2>2. /\ \A i \in DOMAIN t.items : t.map[t.items[i].fd] = i
        /\ t.open = {t.items[i].fd : i \in DOMAIN t.items}
    BY DEF Table, Owned
  <2>3. \A i \in DOMAIN t.items : t.items[i].fd \notin Range(fd)
    BY <1>2, <1>3, <2>2
  <2>4. ASSUME NEW i \in DOMAIN items PROVE map[items[i].fd] = i
    <3>1. CASE i \in new
      <4>1. items[i].fd = fd[i - t.made]
        BY <1>8, <3>1
      <4> QED BY <1>6, <1>11, <3>1, <4>1
    <3>2. CASE i \in DOMAIN t.items
      <4>1. items[i].fd = t.items[i].fd
        BY <1>8, <3>2
      <4> QED BY <1>11, <2>1, <2>2, <2>3, <3>2, <4>1
    <3> QED BY <1>8, <3>1, <3>2
  <2>5. t.open \cup Range(fd) = {items[i].fd : i \in DOMAIN items}
    <3>1. ASSUME NEW f \in t.open PROVE \E i \in DOMAIN items : items[i].fd = f
      BY <1>8, <2>2
    <3>2. ASSUME NEW k \in 1 .. n PROVE \E i \in DOMAIN items : items[i].fd = fd[k]
      <4>1. t.made + k \in new /\ items[t.made + k].fd = fd[k]
        BY <1>7, <1>8
      <4> QED BY <1>8, <4>1
    <3>3. ASSUME NEW i \in DOMAIN items PROVE items[i].fd \in t.open \cup Range(fd)
      <4>1. CASE i \in new
        BY <1>3, <1>6, <1>8, <4>1
      <4>2. CASE i \in DOMAIN t.items
        BY <1>8, <2>2, <4>2
      <4> QED BY <1>8, <4>1, <4>2
    <3> QED BY <1>3, <3>1, <3>2, <3>3
  <2>6. ASSUME NEW f \in Fds, map[f] # NoItem
        PROVE  map[f] \in DOMAIN items /\ items[map[f]].fd = f
    <3>1. CASE f \in Range(fd)
      <4>1. PICK k \in 1 .. n : f = fd[k]
        BY <1>3, <3>1
      <4>2. map[f] = t.made + k /\ t.made + k \in new
        BY <1>7, <1>11, <4>1
      <4> QED BY <1>7, <1>8, <4>1, <4>2
    <3>2. CASE f \notin Range(fd)
      <4>1. t.map[f] \in DOMAIN t.items /\ t.items[t.map[f]].fd = f /\ map[f] = t.map[f]
        BY <1>11, <2>6, <3>2 DEF Table, Owned
      <4> QED BY <1>8, <4>1
    <3> QED BY <3>1, <3>2
  <2>7. a.items = items /\ a.map = map /\ a.open = t.open \cup Range(fd)
    BY <1>4
  <2> QED BY <2>4, <2>5, <2>6, <2>7 DEF Owned
<1>16. Attempts(a) = new
  <2>1. a.conns = conns
    BY <1>4
  <2>2. \A i \in new : i = conns[i - t.made]
    BY <1>6, <1>13
  <2>3. \A k \in 1 .. n : conns[k] \in new
    BY <1>7, <1>13
  <2> QED BY <1>6, <1>13, <2>1, <2>2, <2>3 DEF Attempts
<1>17. /\ Table(a) /\ DOMAIN a.items = DOMAIN t.items \cup new
       /\ \A i \in DOMAIN t.items : a.items[i] = t.items[i]
       /\ new = Attempts(a) /\ a.busy = t.busy /\ a.asked = t.asked
  BY <1>4, <1>8, <1>14, <1>15, <1>16 DEF Table
<1> QED BY <1>17 DEF a, new, n

\* Dial keeps the table exact, whether or not every address gets an attempt.
LEMMA DialedFields ==
    ASSUME NEW t, Table(t), NEW u \in Dialed(t)
    PROVE  Table(u) /\ (Idle(Stop(t)) => Session(u))
<1> DEFINE b == DialBegun(t)
           x == [b EXCEPT !.busy = 0, !.asked = "no"]
<1>1. /\ Table(b) /\ Record(b) /\ b.items = Stop(t).items /\ b.busy = Timeout
      /\ b.asked = "asked"
  BY DialBegunFields
<1>2. u \in {Attempt(b, fd) : fd \in Descriptors(b)} \/ u = x
  BY DEF Dialed
<1> HIDE DEF b
<1>3. ASSUME NEW fd \in Descriptors(b), u = Attempt(b, fd)
      PROVE  Table(u) /\ (Idle(Stop(t)) => Session(u))
  <2>1. /\ Table(u) /\ DOMAIN u.items = DOMAIN b.items \cup Attempts(u)
        /\ \A i \in DOMAIN b.items : u.items[i] = b.items[i]
        /\ u.busy = b.busy /\ u.asked = b.asked
    BY <1>1, <1>3, AttemptFields
  <2>2. Timeout > 0
    BY DialerAssumption DEF DialerAssumption
  <2> QED BY <1>1, <2>1, <2>2 DEF Session, Idle
<1>4. ASSUME u = x PROVE Table(u) /\ (Idle(Stop(t)) => Session(u))
  <2>1. u = With(b, b.conns, 0, b.alive, "no", b.dials)
    BY <1>1, <1>4 DEF Record, With
  <2>2. b.conns \in Seq(Nat) /\ b.alive \in BOOLEAN /\ b.dials \in Nat
    BY <1>1 DEF Table, Shape
  <2>3. /\ Record(u) /\ u.items = b.items /\ u.map = b.map /\ u.open = b.open
        /\ u.made = b.made /\ u.conns \in Seq(Nat) /\ u.busy = 0 /\ u.alive \in BOOLEAN
        /\ u.asked = "no" /\ u.dials \in Nat
    BY <2>1, <2>2 DEF With, Record
  <2>4. Table(u)
    BY <1>1, <2>3, SameItems
  <2> QED BY <1>1, <2>3, <2>4 DEF Session, Idle
<1> QED BY <1>2, <1>3, <1>4

\* A handler keeps the table, and the session when it finds it sound.
LEMMA HandledTable ==
    ASSUME NEW t, Table(t), NEW u \in Handled(t)
    PROVE  Table(u)
BY StoppedFields, DialedFields DEF Handled

LEMMA HandledSession ==
    ASSUME NEW t, Table(t), Session(t), NEW u \in Handled(t)
    PROVE  Session(u)
<1>1. Idle(Stop(t))
  BY StopIdle DEF Table
<1>2. CASE u = t
  BY <1>2
<1>3. CASE u \in {Stopped(t), Disposed(t)}
  <2>1. u.items = Stop(t).items /\ u.busy = 0 /\ u.asked = "no"
    BY <1>3, StoppedFields
  <2> QED BY <1>1, <2>1 DEF Session, Idle
<1>4. CASE u \in Dialed(t)
  BY <1>1, <1>4, DialedFields
<1> QED BY <1>2, <1>3, <1>4 DEF Handled

\* OnConnect, called when the dial is over: it is the dial's one answer.
LEMMA AnsweredFields ==
    ASSUME NEW t, Table(t), NEW u \in Answered(t)
    PROVE  Table(u) /\ (Idle(t) /\ t.asked = "asked" => Session(u))
<1> DEFINE asked == IF t.asked = "asked" THEN "no" ELSE "twice"
           a == [t EXCEPT !.asked = asked]
<1>1. Record(t) /\ t.conns \in Seq(Nat) /\ t.alive \in BOOLEAN /\ t.dials \in Nat /\ t.busy \in Nat
  BY DEF Table, Shape
<1>2. a = With(t, t.conns, t.busy, t.alive, asked, t.dials)
  BY <1>1 DEF Record, With
<1>3. u \in Handled(a)
  BY DEF Answered
<1> HIDE DEF a
<1>4. /\ Record(a) /\ a.items = t.items /\ a.map = t.map /\ a.open = t.open
      /\ a.made = t.made /\ a.conns = t.conns /\ a.busy = t.busy /\ a.alive = t.alive
      /\ a.asked = asked /\ a.dials = t.dials
  BY <1>2 DEF With, Record
<1>5. Table(a)
  BY <1>1, <1>4, SameItems
<1>6. ASSUME Idle(t), t.asked = "asked" PROVE Session(a)
  BY <1>4, <1>6 DEF Idle, Session
<1> QED BY <1>3, <1>5, <1>6, HandledTable, HandledSession

-----------------------------------------------------------------------------
(* The events. *)

\* A TcpConn that connects: the item changes, its descriptor stays.
LEMMA TcpConnectedFields ==
    ASSUME NEW t, Table(t), NEW i \in DOMAIN t.items, NEW u \in TcpConnected(t, i)
    PROVE  Table(u) /\ (Session(t) /\ t.asked = "asked" => Session(u))
<1> DEFINE fd == t.items[i].fd
           g == HandOver(t, i)
           rest == Stop(g)
           kind == "tcpPeer"
           extra == {fd}
           n == NewItem(rest, kind, fd)
           x == [rest EXCEPT !.open = rest.open \ {fd}]
<1>1. /\ Shape(g) /\ Owned(g, {fd}) /\ DOMAIN g.items = DOMAIN t.items \ {i}
      /\ \A j \in DOMAIN t.items \ {i} : g.items[j] = t.items[j]
      /\ g.conns = t.conns /\ Same(g, t)
  BY HandOverFields
<1>2. u \in Answered(n) \/ u \in Answered(x)
  BY DEF TcpConnected
<1> HIDE DEF g, fd
<1>3. /\ Shape(rest) /\ Owned(rest, {fd}) /\ Same(rest, g) /\ rest.busy = 0
      /\ DOMAIN rest.items = DOMAIN g.items \ Attempts(g)
      /\ \A j \in DOMAIN g.items \ Attempts(g) : rest.items[j] = g.items[j]
  BY <1>1, StopFields
<1>4. Attempts(g) = Attempts(t)
  BY <1>1 DEF Attempts
<1>5. Session(t) => Idle(rest)
  BY <1>1, <1>3, <1>4 DEF Session, Idle
<1>6. rest.asked = t.asked
  BY <1>1, <1>3 DEF Same
<1> HIDE DEF rest
<1>7. Table(n) /\ n.asked = rest.asked /\ (Idle(rest) => Idle(n))
  <2>1. kind \in Kinds /\ kind \notin ConnKinds /\ fd \in extra /\ extra \ {fd} = {}
    BY DEF Kinds, ConnKinds
  <2>3. Shape(rest) /\ Owned(rest, extra)
    BY <1>3
  <2> HIDE DEF kind, extra
  <2>2. /\ Shape(n) /\ Owned(n, extra \ {fd})
        /\ DOMAIN n.items = DOMAIN rest.items \cup {rest.made + 1}
        /\ \A j \in DOMAIN rest.items : n.items[j] = rest.items[j]
        /\ n.items[rest.made + 1] = [kind |-> kind, fd |-> fd]
        /\ n.busy = rest.busy /\ n.conns = rest.conns /\ Same(n, rest)
    BY <2>1, <2>3, NewItemFields
  <2> HIDE DEF n
  <2> QED BY <2>1, <2>2 DEF Table, Idle, Same
<1>8. Table(x) /\ x.asked = rest.asked /\ (Idle(rest) => Idle(x))
  <2>1. Record(rest)
    BY <1>3 DEF Shape
  <2>2. x = [items |-> rest.items, map |-> rest.map, open |-> rest.open \ {fd},
             conns |-> rest.conns, busy |-> rest.busy, alive |-> rest.alive,
             made |-> rest.made, asked |-> rest.asked, dials |-> rest.dials]
    BY <2>1 DEF Record
  <2> HIDE DEF x
  <2>3. Shape(x)
    BY <1>3, <2>2 DEF Shape, Record
  <2>4. Owned(x, {})
    BY <1>3, <2>2 DEF Owned
  <2> QED BY <2>2, <2>3, <2>4 DEF Table, Idle
<1> QED BY <1>2, <1>5, <1>6, <1>7, <1>8, AnsweredFields

\* A KcpConn that takes itself, or the last attempt, out of the list stops the
\* others. If it is still there, no other attempt is.
LEMMA KcpStoppedFields ==
    ASSUME NEW t, Table(t), NEW i \in DOMAIN t.items
    PROVE  LET rest == KcpStopped(t, i) IN
           /\ Table(rest) /\ rest.busy = 0 /\ rest.asked = t.asked
           /\ Session(t) /\ i \in Attempts(t) /\ i \in DOMAIN rest.items =>
                \A j \in DOMAIN rest.items : rest.items[j].kind \in ConnKinds => j = i
<1> DEFINE front == IF i \in Attempts(t) THEN SubSeq(t.conns, 1, Len(t.conns) - 1) ELSE t.conns
           c == [t EXCEPT !.conns = front]
           rest == Stop(c)
<1>1. Record(t) /\ t.conns \in Seq(Nat)
  BY DEF Table, Shape
<1>2. i \in Attempts(t) => Len(t.conns) \in Nat \ {0} /\ Len(t.conns) - 1 \in Nat
  BY <1>1 DEF Attempts
<1>3. front \in Seq(Nat)
  BY <1>1, <1>2
<1>4. i \in Attempts(t) =>
        \A j \in Attempts(t) : j \in {front[k] : k \in 1 .. Len(front)} \cup {t.conns[Len(t.conns)]}
  <2> SUFFICES ASSUME i \in Attempts(t), NEW j \in Attempts(t), j # t.conns[Len(t.conns)]
               PROVE  \E k \in 1 .. Len(front) : front[k] = j
    OBVIOUS
  <2>1. /\ Len(t.conns) \in Nat \ {0} /\ Len(front) = Len(t.conns) - 1
        /\ \A k \in 1 .. Len(front) : front[k] = t.conns[k]
    BY <1>1, <1>2
  <2> HIDE DEF front
  <2>2. PICK k \in 1 .. Len(t.conns) : t.conns[k] = j
    BY DEF Attempts
  <2>3. k \in 1 .. Len(front)
    BY <2>1, <2>2
  <2> QED BY <2>1, <2>2, <2>3
<1> HIDE DEF front
<1>5. c = With(t, front, t.busy, t.alive, t.asked, t.dials)
  BY <1>1 DEF Record, With
<1>6. KcpStopped(t, i) = rest
  BY DEF KcpStopped, front
<1> HIDE DEF c
<1>7. /\ Record(c) /\ c.items = t.items /\ c.map = t.map /\ c.open = t.open
      /\ c.made = t.made /\ c.conns = front /\ c.busy = t.busy /\ c.alive = t.alive
      /\ c.asked = t.asked /\ c.dials = t.dials
  BY <1>5 DEF With, Record
<1>8. Table(c)
  BY <1>3, <1>7, SameItems DEF Table, Shape
<1>9. /\ Table(rest) /\ rest.busy = 0 /\ Same(rest, c)
      /\ DOMAIN rest.items = DOMAIN c.items \ Attempts(c)
      /\ \A j \in DOMAIN c.items \ Attempts(c) : rest.items[j] = c.items[j]
  BY <1>8, StopFields DEF Table
<1> HIDE DEF rest
<1>10. Attempts(c) = {front[k] : k \in 1 .. Len(front)}
  BY <1>7 DEF Attempts
<1>11. Session(t) /\ i \in Attempts(t) /\ i \in DOMAIN rest.items =>
         \A j \in DOMAIN rest.items : rest.items[j].kind \in ConnKinds => j = i
  BY <1>4, <1>7, <1>9, <1>10 DEF Session
<1> QED BY <1>6, <1>7, <1>9, <1>11 DEF Same

\* Without its KcpPeer a KcpConn that got its conv is left over: the session is
\* only sound when OnCreatePeer makes one.
LEMMA KcpConnectedFields ==
    ASSUME NEW t, Table(t), NEW i \in DOMAIN t.items, i \in DOMAIN KcpStopped(t, i).items,
           t.items[i].kind \in ConnKinds, NEW u \in KcpConnected(t, i)
    PROVE  /\ Table(u)
           /\ "kcp" \notin Peerless /\ Session(t) => Session(u)
<1> DEFINE rest == KcpStopped(t, i)
           pair == [rest.items[i] EXCEPT !.kind = "kcpPair"]
           items == [rest.items EXCEPT ![i] = pair]
           n == [rest EXCEPT !.items[i].kind = "kcpPair", !.made = rest.made + 1]
<1>1. /\ Table(rest) /\ rest.busy = 0 /\ rest.asked = t.asked
      /\ Session(t) /\ i \in Attempts(t) /\ i \in DOMAIN rest.items =>
           \A j \in DOMAIN rest.items : rest.items[j].kind \in ConnKinds => j = i
  BY KcpStoppedFields
<1>2. i \in DOMAIN rest.items
  OBVIOUS
<1>3. u \in Answered(n) \/ ("kcp" \in Peerless /\ u = rest)
  BY DEF KcpConnected
<1> HIDE DEF rest
<1>4. n = [items |-> items, map |-> rest.map, open |-> rest.open, conns |-> rest.conns,
           busy |-> rest.busy, alive |-> rest.alive, made |-> rest.made + 1,
           asked |-> rest.asked, dials |-> rest.dials]
  <2>1. Record(rest)
    BY <1>1 DEF Table, Shape
  <2>2. n = [rest EXCEPT !.items = items, !.made = rest.made + 1]
    OBVIOUS
  <2> HIDE DEF n, items
  <2> QED BY <2>1, <2>2 DEF Record
<1>5. /\ rest.items \in [DOMAIN rest.items -> ItemRec] /\ rest.made \in Nat
      /\ DOMAIN rest.items \subseteq 1 .. rest.made
  BY <1>1 DEF Table, Shape
<1>6. pair \in ItemRec /\ pair.fd = rest.items[i].fd /\ pair.kind = "kcpPair"
  <2>1. rest.items[i] \in [kind : Kinds, fd : Fds]
    BY <1>2, <1>5 DEF ItemRec
  <2>2. "kcpPair" \in Kinds
    BY DEF Kinds
  <2> QED BY <2>1, <2>2 DEF ItemRec
<1> HIDE DEF pair
<1>7. /\ DOMAIN items = DOMAIN rest.items /\ items[i] = pair
      /\ \A j \in DOMAIN rest.items : j # i => items[j] = rest.items[j]
      /\ items \in [DOMAIN items -> ItemRec]
  BY <1>2, <1>5, <1>6
<1> HIDE DEF items, n
<1>8. \A j \in DOMAIN items : items[j].fd = rest.items[j].fd
  BY <1>6, <1>7
<1>9. Table(n)
  <2>1. rest.made + 1 \in Nat /\ DOMAIN items \subseteq 1 .. rest.made + 1
    BY <1>5, <1>7
  <2>2. Shape(n)
    BY <1>1, <1>4, <1>7, <2>1 DEF Table, Shape, Record
  <2>3. Owned(n, {})
    <3>1. {items[j].fd : j \in DOMAIN items} = {rest.items[j].fd : j \in DOMAIN rest.items}
      BY <1>7, <1>8
    <3>2. n.items = items /\ n.map = rest.map /\ n.open = rest.open
      BY <1>4
    <3>3. Owned(rest, {})
      BY <1>1 DEF Table
    <3> QED BY <1>7, <1>8, <3>1, <3>2, <3>3 DEF Owned
  <2> QED BY <2>2, <2>3 DEF Table
<1>10. Session(t) => Idle(n) /\ n.asked = "asked"
  <2>1. SUFFICES ASSUME Session(t) PROVE Idle(n) /\ n.asked = "asked"
    OBVIOUS
  <2>2. i \in Attempts(t) /\ t.busy > 0 /\ t.asked = "asked"
    BY <2>1 DEF Session
  <2>3. \A j \in DOMAIN items : items[j].kind \notin ConnKinds
    BY <1>1, <1>2, <1>6, <1>7, <2>1, <2>2 DEF ConnKinds
  <2> QED BY <1>1, <1>4, <2>2, <2>3 DEF Idle
<1> QED BY <1>1, <1>3, <1>9, <1>10, AnsweredFields

-----------------------------------------------------------------------------
(* The invariant, and its steps. *)

TableInv == Table(s)

\* One dial, one answer, as long as no handler went on in an item it destroyed.
SessionInv == /\ s.asked # "twice"
              /\ fault = "none" => Session(s)

\* What is taken from an event: the item that owns its descriptor.
EventStep(e, i) == TcpConnEvent(e, i) \/ KcpConnEvent(e, i) \/ PeerEvent(e, i)

LEMMA InitHolds == Init => TableInv /\ SessionInv
<1> SUFFICES ASSUME Init PROVE Table(s) /\ Session(s)
  BY DEF TableInv, SessionInv, Session
<1>1. /\ s.items = << >> /\ s.map = [f \in Fds |-> 0] /\ s.open = {} /\ s.conns = << >>
      /\ s.busy = 0 /\ s.alive = TRUE /\ s.made = 0 /\ s.asked = "no" /\ s.dials = 0
      /\ Record(s)
  BY DEF Init, NoItem, Record
<1>2. DOMAIN s.items = {}
  BY <1>1
<1>3. s.items \in [DOMAIN s.items -> ItemRec]
  BY <1>1, <1>2
<1>4. Shape(s)
  <2>1. s.conns \in Seq(Nat) /\ s.map \in [Fds -> Nat]
    BY <1>1
  <2>2. DOMAIN s.items \subseteq 1 .. s.made /\ s.made \in Nat
    BY <1>1, <1>2
  <2> QED BY <1>1, <1>3, <2>1, <2>2 DEF Shape
<1>5. Owned(s, {})
  BY <1>1, <1>2 DEF Owned, NoItem
<1> QED BY <1>1, <1>2, <1>4, <1>5 DEF Table, Session

\* A TcpConn has its event.
LEMMA TcpConnStep ==
    ASSUME Table(s), NEW i \in DOMAIN s.items, NEW e, TcpConnEvent(e, i)
    PROVE  Table(s') /\ (Session(s) => Session(s'))
<1>1. s.items[i].kind \in ConnKinds
  BY DEF TcpConnEvent, ConnKinds
<1>2. Session(s) => s.asked = "asked"
  BY <1>1 DEF Session
<1>3. CASE s' \in TcpConnected(s, i)
  BY <1>2, <1>3, TcpConnectedFields
<1>4. CASE s' = Destroy(s, {i})
  BY <1>4, DestroyOwned, DestroyKept, DestroySession DEF Table
<1> QED BY <1>3, <1>4 DEF TcpConnEvent

\* A KcpConn has its event; after it has destroyed itself nothing goes on.
LEMMA KcpConnStep ==
    ASSUME Table(s), NEW i \in DOMAIN s.items, NEW e, fault = "none", KcpConnEvent(e, i)
    PROVE  /\ Table(s')
           /\ "kcp" \notin Peerless /\ Session(s) =>
                s'.asked # "twice" /\ (fault' = "none" => Session(s'))
<1>1. s.items[i].kind \in ConnKinds
  BY DEF KcpConnEvent, ConnKinds
<1>2. Session(s) => s.asked # "twice"
  BY DEF Session
<1>3. CASE s' = Destroy(s, {i})
  BY <1>3, DestroyOwned, DestroyKept, DestroySession DEF Table, Session
<1>4. CASE s' = s
  BY <1>2, <1>4
<1>5. CASE fault' = "freed" /\ s' = KcpStopped(s, i)
  <2>1. Table(s') /\ s'.asked = s.asked
    BY <1>5, KcpStoppedFields
  <2> QED BY <1>2, <1>5, <2>1
<1>6. CASE i \in DOMAIN KcpStopped(s, i).items /\ s' \in KcpConnected(s, i)
  <2>1. /\ Table(s')
        /\ "kcp" \notin Peerless /\ Session(s) => Session(s')
    BY <1>1, <1>6, KcpConnectedFields
  <2> QED BY <2>1 DEF Session
<1> QED BY <1>3, <1>4, <1>5, <1>6 DEF KcpConnEvent

\* A peer breaks, after its handler has done what it likes.
LEMMA PeerStep ==
    ASSUME Table(s), NEW i \in DOMAIN s.items, NEW e, PeerEvent(e, i)
    PROVE  Table(s') /\ (Session(s) => Session(s'))
<1>1. PICK t \in Handled(s) : s' = Destroy(t, {i})
  BY DEF PeerEvent
<1>2. Table(t) /\ (Session(s) => Session(t))
  BY HandledTable, HandledSession
<1> QED BY <1>1, <1>2, DestroyOwned, DestroyKept, DestroySession DEF Table

\* A frame counts down, or ends the dial with its answer.
LEMMA FrameStep ==
    ASSUME Table(s), Frame
    PROVE  Table(s') /\ (Session(s) => Session(s'))
<1>1. Record(s) /\ s.busy \in Nat /\ s.busy > 0 /\ Shape(s)
  BY DEF Table, Shape, Frame
<1>2. CASE s.busy > 1 /\ s' = [s EXCEPT !.busy = s.busy - 1]
  <2> DEFINE u == [s EXCEPT !.busy = s.busy - 1]
  <2>1. u = With(s, s.conns, s.busy - 1, s.alive, s.asked, s.dials)
    BY <1>1 DEF Record, With
  <2>2. s.busy - 1 \in Nat /\ s.busy - 1 > 0
    BY <1>1, <1>2
  <2> HIDE DEF u
  <2>3. /\ Record(u) /\ u.items = s.items /\ u.map = s.map /\ u.open = s.open
        /\ u.made = s.made /\ u.conns = s.conns /\ u.busy \in Nat /\ u.busy > 0
        /\ u.alive = s.alive /\ u.asked = s.asked /\ u.dials = s.dials
    BY <2>1, <2>2 DEF With, Record
  <2>4. Table(u)
    BY <1>1, <2>3, SameItems DEF Shape
  <2>5. Session(s) => Session(u)
    BY <1>1, <2>3 DEF Session, Attempts
  <2> QED BY <1>2, <2>4, <2>5 DEF u
<1>3. CASE s' \in Answered(Stop(s))
  <2>1. Table(Stop(s)) /\ Stop(s).asked = s.asked
    BY <1>1, StopFields DEF Table, Same
  <2>2. Session(s) => Idle(Stop(s)) /\ s.asked = "asked"
    BY <1>1, StopIdle DEF Session
  <2> QED BY <1>3, <2>1, <2>2, AnsweredFields
<1> QED BY <1>2, <1>3 DEF Frame

LEMMA StepHolds ==
    ASSUME TableInv, [Next]_vars
    PROVE  TableInv' /\ ("kcp" \notin Peerless /\ SessionInv => SessionInv')
<1> USE DEF TableInv, SessionInv
<1>1. CASE Wait
  BY <1>1 DEF Wait
<1>2. ASSUME NEW e \in batch, StaleEvent(e), fault = "none"
      PROVE  Table(s') /\ (SessionInv => SessionInv')
  BY <1>2 DEF StaleEvent
<1>3. ASSUME NEW e \in batch, NEW i \in DOMAIN s.items \cap {s.map[e.fd]}, fault = "none",
             EventStep(e, i)
      PROVE  Table(s') /\ ("kcp" \notin Peerless /\ SessionInv => SessionInv')
  <2>1. CASE TcpConnEvent(e, i)
    BY <1>3, <2>1, TcpConnStep DEF Session
  <2>2. CASE KcpConnEvent(e, i)
    BY <1>3, <2>2, KcpConnStep
  <2>3. CASE PeerEvent(e, i)
    BY <1>3, <2>3, PeerStep DEF Session
  <2> QED BY <1>3, <2>1, <2>2, <2>3 DEF EventStep
<1>4. CASE Frame /\ fault = "none"
  <2>1. fault' = fault
    BY <1>4 DEF Frame
  <2> QED BY <1>4, <2>1, FrameStep DEF Session
<1>5. CASE Program /\ fault = "none"
  <2>1. s' \in Handled(s) /\ fault' = fault
    BY <1>5 DEF Program
  <2> QED BY <1>5, <2>1, HandledTable, HandledSession DEF Session
<1>6. CASE UNCHANGED vars
  BY <1>6 DEF vars
<1> QED BY <1>1, <1>2, <1>3, <1>4, <1>5, <1>6 DEF Next, Event, EventStep

-----------------------------------------------------------------------------
(* The theorems. *)

\* fdMappings leads from each open descriptor to the living item that owns it,
\* and from no other descriptor, after every handler of every batch, whatever the
\* program's own handlers do to the dialer, and in the KCP connection that goes
\* on in a destroyed item too (AddItem, ~Item, ~TcpConn).
THEOREM DialerMapping == Spec => []MappingExact
<1>1. Init => TableInv
  BY InitHolds
<1>2. TableInv /\ [Next]_vars => TableInv'
  BY StepHolds
<1>3. TableInv => MappingExact
  BY DEF TableInv, Table, Owned, MappingExact
<1> QED BY <1>1, <1>2, <1>3, PTL DEF Spec

\* The session of a dialer, when OnCreatePeer makes a peer for every KCP
\* connection: without one, xx_epoll2.hpp:787-790 leaves the KcpConn behind with
\* no answer to come.
LEMMA DialerSession ==
    "kcp" \notin Peerless => (Spec => [](TableInv /\ SessionInv))
<1> SUFFICES ASSUME "kcp" \notin Peerless PROVE Spec => [](TableInv /\ SessionInv)
  OBVIOUS
<1>1. Init => TableInv /\ SessionInv
  BY InitHolds
<1>2. TableInv /\ SessionInv /\ [Next]_vars => (TableInv /\ SessionInv)'
  BY StepHolds
<1> QED BY <1>1, <1>2, PTL DEF Spec

\* OnConnect is called at most once for a dial, and never after Stop, whatever
\* succeeds or breaks in the same batch (Dialer::OnTimeout, OnConnect).
THEOREM DialerOneAnswer == "kcp" \notin Peerless => (Spec => []OneAnswer)
<1>1. SessionInv => OneAnswer
  BY DEF SessionInv, OneAnswer
<1> QED BY <1>1, DialerSession, PTL

\* What still tries to connect is in the list of a dialer that is busy with it
\* (Dialer::Stop).
THEOREM DialerNothingLeft == "kcp" \notin Peerless => (Spec => []NothingLeft)
<1>1. SessionInv => NothingLeft
  BY DEF SessionInv, NothingLeft, Session, ConnKinds
<1> QED BY <1>1, DialerSession, PTL

\* Busy is true exactly while an answer is to come (Dialer::Busy).
THEOREM DialerBusyExact == "kcp" \notin Peerless => (Spec => []BusyExact)
<1>1. SessionInv => BusyExact
  BY DEF SessionInv, BusyExact, Session
<1> QED BY <1>1, DialerSession, PTL
=============================================================================
