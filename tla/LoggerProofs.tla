---------------------------- MODULE LoggerProofs ----------------------------
(***************************************************************************)
(* For any limits, any number of callers, runs and crashes: a destructor   *)
(* that returns after the writer thread ended has left no row behind that  *)
(* was written before it was called. The heart of it is what the second    *)
(* empty scan knows: the flag was already up, so nothing can have come     *)
(* after it.                                                               *)
(***************************************************************************)
EXTENDS Logger, TLAPS

Types ==
    /\ rows \in Seq(Nat) /\ bgRows \in Seq(Nat) /\ saved \in Seq(Nat)
    /\ disposing \in {-1, 0, 1, 2} /\ entering \in BOOLEAN
    /\ worker \in {"scan", "empty", "trim", "insert", "ended", "failed"}
    /\ owner \in {"open", "closing", "waiting", "gone", "down"}
    /\ written \in Nat /\ start.written \in Nat

Living == owner # "down" /\ worker # "failed"

\* The flag says how far the destructor and the writer thread are.
FlagFits ==
    owner # "down" =>
        /\ disposing \in {1, 2} => owner = "waiting"
        /\ disposing = -1 => worker = "failed"
        /\ worker = "failed" => disposing # 0
        /\ owner \in {"open", "closing"} => worker # "ended"
        /\ owner = "waiting" /\ disposing = 0 => worker = "ended"
        /\ owner = "gone" => worker \in {"ended", "failed"}

\* Every row of this run is in one of the queues or saved.
RowsKept ==
    Living => start.written + 1 .. written \subseteq ToSet(rows) \cup ToSet(bgRows) \cup ToSet(saved)

BgRowsInSave == Living /\ worker \in {"scan", "empty", "ended"} => bgRows = <<>>

\* After an empty scan that began with the flag up there is nothing to come.
SecondScan == Living /\ worker = "empty" /\ disposing = 2 => rows = <<>> /\ ~entering

PromisedWritten ==
    /\ owner \in {"closing", "waiting", "gone"} => promised \subseteq start.written + 1 .. written
    /\ owner \in {"closing", "waiting", "gone"} /\ worker = "ended" => promised \subseteq ToSet(saved)

IInv == Types /\ FlagFits /\ RowsKept /\ BgRowsInSave /\ SecondScan /\ PromisedWritten

-----------------------------------------------------------------------------
(* What sequences hold *)

\* Appending adds the element, concatenating adds the other's, and the empty
\* sequence holds nothing.
LEMMA Held ==
    ASSUME NEW s \in Seq(Nat), NEW t \in Seq(Nat), NEW e \in Nat
    PROVE  /\ ToSet(Append(s, e)) = ToSet(s) \cup {e}
           /\ ToSet(s \o t) = ToSet(s) \cup ToSet(t)
           /\ ToSet(<<>>) = {}
<1>1. ToSet(Append(s, e)) = ToSet(s) \cup {e}
  <2>1. /\ DOMAIN Append(s, e) = 1 .. Len(s) + 1 /\ Append(s, e)[Len(s) + 1] = e
        /\ \A i \in 1 .. Len(s) : Append(s, e)[i] = s[i]
      BY SMTT(30)
  <2>2. ToSet(Append(s, e)) \subseteq ToSet(s) \cup {e}
      BY <2>1 DEF ToSet
  <2>3. e \in ToSet(Append(s, e))
      BY <2>1 DEF ToSet
  <2>4. ToSet(s) \subseteq ToSet(Append(s, e))
    <3>0. DOMAIN s = 1 .. Len(s)
        OBVIOUS
    <3> SUFFICES ASSUME NEW i \in 1 .. Len(s) PROVE s[i] \in ToSet(Append(s, e))
        BY <3>0, Zenon DEF ToSet
    <3>1. i \in DOMAIN Append(s, e) /\ Append(s, e)[i] = s[i]
        BY <2>1
    <3> QED BY <3>1 DEF ToSet
  <2> QED BY <2>2, <2>3, <2>4
<1>2. ToSet(s) \subseteq ToSet(s \o t)
    BY DEF ToSet
<1>3. ToSet(t) \subseteq ToSet(s \o t)
  <2> SUFFICES ASSUME NEW i \in DOMAIN t PROVE t[i] \in ToSet(s \o t)
      BY DEF ToSet
  <2>1. Len(s) + i \in DOMAIN (s \o t) /\ (s \o t)[Len(s) + i] = t[i]
      OBVIOUS
  <2> QED BY <2>1 DEF ToSet
<1>4. ToSet(s \o t) \subseteq ToSet(s) \cup ToSet(t)
    BY DEF ToSet
<1>5. ToSet(<<>>) = {}
    BY DEF ToSet
<1> QED BY <1>1, <1>2, <1>3, <1>4, <1>5

-----------------------------------------------------------------------------
(* The invariant *)

\* Before the first run there is nothing to lose.
LEMMA InitIInv == Init => IInv
<1> SUFFICES ASSUME Init PROVE IInv
    OBVIOUS
<1>1. rows \in Seq(Nat) /\ bgRows \in Seq(Nat) /\ saved \in Seq(Nat)
    BY DEF Init
<1>2. Types
  <2>1. start.written \in Nat /\ written \in Nat
      BY DEF Init
  <2>2. disposing \in {-1, 0, 1, 2} /\ entering \in BOOLEAN
      BY DEF Init
  <2> QED BY <1>1, <2>1, <2>2 DEF Init, Types
<1>3. PromisedWritten /\ FlagFits
    BY DEF Init, PromisedWritten, FlagFits
<1> QED BY <1>2, <1>3 DEF Init, IInv, RowsKept, BgRowsInSave, SecondScan, Living

\* Every step keeps it.
LEMMA NextIInv == IInv /\ [Next]_vars => IInv'
<1> SUFFICES ASSUME IInv, [Next]_vars PROVE IInv'
    OBVIOUS
<1> USE LoggerAssumption DEF LoggerAssumption
<1> USE DEF IInv, Types, FlagFits, BgRowsInSave, SecondScan, PromisedWritten, Living
<1>1. ASSUME NEW cleanup \in BOOLEAN, Open(cleanup) PROVE IInv'
    BY <1>1 DEF Open, RowsKept
<1>2. CASE Crash
    BY <1>2 DEF Crash, history, RowsKept
<1>3. CASE WriteEnter
    BY <1>3 DEF WriteEnter, history, RowsKept
<1>4. CASE WriteLeave
  <2>1. rows' = Append(rows, written + 1) /\ written' = written + 1 /\ written + 1 \in Nat
      BY <1>4 DEF WriteLeave
  <2>2. rows' \in Seq(Nat) /\ ToSet(rows') = ToSet(rows) \cup {written + 1}
      BY <2>1, Held DEF Types
  <2>3. UNCHANGED <<bgRows, disposing, worker, owner, saved, start, promised>> /\ entering /\ entering' = FALSE
      BY <1>4 DEF WriteLeave
  <2>4. RowsKept'
      BY <2>1, <2>2, <2>3 DEF RowsKept
  <2>5. PromisedWritten'
      BY <2>1, <2>3
  <2> QED BY <2>1, <2>2, <2>3, <2>4, <2>5
<1>5. CASE Scan
    BY <1>5 DEF Scan, history, RowsKept
<1>6. CASE LookAtFlag
    BY <1>6, Held DEF LookAtFlag, LeavesAt, Leaves, history, RowsKept
<1>7. CASE Trim
    BY <1>7 DEF Trim, Fails, history, RowsKept
<1>8. CASE Insert
  <2>1. saved' = saved \o bgRows
      BY <1>8 DEF Insert
  <2>2. saved' \in Seq(Nat) /\ ToSet(saved') = ToSet(saved) \cup ToSet(bgRows)
      BY <2>1, Held
  <2> QED BY <1>8, <2>2 DEF Insert, RowsKept
<1>9. CASE SaveFails
    BY <1>9 DEF SaveFails, Fails, history, RowsKept
<1>10. CASE CloseCalled
    BY <1>10 DEF CloseCalled, RowsKept
<1>11. CASE CloseFlags
    BY <1>11 DEF CloseFlags, history, RowsKept
<1>12. CASE CloseReturns
    BY <1>12 DEF CloseReturns, history, RowsKept
<1>13. CASE UNCHANGED vars
    BY <1>13 DEF vars, queueVars, tableVars, history, RowsKept
<1>14. CASE CrashInOpen
    BY <1>14 DEF CrashInOpen, RowsKept
<1> QED
    BY <1>1, <1>2, <1>3, <1>4, <1>5, <1>6, <1>7, <1>8, <1>9, <1>10, <1>11, <1>12, <1>13, <1>14 DEF Next

\* A destructor that returns after the writer thread ended has lost no row that
\* was written before it was called.
THEOREM NothingLost == Spec => []EveryRowSaved
<1>1. IInv => EveryRowSaved
    BY DEF IInv, PromisedWritten, EveryRowSaved
<1> QED BY <1>1, InitIInv, NextIInv, PTL DEF Spec
-----------------------------------------------------------------------------
(* The table. The rows that are saved, those that the writer holds and      *)
(* those that wait are in the order of Write; the table is taken from the   *)
(* first, agrees with them at its end, and has room for the second, as long as *)
(* no run ended in the middle of a write to the file.                         *)

Below(s, t) == \A a \in ToSet(s), b \in ToSet(t) : a < b

\* From their ends, s and t have the same rows, as far as the limit looks.
EndsAlike(s, t) ==
    \A k \in 0 .. RowsLimit - 1 :
        k < Len(s) => k < Len(t) /\ s[Len(s) - k] = t[Len(t) - k]

TableTypes ==
    /\ table \in Seq(Nat) /\ numRows \in Int /\ runs \in Nat /\ saves \in Nat
    /\ start.saved \in Nat

\* Nothing goes on between two runs, and there is no table before the first.
Between ==
    /\ owner = "down" => worker = "ended"
    /\ owner \in {"down", "gone"} => ~entering
    /\ runs = 0 => owner = "down" /\ table = <<>>

InOrder ==
    /\ Increasing(saved) /\ Increasing(bgRows) /\ Increasing(rows)
    /\ Below(saved, bgRows) /\ Below(saved, rows) /\ Below(bgRows, rows)
    /\ \A a \in ToSet(saved) \cup ToSet(bgRows) \cup ToSet(rows) : a <= written

\* The file holds the newest of what was saved.
Agrees ==
    Increasing(table) /\ ToSet(table) \subseteq ToSet(saved) /\ EndsAlike(table, saved)

\* Of this run no more is dropped than the limit asks for: after a Save, and with
\* the rows of the one that is about to insert.
NotTooFew ==
    owner # "down" =>
        /\ worker \notin {"insert", "failed"} =>
              Len(table) >= RowsLimit \/ Len(table) >= Len(saved) - start.saved
        /\ worker = "insert" =>
              \/ Len(table) + Len(bgRows) >= RowsLimit
              \/ Len(table) >= Len(saved) - start.saved

\* Once a Trim has set numRows it bounds the table, and in the first run it always
\* does.
NotTooMany ==
    /\ worker \in {"trim", "insert"} => bgRows # <<>>
    /\ worker = "insert" \/ saves > 0 => numRows = RowsLimit
    /\ runs = 1 => numRows = RowsLimit \/ (numRows = 0 /\ table = <<>>)
    /\ worker = "insert" /\ (runs = 1 \/ saves > 0) =>
          table = <<>> \/ Len(table) + Len(bgRows) <= RowsLimit
    /\ runs = 1 \/ saves > 1 => Len(table) <= RowsLimit

Kept == Agrees /\ NotTooFew /\ NotTooMany

TableInv == TableTypes /\ Between /\ InOrder /\ (intact => Kept)

\* One sequence after another.
LEMMA Joined ==
    ASSUME NEW s \in Seq(Nat), NEW t \in Seq(Nat)
    PROVE  LET u == s \o t IN
           /\ u \in Seq(Nat) /\ Len(u) = Len(s) + Len(t)
           /\ DOMAIN u = 1 .. Len(s) + Len(t)
           /\ \A i \in 1 .. Len(s) : u[i] = s[i]
           /\ \A i \in 1 .. Len(t) : u[Len(s) + i] = t[i]
<1> DEFINE u == s \o t
<1>1. u \in Seq(Nat) /\ Len(u) = Len(s) + Len(t) /\ DOMAIN u = 1 .. Len(s) + Len(t)
  OBVIOUS
<1>2. \A i \in 1 .. Len(s) : u[i] = s[i]
  OBVIOUS
<1>3. \A i \in 1 .. Len(t) : u[Len(s) + i] = t[i]
  OBVIOUS
<1> QED BY <1>1, <1>2, <1>3

\* The newest n of a sequence.
LEMMA NewestFields ==
    ASSUME NEW s \in Seq(Nat), NEW n \in Nat
    PROVE  LET t == Newest(s, n) IN
           /\ t \in Seq(Nat) /\ Len(t) = IF n < Len(s) THEN n ELSE Len(s)
           /\ \A i \in 1 .. Len(t) : t[i] = s[Len(s) - Len(t) + i]
<1> DEFINE t == Newest(s, n)
<1>1. CASE n < Len(s)
  <2>1. t = SubSeq(s, Len(s) - n + 1, Len(s))
    BY <1>1 DEF Newest
  <2>2. Len(s) - n + 1 \in 1 .. Len(s) + 1 /\ Len(s) \in Nat
    BY <1>1
  <2>3. \A i \in Len(s) - n + 1 .. Len(s) : s[i] \in Nat
    BY <2>2
  <2>4. t \in Seq(Nat) /\ Len(t) = n /\ \A i \in 1 .. n : t[i] = s[Len(s) - n + i]
    BY <2>1, <2>2, <2>3
  <2> QED BY <1>1, <2>4
<1>2. CASE ~(n < Len(s))
  <2>1. t = s
    BY <1>2 DEF Newest
  <2> HIDE DEF t
  <2>2. \A i \in 1 .. Len(s) : Len(s) - Len(s) + i = i
    OBVIOUS
  <2>3. t \in Seq(Nat) /\ Len(t) = Len(s) /\ \A i \in 1 .. Len(t) : t[i] = s[Len(s) - Len(t) + i]
    BY <2>1, <2>2
  <2> QED BY <1>2, <2>3 DEF t
<1> QED BY <1>1, <1>2

\* They are in the same order, and end alike with what the sequence ends with.
LEMMA NewestOrder ==
    ASSUME NEW s \in Seq(Nat), NEW n \in Nat
    PROVE  /\ ToSet(Newest(s, n)) \subseteq ToSet(s)
           /\ Increasing(s) => Increasing(Newest(s, n))
           /\ \A u \in Seq(Nat) : EndsAlike(s, u) => EndsAlike(Newest(s, n), u)
<1> DEFINE t == Newest(s, n)
<1>1. /\ t \in Seq(Nat) /\ Len(t) = IF n < Len(s) THEN n ELSE Len(s)
      /\ \A i \in 1 .. Len(t) : t[i] = s[Len(s) - Len(t) + i]
  BY NewestFields
<1> HIDE DEF t
<1> DEFINE d == Len(s) - Len(t)
<1>2. /\ d \in Nat /\ Len(t) \in Nat /\ Len(s) \in Nat /\ DOMAIN t = 1 .. Len(t)
      /\ DOMAIN s = 1 .. Len(s) /\ Len(s) = d + Len(t)
  BY <1>1
<1>7. \A i \in 1 .. Len(t) : t[i] = s[d + i]
  BY <1>1
<1> HIDE DEF d
<1>3. \A i \in 1 .. Len(t) : t[i] = s[d + i] /\ d + i \in 1 .. Len(s)
  BY <1>2, <1>7
<1>6. ASSUME NEW u \in Seq(Nat), EndsAlike(s, u) PROVE EndsAlike(t, u)
  <2> SUFFICES ASSUME NEW k \in 0 .. RowsLimit - 1, k < Len(t)
               PROVE  k < Len(u) /\ t[Len(t) - k] = u[Len(u) - k]
    BY DEF EndsAlike
  <2>1. k < Len(s) /\ Len(t) - k \in 1 .. Len(t) /\ d + (Len(t) - k) = Len(s) - k
    BY <1>2, LoggerAssumption DEF LoggerAssumption
  <2>2. k < Len(u) /\ s[Len(s) - k] = u[Len(u) - k]
    BY <1>6, <2>1 DEF EndsAlike
  <2> QED BY <1>3, <2>1, <2>2
<1>4. ToSet(t) \subseteq ToSet(s)
  BY <1>2, <1>3 DEF ToSet
<1>5. Increasing(s) => Increasing(t)
  <2> SUFFICES ASSUME Increasing(s), NEW i \in 1 .. Len(t), NEW j \in 1 .. Len(t), i < j
               PROVE  t[i] < t[j]
    BY <1>2 DEF Increasing
  <2>1. d + i < d + j
    BY <1>2
  <2> QED BY <1>2, <1>3, <2>1 DEF Increasing
<1> QED BY <1>4, <1>5, <1>6 DEF t

\* What follows in order stays in order.
LEMMA Follows ==
    ASSUME NEW s \in Seq(Nat), NEW t \in Seq(Nat), Increasing(s), Increasing(t), Below(s, t)
    PROVE  Increasing(s \o t)
<1> DEFINE u == s \o t
<1>1. /\ Len(s) \in Nat /\ Len(t) \in Nat /\ DOMAIN u = 1 .. Len(s) + Len(t)
      /\ DOMAIN s = 1 .. Len(s) /\ DOMAIN t = 1 .. Len(t)
      /\ \A i \in 1 .. Len(s) : u[i] = s[i]
      /\ \A i \in 1 .. Len(t) : u[Len(s) + i] = t[i]
  BY Joined
<1> HIDE DEF u
<1> SUFFICES ASSUME NEW i \in 1 .. Len(s) + Len(t), NEW j \in 1 .. Len(s) + Len(t), i < j
             PROVE  u[i] < u[j]
  BY <1>1 DEF Increasing, u
<1>2. CASE j <= Len(s)
  <2>1. i \in 1 .. Len(s) /\ j \in 1 .. Len(s)
    BY <1>1, <1>2
  <2> QED BY <1>1, <2>1 DEF Increasing
<1>3. CASE i > Len(s)
  <2>1. /\ i - Len(s) \in 1 .. Len(t) /\ j - Len(s) \in 1 .. Len(t)
        /\ i - Len(s) < j - Len(s) /\ Len(s) + (i - Len(s)) = i /\ Len(s) + (j - Len(s)) = j
    BY <1>1, <1>3
  <2>2. t[i - Len(s)] < t[j - Len(s)]
    BY <1>1, <2>1 DEF Increasing
  <2> QED BY <1>1, <2>1, <2>2
<1>4. CASE i <= Len(s) /\ j > Len(s)
  <2>1. /\ i \in 1 .. Len(s) /\ j - Len(s) \in 1 .. Len(t) /\ Len(s) + (j - Len(s)) = j
    BY <1>1, <1>4
  <2>2. s[i] \in ToSet(s) /\ t[j - Len(s)] \in ToSet(t)
    BY <1>1, <2>1 DEF ToSet
  <2>3. s[i] < t[j - Len(s)]
    BY <2>2 DEF Below
  <2> QED BY <1>1, <2>1, <2>3
<1> QED BY <1>1, <1>2, <1>3, <1>4

\* A batch of which the newest rows are inserted leaves a table that ends as what
\* was saved does.
LEMMA InsertEnds ==
    ASSUME NEW s \in Seq(Nat), NEW t \in Seq(Nat), NEW b \in Seq(Nat), EndsAlike(s, t)
    PROVE  EndsAlike(s \o Newest(b, RowsLimit), t \o b)
<1> DEFINE n == Newest(b, RowsLimit)
           x == s \o n
           y == t \o b
<1>0. RowsLimit \in Nat \ {0}
  BY LoggerAssumption DEF LoggerAssumption
<1>1. /\ n \in Seq(Nat) /\ Len(n) = IF RowsLimit < Len(b) THEN RowsLimit ELSE Len(b)
      /\ \A i \in 1 .. Len(n) : n[i] = b[Len(b) - Len(n) + i]
  BY <1>0, NewestFields
<1> HIDE DEF n
<1>2. /\ Len(s) \in Nat /\ Len(t) \in Nat /\ Len(b) \in Nat /\ Len(n) \in Nat
      /\ Len(x) = Len(s) + Len(n) /\ Len(y) = Len(t) + Len(b)
      /\ \A i \in 1 .. Len(s) : x[i] = s[i]
      /\ \A i \in 1 .. Len(n) : x[Len(s) + i] = n[i]
      /\ \A i \in 1 .. Len(t) : y[i] = t[i]
      /\ \A i \in 1 .. Len(b) : y[Len(t) + i] = b[i]
  <2>1. Len(s) \in Nat /\ Len(t) \in Nat /\ Len(b) \in Nat /\ Len(n) \in Nat
    BY <1>1
  <2>2. /\ Len(x) = Len(s) + Len(n) /\ \A i \in 1 .. Len(s) : x[i] = s[i]
        /\ \A i \in 1 .. Len(n) : x[Len(s) + i] = n[i]
    BY <1>1, Joined
  <2>3. /\ Len(y) = Len(t) + Len(b) /\ \A i \in 1 .. Len(t) : y[i] = t[i]
        /\ \A i \in 1 .. Len(b) : y[Len(t) + i] = b[i]
    BY Joined
  <2> QED BY <2>1, <2>2, <2>3
<1> HIDE DEF x, y
<1> SUFFICES ASSUME NEW k \in 0 .. RowsLimit - 1, k < Len(x)
             PROVE  k < Len(y) /\ x[Len(x) - k] = y[Len(y) - k]
  BY DEF EndsAlike, x, y, n
<1>3. CASE k < Len(n)
  <2>1. /\ Len(n) - k \in 1 .. Len(n) /\ Len(b) - k \in 1 .. Len(b)
        /\ Len(x) - k = Len(s) + (Len(n) - k) /\ Len(y) - k = Len(t) + (Len(b) - k)
        /\ Len(b) - Len(n) + (Len(n) - k) = Len(b) - k
    <3>1. Len(n) <= Len(b) /\ k \in Nat
      BY <1>0, <1>1, <1>2
    <3>2. Len(n) - k \in 1 .. Len(n) /\ Len(b) - k \in 1 .. Len(b)
      BY <1>2, <1>3, <3>1
    <3>3. Len(x) - k = Len(s) + (Len(n) - k) /\ Len(y) - k = Len(t) + (Len(b) - k)
      BY <1>2, <3>1
    <3>4. Len(b) - Len(n) + (Len(n) - k) = Len(b) - k
      BY <1>2, <3>1
    <3> QED BY <3>2, <3>3, <3>4
  <2>2. n[Len(n) - k] = b[Len(b) - k]
    BY <1>1, <2>1
  <2>3. x[Len(x) - k] = n[Len(n) - k] /\ y[Len(y) - k] = b[Len(b) - k]
    BY <1>2, <2>1
  <2> QED BY <1>2, <2>1, <2>2, <2>3
<1>4. CASE ~(k < Len(n))
  <2> DEFINE h == k - Len(n)
  <2>1. /\ Len(n) = Len(b) /\ h \in 0 .. RowsLimit - 1 /\ h < Len(s)
        /\ Len(x) - k = Len(s) - h /\ Len(y) - k = Len(t) - h
    BY <1>0, <1>1, <1>2, <1>4
  <2>2. h < Len(t) /\ s[Len(s) - h] = t[Len(t) - h]
    BY <2>1 DEF EndsAlike
  <2>3. Len(s) - h \in 1 .. Len(s) /\ Len(t) - h \in 1 .. Len(t) /\ k < Len(y)
    BY <1>0, <1>2, <2>1, <2>2
  <2> HIDE DEF h
  <2> QED BY <1>2, <2>1, <2>2, <2>3
<1> QED BY <1>3, <1>4

\* The newest rows of a table that ends as what was saved does are a suffix of it.
LEMMA EndsSuffix ==
    ASSUME NEW s \in Seq(Nat), NEW t \in Seq(Nat), EndsAlike(s, t)
    PROVE  IsSuffix(Newest(s, RowsLimit), t)
<1> DEFINE n == Newest(s, RowsLimit)
           p == Reverse(n)
           q == Reverse(t)
           m == Len(n)
<1>0. RowsLimit \in Nat \ {0}
  BY LoggerAssumption DEF LoggerAssumption
<1>1. /\ n \in Seq(Nat) /\ Len(n) = IF RowsLimit < Len(s) THEN RowsLimit ELSE Len(s)
      /\ EndsAlike(n, t)
  BY <1>0, NewestFields, NewestOrder
<1> HIDE DEF n
<1>2. /\ m \in Nat /\ m <= RowsLimit /\ Len(t) \in Nat
  BY <1>0, <1>1
<1>3. /\ p \in Seq(Nat) /\ Len(p) = m /\ \A i \in 1 .. m : p[i] = n[(m - i) + 1]
      /\ q \in Seq(Nat) /\ Len(q) = Len(t) /\ \A i \in 1 .. Len(t) : q[i] = t[(Len(t) - i) + 1]
  <2>1. \A i \in 1 .. m : (m - i) + 1 \in 1 .. m
    BY <1>2
  <2>2. \A i \in 1 .. m : n[(m - i) + 1] \in Nat
    <3>1. n \in Seq(Nat)
      BY <1>1
    <3> QED BY <2>1, <3>1
  <2>3. p = [i \in 1 .. m |-> n[(m - i) + 1]]
    BY DEF Reverse
  <2>4. p \in Seq(Nat) /\ Len(p) = m /\ \A i \in 1 .. m : p[i] = n[(m - i) + 1]
    <3> HIDE DEF m, p
    <3> QED BY <1>2, <2>2, <2>3
  <2>5. \A i \in 1 .. Len(t) : (Len(t) - i) + 1 \in 1 .. Len(t)
    BY <1>2
  <2>6. \A i \in 1 .. Len(t) : t[(Len(t) - i) + 1] \in Nat
    BY <2>5
  <2>7. q = [i \in 1 .. Len(t) |-> t[(Len(t) - i) + 1]]
    BY DEF Reverse
  <2>8. q \in Seq(Nat) /\ Len(q) = Len(t) /\ \A i \in 1 .. Len(t) : q[i] = t[(Len(t) - i) + 1]
    <3> HIDE DEF q
    <3> QED BY <1>2, <2>6, <2>7
  <2> QED BY <2>4, <2>8
<1> HIDE DEF p, q
<1>4. ASSUME NEW i \in 1 .. m PROVE i \in 1 .. Len(t) /\ p[i] = q[i]
  <2>1. i - 1 \in 0 .. RowsLimit - 1 /\ i - 1 < m
    BY <1>0, <1>2
  <2>2. i - 1 < Len(t) /\ n[m - (i - 1)] = t[Len(t) - (i - 1)]
    BY <1>1, <2>1 DEF EndsAlike
  <2>3. i \in 1 .. Len(t) /\ (m - i) + 1 = m - (i - 1) /\ (Len(t) - i) + 1 = Len(t) - (i - 1)
    BY <1>2, <2>2
  <2> QED BY <1>3, <2>2, <2>3
<1>5. m <= Len(t)
  BY <1>2, <1>4
<1> HIDE DEF m
<1>6. SubSeq(p, 1, m) = SubSeq(q, 1, m)
  BY <1>2, <1>3, <1>4, <1>5
<1> QED BY <1>3, <1>5, <1>6 DEF IsSuffix, IsPrefix, p, q, n

\* No table, no rows.
LEMMA InitTable == Init => TableInv
<1> SUFFICES ASSUME Init PROVE TableInv
  OBVIOUS
<1>1. /\ table = <<>> /\ saved = <<>> /\ rows = <<>> /\ bgRows = <<>> /\ numRows = 0
      /\ runs = 0 /\ saves = 0 /\ start.saved = 0 /\ owner = "down" /\ worker = "ended"
      /\ ~entering
  BY DEF Init
<1>2. ToSet(<<>>) = {} /\ Increasing(<<>>)
  BY DEF ToSet, Increasing
<1>3. EndsAlike(table, saved)
  BY <1>1, LoggerAssumption DEF EndsAlike, LoggerAssumption
<1>4. TableTypes
  <2>1. table \in Seq(Nat)
    BY <1>1
  <2> QED BY <1>1, <2>1 DEF TableTypes
<1>5. InOrder
  BY <1>1, <1>2 DEF InOrder, Below
<1>6. Agrees
  BY <1>1, <1>2, <1>3 DEF Agrees
<1> QED BY <1>1, <1>4, <1>5, <1>6 DEF TableInv, Between, Kept, NotTooFew, NotTooMany

\* What a table keeps of itself when Newest cuts it.
LEMMA CutTable ==
    ASSUME TableInv, IInv, intact, NEW n \in Nat
    PROVE  LET t == Newest(table, n) IN
           /\ t \in Seq(Nat) /\ Len(t) = IF n < Len(table) THEN n ELSE Len(table)
           /\ Increasing(t) /\ ToSet(t) \subseteq ToSet(saved) /\ EndsAlike(t, saved)
<1>1. table \in Seq(Nat) /\ saved \in Seq(Nat)
  BY DEF TableInv, TableTypes, IInv, Types
<1>2. Increasing(table) /\ ToSet(table) \subseteq ToSet(saved) /\ EndsAlike(table, saved)
  BY DEF TableInv, Kept, Agrees
<1> QED BY <1>1, <1>2, NewestFields, NewestOrder

LEMMA EmptyTable ==
    /\ <<>> \in Seq(Nat) /\ Len(<<>>) = 0 /\ Increasing(<<>>) /\ ToSet(<<>>) = {}
    /\ \A s \in Seq(Nat) : EndsAlike(<<>>, s)
<1>1. RowsLimit \in Nat
  BY LoggerAssumption DEF LoggerAssumption
<1>2. ToSet(<<>>) = {} /\ Increasing(<<>>)
  BY DEF ToSet, Increasing
<1>3. Len(<<>>) = 0
  OBVIOUS
<1>4. \A s : EndsAlike(<<>>, s)
  BY <1>1, <1>3 DEF EndsAlike
<1> QED BY <1>2, <1>3, <1>4

\* What every step does to the rows that are waiting, and to the types.
LEMMA OrderStep ==
    ASSUME TableInv, IInv, [Next]_vars
    PROVE  TableTypes' /\ Between' /\ InOrder'
<1> USE DEF TableInv
<1>0. /\ rows \in Seq(Nat) /\ bgRows \in Seq(Nat) /\ saved \in Seq(Nat) /\ written \in Nat
      /\ table \in Seq(Nat) /\ numRows \in Int /\ runs \in Nat /\ saves \in Nat
      /\ RowsLimit \in Nat \ {0} /\ Len(saved) \in Nat
  BY LoggerAssumption DEF IInv, Types, TableTypes, LoggerAssumption
<1>1. ASSUME NEW cleanup \in BOOLEAN, Open(cleanup) PROVE TableTypes' /\ Between' /\ InOrder'
  <2> DEFINE count == IF runs = 0 \/ cleanup THEN 0 ELSE CountAtOpen
             kept == IF cleanup THEN <<>> ELSE table
  <2>1. /\ rows' = <<>> /\ bgRows' = <<>> /\ worker' = "scan" /\ owner' = "open"
        /\ runs' = runs + 1 /\ saves' = 0 /\ UNCHANGED <<entering, written, saved>>
        /\ start'.saved = Len(saved)
    BY <1>1 DEF Open
  <2>2. count \in Int /\ count <= 1
    BY <1>0 DEF CountAtOpen
  <2>3. table' = kept /\ numRows' = count
    BY <1>0, <1>1, <2>2 DEF Open
  <2>4. TableTypes'
    BY <1>0, <2>1, <2>2, <2>3, EmptyTable DEF TableTypes
  <2>5. Between'
    BY <1>0, <2>1 DEF Between
  <2>6. ToSet(rows') = {} /\ ToSet(bgRows') = {} /\ Increasing(rows') /\ Increasing(bgRows')
    BY <2>1, EmptyTable
  <2> QED BY <2>1, <2>4, <2>5, <2>6 DEF InOrder, Below
<1>2. CASE WriteLeave
  <2>1. /\ rows' = Append(rows, written + 1) /\ written' = written + 1
        /\ UNCHANGED <<bgRows, worker, owner, table, numRows, runs, saved, saves, start>>
        /\ entering' = FALSE
    BY <1>2 DEF WriteLeave, tableVars
  <2>2. ToSet(rows') = ToSet(rows) \cup {written + 1}
    BY <1>0, <2>1, Held
  <2>3. \A a \in ToSet(saved) \cup ToSet(bgRows) \cup ToSet(rows) : a \in Nat /\ a <= written
    BY <1>0 DEF InOrder, ToSet
  <2>4. Increasing(rows')
    <3>1. /\ DOMAIN rows' = 1 .. Len(rows) + 1 /\ rows'[Len(rows) + 1] = written + 1
          /\ \A i \in 1 .. Len(rows) : rows'[i] = rows[i] /\ rows[i] \in ToSet(rows)
      BY <1>0, <2>1 DEF ToSet
    <3>2. Len(rows) \in Nat /\ DOMAIN rows = 1 .. Len(rows) /\ Increasing(rows)
      BY <1>0 DEF InOrder
    <3> SUFFICES ASSUME NEW i \in 1 .. Len(rows) + 1, NEW j \in 1 .. Len(rows) + 1, i < j
                 PROVE  rows'[i] < rows'[j]
      BY <3>1 DEF Increasing
    <3>3. i \in 1 .. Len(rows)
      BY <3>2
    <3>4. CASE j = Len(rows) + 1
      <4>1. rows[i] <= written /\ rows[i] \in Nat
        BY <2>3, <3>1, <3>3
      <4> QED BY <1>0, <3>1, <3>3, <3>4, <4>1
    <3>5. CASE j # Len(rows) + 1
      <4>1. j \in 1 .. Len(rows)
        BY <3>2, <3>5
      <4> QED BY <3>1, <3>2, <3>3, <4>1 DEF Increasing
    <3> QED BY <3>4, <3>5
  <2>5. /\ Below(saved, rows') /\ Below(bgRows, rows')
        /\ \A a \in ToSet(saved) \cup ToSet(bgRows) \cup ToSet(rows') : a <= written + 1
    BY <1>0, <2>2, <2>3 DEF InOrder, Below
  <2>6. InOrder'
    BY <2>1, <2>4, <2>5 DEF InOrder, Below, Increasing
  <2> QED BY <2>1, <2>6, <1>0 DEF TableTypes, Between
<1>3. CASE Scan
  <2>1. /\ worker = "scan" /\ worker' \in {"empty", "trim"}
        /\ (worker' = "trim" /\ rows' = bgRows /\ bgRows' = rows) \/ (worker' = "empty" /\ UNCHANGED <<rows, bgRows>>)
        /\ UNCHANGED <<entering, owner, table, numRows, runs, written, saved, saves, start>>
    BY <1>3 DEF Scan, tableVars, history
  <2>2. owner # "down" /\ bgRows = <<>>
    BY <2>1 DEF Between, IInv, BgRowsInSave, Living
  <2>3. ToSet(bgRows) = {}
    BY <2>2, EmptyTable
  <2>4. InOrder'
    BY <2>1, <2>3 DEF InOrder, Below, Increasing
  <2> QED BY <2>1, <2>2, <2>4 DEF TableTypes, Between
<1>4. CASE Trim
  <2>1. /\ worker = "trim" /\ worker' \in {"insert", "failed"}
        /\ UNCHANGED <<rows, bgRows, entering, owner, runs, written, saved, saves, start>>
        /\ numRows' \in Int
    BY <1>0, <1>4 DEF Trim, Fails, history
  <2>2. owner # "down"
    BY <2>1 DEF Between
  <2>3. table' \in Seq(Nat)
    <3>1. \/ table' = <<>> \/ table' = table
          \/ Len(bgRows) < RowsLimit /\ table' = Newest(table, RowsLimit - Len(bgRows))
      BY <1>4 DEF Trim, Keep
    <3>2. CASE Len(bgRows) < RowsLimit /\ table' = Newest(table, RowsLimit - Len(bgRows))
      <4> DEFINE k == RowsLimit - Len(bgRows)
      <4>1. k \in Nat
        BY <1>0, <3>2
      <4> HIDE DEF k
      <4>2. Newest(table, k) \in Seq(Nat)
        BY <1>0, <4>1, NewestFields
      <4> QED BY <3>2, <4>2 DEF k
    <3> QED BY <1>0, <3>1, <3>2, EmptyTable
  <2>4. InOrder'
    BY <2>1 DEF InOrder, Below, Increasing
  <2> QED BY <2>1, <2>2, <2>3, <2>4 DEF TableTypes, Between
<1>5. CASE Insert
  <2> DEFINE new == Newest(bgRows, RowsLimit)
  <2>1. /\ worker = "insert" /\ worker' = "scan" /\ table' = table \o new
        /\ saved' = saved \o bgRows /\ saves' = saves + 1 /\ bgRows' = <<>>
        /\ UNCHANGED <<rows, entering, owner, numRows, runs, written, start>>
    BY <1>5 DEF Insert
  <2>2. owner # "down"
    BY <2>1 DEF Between
  <2>3. new \in Seq(Nat)
    BY <1>0, NewestFields
  <2> HIDE DEF new
  <2>4. table' \in Seq(Nat)
    BY <1>0, <2>1, <2>3, Joined
  <2>5. ToSet(saved') = ToSet(saved) \cup ToSet(bgRows) /\ ToSet(bgRows') = {} /\ Increasing(bgRows')
    BY <1>0, <2>1, Held, EmptyTable
  <2>6. Increasing(saved')
    <3>1. Below(saved, bgRows) /\ Increasing(saved) /\ Increasing(bgRows)
      BY DEF InOrder
    <3> QED BY <1>0, <2>1, <3>1, Follows
  <2>7. Below(saved', rows') /\ Below(saved', bgRows') /\ Below(bgRows', rows')
    BY <2>1, <2>5 DEF InOrder, Below
  <2>8. \A a \in ToSet(saved') \cup ToSet(bgRows') \cup ToSet(rows') : a <= written'
    BY <2>1, <2>5 DEF InOrder
  <2>9. Below(saved, rows)' /\ Below(saved, bgRows)' /\ Below(bgRows, rows)'
    BY <2>7 DEF Below
  <2>10. Increasing(rows')
    BY <2>1 DEF InOrder
  <2>11. InOrder'
    BY <2>5, <2>6, <2>8, <2>9, <2>10 DEF InOrder, Increasing
  <2> QED BY <1>0, <2>1, <2>2, <2>4, <2>11 DEF TableTypes, Between
<1>6. CASE Crash \/ CrashInOpen \/ WriteEnter \/ LookAtFlag \/ SaveFails \/ CloseCalled
           \/ CloseFlags \/ CloseReturns \/ UNCHANGED vars
  <2>1. /\ UNCHANGED <<rows, bgRows, table, numRows, written, saved, saves, start>>
        /\ runs' \in Nat
    BY <1>0, <1>6 DEF Crash, CrashInOpen, WriteEnter, LookAtFlag, SaveFails, CloseCalled, CloseFlags,
                CloseReturns, vars, queueVars, tableVars, history
  <2>2. /\ owner' = "down" => worker' = "ended"
        /\ owner' \in {"down", "gone"} => ~entering'
    BY <1>6 DEF Crash, CrashInOpen, WriteEnter, LookAtFlag, SaveFails, Fails, CloseCalled, CloseFlags,
                CloseReturns, vars, queueVars, Between
  <2>3. runs' = 0 => owner' = "down" /\ table' = <<>>
    BY <1>0, <1>6, <2>1 DEF Crash, CrashInOpen, WriteEnter, LookAtFlag, SaveFails, CloseCalled, CloseFlags,
                CloseReturns, vars, queueVars, history, Between
  <2>4. TableTypes' /\ InOrder'
    BY <2>1 DEF TableTypes, InOrder, Below, Increasing
  <2> QED BY <2>2, <2>3, <2>4 DEF Between
<1> QED BY <1>1, <1>2, <1>3, <1>4, <1>5, <1>6 DEF Next

\* A run opens the table: it has saved nothing yet.
LEMMA OpenTable ==
    ASSUME TableInv, IInv, intact, NEW cleanup \in BOOLEAN, Open(cleanup)
    PROVE  Kept'
<1> USE DEF TableInv, Kept
<1>0. RowsLimit \in Nat \ {0}
  BY LoggerAssumption DEF LoggerAssumption
<1> DEFINE count == IF runs = 0 \/ cleanup THEN 0 ELSE CountAtOpen
           kept == IF cleanup THEN <<>> ELSE table
<1>1. /\ rows' = <<>> /\ bgRows' = <<>> /\ worker' = "scan" /\ owner' = "open"
      /\ runs' = runs + 1 /\ saves' = 0 /\ UNCHANGED <<entering, written, saved>>
      /\ start'.saved = Len(saved)
  BY DEF Open
<1>2. /\ table \in Seq(Nat) /\ saved \in Seq(Nat) /\ numRows \in Int /\ runs \in Nat
      /\ Len(saved) \in Nat /\ Len(table) \in Nat
  BY DEF TableTypes, IInv, Types
<1>3. count \in Int /\ count <= 1
  BY <1>2 DEF CountAtOpen
<1>4. table' = kept /\ numRows' = count
  BY <1>0, <1>3 DEF Open
<1>5. /\ table' \in Seq(Nat) /\ Increasing(table') /\ ToSet(table') \subseteq ToSet(saved)
      /\ EndsAlike(table', saved)
  BY <1>2, <1>4, EmptyTable DEF Agrees
<1>6. runs' = 1 => table' = <<>> /\ numRows' = 0
  BY <1>1, <1>2, <1>4 DEF Between
<1>9. Agrees'
  BY <1>1, <1>5 DEF Agrees, EndsAlike, Increasing
<1>10. Len(table') \in Nat
  BY <1>5
<1>11. NotTooFew'
  BY <1>1, <1>2, <1>10 DEF NotTooFew
<1>12. NotTooMany'
  <2>1. runs' = 1 => Len(table') <= RowsLimit
    BY <1>0, <1>6, EmptyTable
  <2> QED BY <1>1, <1>6, <2>1 DEF NotTooMany
<1> QED BY <1>9, <1>11, <1>12

\* Trim leaves room for the rows, unless it trusts a count that is wrong.
LEMMA TrimTable ==
    ASSUME TableInv, IInv, intact, Trim
    PROVE  Kept'
<1> USE DEF TableInv, Kept
<1> DEFINE n == Len(bgRows)
<1>0. RowsLimit \in Nat \ {0}
  BY LoggerAssumption DEF LoggerAssumption
<1>1. /\ worker = "trim" /\ worker' \in {"insert", "failed"}
      /\ UNCHANGED <<rows, bgRows, entering, owner, runs, written, saved, saves, start>>
      /\ numRows' = IF worker' = "insert" THEN RowsLimit ELSE numRows
  BY DEF Trim, Fails, history
<1>2. /\ table \in Seq(Nat) /\ saved \in Seq(Nat) /\ bgRows \in Seq(Nat) /\ numRows \in Int
      /\ Len(table) \in Nat /\ n \in Nat \ {0} /\ Len(saved) - start.saved \in Int
  <2>1. bgRows # <<>> /\ bgRows \in Seq(Nat)
    BY <1>1 DEF NotTooMany, IInv, Types
  <2>2. n \in Nat \ {0}
    BY <2>1
  <2> QED BY <2>1, <2>2 DEF TableTypes, IInv, Types
<1>3. owner # "down"
  BY <1>1 DEF Between
<1>4. \/ table' = <<>> /\ n >= RowsLimit
      \/ table' = table /\ worker' = "failed"
      \/ table' = table /\ n >= RowsLimit /\ numRows = 0
      \/ table' = table /\ n < RowsLimit /\ numRows <= RowsLimit - n
      \/ table' = Newest(table, RowsLimit - n) /\ n < RowsLimit
  BY <1>0, <1>2 DEF Trim, Fails, Keep
<1>5. /\ table' \in Seq(Nat) /\ Increasing(table') /\ ToSet(table') \subseteq ToSet(saved)
      /\ EndsAlike(table', saved) /\ Len(table') \in Nat /\ Len(table') <= Len(table)
  <2>1. CASE table' = <<>>
    BY <1>2, <2>1, EmptyTable
  <2>2. CASE table' = table
    BY <1>2, <2>2 DEF Agrees
  <2>3. CASE table' = Newest(table, RowsLimit - n) /\ n < RowsLimit
    <3>1. RowsLimit - n \in Nat
      BY <1>0, <1>2, <2>3
    <3> DEFINE k == RowsLimit - n
               t == Newest(table, k)
    <3>2. table' = t
      BY <2>3
    <3> HIDE DEF k
    <3>3. /\ t \in Seq(Nat) /\ Len(t) = IF k < Len(table) THEN k ELSE Len(table)
          /\ Increasing(t) /\ ToSet(t) \subseteq ToSet(saved) /\ EndsAlike(t, saved)
      BY <3>1, CutTable DEF k
    <3>4. k \in Nat
      BY <3>1 DEF k
    <3> HIDE DEF t
    <3> QED BY <1>2, <3>2, <3>3, <3>4
  <2> QED BY <1>4, <2>1, <2>2, <2>3
<1>8. Agrees'
  BY <1>1, <1>5 DEF Agrees, EndsAlike, Increasing
<1>9. ASSUME worker' = "insert"
      PROVE  \/ Len(table') + n >= RowsLimit
             \/ Len(table') >= Len(saved) - start.saved
  <2>1. Len(table) >= RowsLimit \/ Len(table) >= Len(saved) - start.saved
    BY <1>1, <1>3 DEF NotTooFew
  <2>2. CASE n >= RowsLimit
    BY <1>0, <1>2, <1>5, <2>2
  <2>3. CASE table' = table
    BY <1>0, <1>2, <2>1, <2>3
  <2>4. CASE table' = Newest(table, RowsLimit - n) /\ n < RowsLimit
    <3>1. RowsLimit - n \in Nat
      BY <1>0, <1>2, <2>4
    <3>2. Len(table') = IF RowsLimit - n < Len(table) THEN RowsLimit - n ELSE Len(table)
      <4> HIDE DEF n
      <4> QED BY <2>4, <3>1, CutTable
    <3> QED BY <1>0, <1>2, <2>1, <3>1, <3>2
  <2> QED BY <1>4, <1>9, <2>2, <2>3, <2>4
<1>10. NotTooFew'
  BY <1>1, <1>9 DEF NotTooFew
<1>11. ASSUME worker' = "insert", runs = 1 \/ saves > 0
       PROVE  table' = <<>> \/ Len(table') + n <= RowsLimit
  <2>1. numRows = RowsLimit \/ (numRows = 0 /\ table = <<>>)
    BY <1>11 DEF NotTooMany
  <2>2. CASE table' = Newest(table, RowsLimit - n) /\ n < RowsLimit
    <3>1. RowsLimit - n \in Nat
      BY <1>0, <1>2, <2>2
    <3>2. Len(table') = IF RowsLimit - n < Len(table) THEN RowsLimit - n ELSE Len(table)
      <4> HIDE DEF n
      <4> QED BY <2>2, <3>1, CutTable
    <3> QED BY <1>0, <1>2, <3>1, <3>2
  <2> QED BY <1>0, <1>2, <1>4, <1>11, <2>1, <2>2
<1>12. runs = 1 \/ saves > 1 => Len(table') <= RowsLimit
  BY <1>0, <1>2, <1>5 DEF NotTooMany
<1>13. bgRows # <<>>
  BY <1>1 DEF NotTooMany
<1>14. runs = 1 => numRows' = RowsLimit \/ (numRows' = 0 /\ table' = <<>>)
  <2>1. CASE worker' = "insert"
    BY <1>1, <2>1
  <2>2. CASE worker' = "failed"
    <3>1. numRows' = numRows
      BY <1>1, <2>2
    <3>2. table = <<>> => table' = <<>>
      BY <1>2, <1>5
    <3> QED BY <3>1, <3>2 DEF NotTooMany
  <2> QED BY <1>1, <2>1, <2>2
<1>15. NotTooMany'
  BY <1>1, <1>11, <1>12, <1>13, <1>14 DEF NotTooMany
<1> QED BY <1>8, <1>10, <1>15

\* Insert appends the newest rows of the batch to the table, and all of them to
\* what was saved.
LEMMA InsertTable ==
    ASSUME TableInv, IInv, intact, Insert
    PROVE  Kept'
<1> USE DEF TableInv, Kept
<1> DEFINE n == Len(bgRows)
           new == Newest(bgRows, RowsLimit)
<1>0. RowsLimit \in Nat \ {0}
  BY LoggerAssumption DEF LoggerAssumption
<1>1. /\ worker = "insert" /\ worker' = "scan" /\ table' = table \o new
      /\ saved' = saved \o bgRows /\ saves' = saves + 1 /\ bgRows' = <<>>
      /\ UNCHANGED <<rows, entering, owner, numRows, runs, written, start>>
  BY DEF Insert
<1>2. /\ table \in Seq(Nat) /\ saved \in Seq(Nat) /\ bgRows \in Seq(Nat) /\ numRows \in Int
      /\ Len(table) \in Nat /\ n \in Nat /\ Len(saved) \in Nat /\ start.saved \in Nat
      /\ rows \in Seq(Nat) /\ saves \in Nat /\ written \in Nat
  BY DEF TableTypes, IInv, Types
<1>3. owner # "down"
  BY <1>1 DEF Between
<1>4. /\ new \in Seq(Nat) /\ Len(new) = (IF RowsLimit < n THEN RowsLimit ELSE n)
      /\ ToSet(new) \subseteq ToSet(bgRows) /\ Increasing(new)
  BY <1>0, <1>2, NewestFields, NewestOrder DEF InOrder
<1>5. EndsAlike(table', saved')
  BY <1>1, <1>2, InsertEnds DEF Agrees
<1> HIDE DEF new
<1>6. /\ table' \in Seq(Nat) /\ Len(table') = Len(table) + Len(new)
      /\ ToSet(table') = ToSet(table) \cup ToSet(new)
  BY <1>1, <1>2, <1>4, Joined, Held
<1>7. /\ saved' \in Seq(Nat) /\ Len(saved') = Len(saved) + n
      /\ ToSet(saved') = ToSet(saved) \cup ToSet(bgRows)
  BY <1>1, <1>2, Joined, Held
<1>8. Increasing(table')
  <2>1. Below(table, new) /\ Increasing(table)
    BY <1>4 DEF InOrder, Agrees, Below
  <2> QED BY <1>1, <1>2, <1>4, <2>1, Follows
<1>11. Agrees'
  <2>1. ToSet(table') \subseteq ToSet(saved')
    BY <1>4, <1>6, <1>7 DEF Agrees
  <2>2. EndsAlike(table, saved)'
    BY <1>5 DEF EndsAlike
  <2> QED BY <1>8, <2>1, <2>2 DEF Agrees, Increasing
<1>12. NotTooFew'
  <2>1. Len(table) + n >= RowsLimit \/ Len(table) >= Len(saved) - start.saved
    BY <1>1, <1>3 DEF NotTooFew
  <2>2. Len(table') >= RowsLimit \/ Len(table') >= Len(saved') - start.saved
    BY <1>0, <1>2, <1>4, <1>6, <1>7, <2>1
  <2> QED BY <1>1, <2>2 DEF NotTooFew
<1>13. NotTooMany'
  <2>1. numRows = RowsLimit
    BY <1>1 DEF NotTooMany
  <2>2. runs = 1 \/ saves > 0 => Len(table') <= RowsLimit
    <3>1. runs = 1 \/ saves > 0 => table = <<>> \/ Len(table) + n <= RowsLimit
      BY <1>1 DEF NotTooMany
    <3> QED BY <1>0, <1>2, <1>4, <1>6, <3>1, EmptyTable
  <2>3. saves' > 1 => saves > 0
    BY <1>1, <1>2
  <2> QED BY <1>1, <2>1, <2>2, <2>3 DEF NotTooMany
<1> QED BY <1>11, <1>12, <1>13

\* Every step keeps the table, but one that spoils the file.
LEMMA NextTable == TableInv /\ IInv /\ [Next]_vars => TableInv'
<1> SUFFICES ASSUME TableInv, IInv, [Next]_vars PROVE TableInv'
  OBVIOUS
<1>0. TableTypes' /\ Between' /\ InOrder'
  BY OrderStep
<1>1. SUFFICES ASSUME intact' PROVE Kept'
  BY <1>0 DEF TableInv
<1>2. ~CrashInOpen /\ intact
  BY <1>1 DEF Next, vars, history, Open, Crash, CrashInOpen, Spoils, WriteEnter, WriteLeave,
              Scan, LookAtFlag, Trim, Insert, SaveFails, CloseCalled, CloseFlags, CloseReturns
<1> USE <1>2 DEF TableInv, Kept
<1>3. ASSUME NEW cleanup \in BOOLEAN, Open(cleanup) PROVE Kept'
  BY <1>3, OpenTable
<1>4. CASE Trim
  BY <1>4, TrimTable
<1>5. CASE Insert
  BY <1>5, InsertTable
<1>6. CASE Scan
  <2>1. /\ worker = "scan" /\ worker' \in {"empty", "trim"} /\ (worker' = "trim" => rows # <<>> /\ bgRows' = rows)
        /\ UNCHANGED <<owner, table, numRows, runs, saved, saves, start>>
    BY <1>6 DEF Scan, tableVars, history
  <2>2. Agrees'
    BY <2>1 DEF Agrees, EndsAlike, Increasing
  <2> QED BY <2>1, <2>2 DEF NotTooFew, NotTooMany
<1>7. CASE WriteLeave \/ Crash \/ WriteEnter \/ LookAtFlag \/ SaveFails \/ CloseCalled \/ CloseFlags
           \/ CloseReturns \/ UNCHANGED vars
  <2>1. UNCHANGED <<bgRows, table, numRows, runs, saved, saves, start>>
    BY <1>7 DEF Crash, WriteEnter, WriteLeave, LookAtFlag, SaveFails, CloseCalled, CloseFlags, CloseReturns,
                vars, queueVars, tableVars, history
  <2>2. /\ worker' # worker => worker' \in {"scan", "ended", "failed"}
        /\ worker' = "scan" /\ worker # "scan" => worker = "empty"
        /\ worker' = "ended" /\ worker # "ended" => worker = "empty" \/ owner' = "down"
        /\ owner' # owner => owner # "down"
    BY <1>7 DEF Crash, WriteEnter, WriteLeave, LookAtFlag, SaveFails, Fails, CloseCalled, CloseFlags,
                CloseReturns, vars, queueVars, Between
  <2>3. Agrees'
    BY <2>1 DEF Agrees, EndsAlike, Increasing
  <2>4. NotTooFew'
    BY <2>1, <2>2 DEF NotTooFew
  <2>5. NotTooMany'
    BY <2>1, <2>2 DEF NotTooMany
  <2> QED BY <2>3, <2>4, <2>5
<1> QED BY <1>2, <1>3, <1>4, <1>5, <1>6, <1>7 DEF Next

\* Over runs, crashes, trims and failures, with batches of any size: rows are saved
\* in their order, and as long as no run ended in the middle of a write to the file
\* the newest of the table are the newest that were saved, nothing of a run is
\* dropped before the limit asks for it, and from the second Save of a run on the
\* limit is kept.
THEOREM TableKeepsNewest == Spec => []NewestKept
<1>1. TableInv /\ IInv => NewestKept
  <2> SUFFICES ASSUME TableInv, IInv PROVE NewestKept
    OBVIOUS
  <2>1. table \in Seq(Nat) /\ saved \in Seq(Nat)
    BY DEF TableInv, TableTypes, IInv, Types
  <2>2. ASSUME intact PROVE TableKept
    <3>1. IsSuffix(Newest(table, RowsLimit), saved)
      BY <2>1, <2>2, EndsSuffix DEF TableInv, Kept, Agrees
    <3> QED BY <2>2, <3>1 DEF TableInv, Kept, Agrees, NotTooFew, NotTooMany, TableKept
  <2> QED BY <2>2 DEF TableInv, InOrder, NewestKept
<1>2. Init => TableInv /\ IInv
  BY InitTable, InitIInv
<1>3. TableInv /\ IInv /\ [Next]_vars => (TableInv /\ IInv)'
  BY NextTable, NextIInv
<1> QED BY <1>1, <1>2, <1>3, PTL DEF Spec
=============================================================================
