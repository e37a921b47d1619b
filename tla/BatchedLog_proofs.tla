-------------------------- MODULE BatchedLog_proofs -------------------------
(***************************************************************************)
(* Theorems about BatchedLog, for any callers, switches, operations and    *)
(* bounds: its type invariant, and at-least-once delivery of accepted      *)
(* records, which holds when the storage object serves one switch, and     *)
(* with any number of switches until the first failed append; the order    *)
(* of the records; and, for one switch, what a flush leaves behind.        *)
(***************************************************************************)
EXTENDS BatchedLog, SequenceTheorems, TLAPS

(***************************************************************************)
(* Sequences of records: what concatenation, extension and prefixes hold.  *)
(***************************************************************************)
LEMMA ConcatHolds ==
    ASSUME NEW S, NEW p \in Seq(S), NEW q \in Seq(S)
    PROVE  /\ p \o q \in Seq(S)
           /\ Range(p \o q) = Range(p) \cup Range(q)
<1>1. p \o q \in Seq(S) /\ Len(p \o q) = Len(p) + Len(q)
  OBVIOUS
<1>2. Range(p \o q) \subseteq Range(p) \cup Range(q)
  <2> SUFFICES ASSUME NEW i \in 1 .. Len(p) + Len(q)
               PROVE  (p \o q)[i] \in Range(p) \cup Range(q)
    BY <1>1 DEF Range
  <2>1. CASE i <= Len(p)
    BY <2>1 DEF Range
  <2>2. CASE i > Len(p)
    <3>1. i - Len(p) \in 1 .. Len(q) /\ (p \o q)[i] = q[i - Len(p)]
      BY <2>2
    <3> QED BY <3>1 DEF Range
  <2> QED BY <2>1, <2>2
<1>3. Range(p) \subseteq Range(p \o q)
  <2> SUFFICES ASSUME NEW i \in 1 .. Len(p) PROVE p[i] \in Range(p \o q)
    BY DEF Range
  <2>1. i \in 1 .. Len(p \o q) /\ (p \o q)[i] = p[i]
    BY <1>1
  <2> QED BY <1>1, <2>1 DEF Range
<1>4. Range(q) \subseteq Range(p \o q)
  <2> SUFFICES ASSUME NEW i \in 1 .. Len(q) PROVE q[i] \in Range(p \o q)
    BY DEF Range
  <2>1. i + Len(p) \in 1 .. Len(p \o q) /\ (p \o q)[i + Len(p)] = q[i]
    BY <1>1
  <2> QED BY <1>1, <2>1 DEF Range
<1> QED BY <1>1, <1>2, <1>3, <1>4

LEMMA AppendHolds ==
    ASSUME NEW S, NEW p \in Seq(S), NEW e \in S
    PROVE  /\ Append(p, e) \in Seq(S)
           /\ Range(Append(p, e)) = Range(p) \cup {e}
<1>1. Append(p, e) \in Seq(S) /\ Len(Append(p, e)) = Len(p) + 1
  OBVIOUS
<1>2. Range(Append(p, e)) \subseteq Range(p) \cup {e}
  BY <1>1 DEF Range
<1>3. Range(p) \subseteq Range(Append(p, e))
  BY <1>1 DEF Range
<1>4. e \in Range(Append(p, e))
  <2>1. Append(p, e)[Len(p) + 1] = e /\ Len(p) + 1 \in 1 .. Len(Append(p, e))
    BY <1>1
  <2> QED BY <1>1, <2>1 DEF Range
<1> QED BY <1>1, <1>2, <1>3, <1>4

LEMMA EmptyHolds == Range(<<>>) = {}
  BY DEF Range
-----------------------------------------------------------------------------
(***************************************************************************)
(* Type correctness.                                                       *)
(***************************************************************************)
LEMMA NothingType == Nothing \in [Switch -> Seq(Record)]
  BY DEF Nothing

LEMMA TypeInit == Init => TypeOK
<1> SUFFICES ASSUME Init PROVE TypeOK  OBVIOUS
<1>1. /\ queue \in [Switch -> Seq(Record)]
      /\ disk \in [Switch -> Seq(Record)]
      /\ snapshot \in [Thread -> [Switch -> Seq(Record)]]
  BY NothingType DEF Init
<1>2. pc \in [Thread -> Label]  BY DEF Init, Label
<1>3. /\ next \in 1 .. MaxRecords + 1
      /\ faults \in 0 .. MaxFaults
  BY BatchedLogAssumption DEF Init, BatchedLogAssumption
<1>4. /\ after \in [Thread -> {"idle", "read", "loop", "stopped"}]
      /\ accepted \in [Switch -> SUBSET Record]
      /\ due \in [Thread -> SUBSET Record]
      /\ closed \in BOOLEAN /\ overlapped \in BOOLEAN
  BY DEF Init
<1>5. of \in [Thread -> Switch]  BY DEF Init
<1> QED  BY <1>1, <1>2, <1>3, <1>4, <1>5 DEF TypeOK

\* Every operation keeps the types.
LEMMA TypeStep == TypeOK /\ [Next]_vars => TypeOK'
<1> SUFFICES ASSUME TypeOK, [Next]_vars PROVE TypeOK'  OBVIOUS
<1> USE DEF TypeOK, Label, call
<1>f. Flusher \in Thread /\ Caller \subseteq Thread  BY DEF Thread
<1>n. Nothing \in [Switch -> Seq(Record)]  BY NothingType
<1>1. CASE Wake
  BY <1>1, <1>f DEF Wake, Goto
<1>2. ASSUME NEW t \in Caller, AppendCheck(t) PROVE TypeOK'
  BY <1>2, <1>f DEF AppendCheck, Enter, Goto
<1>3. ASSUME NEW t \in Caller, Enqueue(t) PROVE TypeOK'
  <2>1. next \in Record /\ next + 1 \in 1 .. MaxRecords + 1
    BY <1>3, BatchedLogAssumption DEF Enqueue, Record, BatchedLogAssumption
  <2>2. of[t] \in Switch  BY <1>f
  <2>3. queue' \in [Switch -> Seq(Record)]
    BY <1>3, <2>1, <2>2 DEF Enqueue
  <2> QED  BY <1>3, <1>f, <2>1, <2>2, <2>3 DEF Enqueue, Goto
<1>4. ASSUME NEW t \in Caller, Load(t) PROVE TypeOK'
  BY <1>4, <1>f DEF Load, Enter, Goto
<1>5. ASSUME NEW t \in Caller, Flush(t) PROVE TypeOK'
  BY <1>5, <1>f DEF Flush, Goto
<1>6. ASSUME NEW t \in Caller, Close(t) PROVE TypeOK'
  <2>1. UNION {accepted[s] : s \in Switch} \in SUBSET Record  OBVIOUS
  <2> QED  BY <1>6, <1>f, <2>1 DEF Close, Goto
<1>7. ASSUME NEW t \in Caller, Read(t) \/ Joined(t) \/ JoinTimesOut(t) PROVE TypeOK'
  BY <1>7, <1>f DEF Read, Joined, JoinTimesOut, Goto
<1>8. ASSUME NEW t \in Thread, Take(t) PROVE TypeOK'
  BY <1>8, <1>n DEF Take, Goto
<1>9. ASSUME NEW t \in Thread, NEW s \in Switch, Write(t, s) PROVE TypeOK'
  <2>1. snapshot[t][s] \in Seq(Record) /\ disk[s] \in Seq(Record)  OBVIOUS
  <2>2. disk' \in [Switch -> Seq(Record)]
    BY <1>9, <2>1, ConcatHolds DEF Write
  <2>3. snapshot' \in [Thread -> [Switch -> Seq(Record)]]
    BY <1>9 DEF Write
  <2> QED  BY <1>9, <2>2, <2>3 DEF Write, Goto
<1>10. ASSUME NEW t \in Thread, NEW s \in Switch, WriteFails(t, s) PROVE TypeOK'
  <2>1. snapshot[t][s] \in Seq(Record) /\ disk[s] \in Seq(Record)  OBVIOUS
  <2>2. PICK k \in 0 .. Len(snapshot[t][s]) :
            disk' = [disk EXCEPT ![s] = @ \o SubSeq(snapshot[t][s], 1, k)]
    BY <1>10 DEF WriteFails
  <2>3. SubSeq(snapshot[t][s], 1, k) \in Seq(Record)  BY <2>1
  <2>4. disk[s] \o SubSeq(snapshot[t][s], 1, k) \in Seq(Record)
    BY <2>1, <2>3, ConcatHolds
  <2>5. disk' \in [Switch -> Seq(Record)]  BY <2>2, <2>4
  <2>6. Kept(t, s) \in [Switch -> Seq(Record)]  BY <1>n, <2>1 DEF Kept
  <2>7. snapshot' \in [Thread -> [Switch -> Seq(Record)]]
    BY <1>10, <2>6 DEF WriteFails
  <2>8. faults' \in 0 .. MaxFaults
    BY <1>10, BatchedLogAssumption DEF WriteFails, BatchedLogAssumption
  <2> QED  BY <1>10, <2>5, <2>7, <2>8 DEF WriteFails, Goto
<1>11. ASSUME NEW t \in Thread, Requeue(t) PROVE TypeOK'
  <2>1. \A s \in Switch : snapshot[t][s] \o queue[s] \in Seq(Record)
    BY ConcatHolds
  <2>2. InFront(t) \in [Switch -> Seq(Record)]  BY <2>1 DEF InFront
  <2>3. Raised(t) \in {"idle", "loop", "stopped"}  BY DEF Raised
  <2> QED  BY <1>11, <1>n, <2>2, <2>3 DEF Requeue, PutBack, Goto
<1>12. CASE UNCHANGED vars
  BY <1>12 DEF vars
<1> QED
  BY <1>1, <1>2, <1>3, <1>4, <1>5, <1>6, <1>7, <1>8, <1>9, <1>10, <1>11, <1>12
     DEF Next, Call, Drain, Finish

\* Every variable keeps its type, for any callers, switches and bounds.
THEOREM TypeCorrect == Spec => []TypeOK
<1>1. Init => TypeOK  BY TypeInit
<1>2. TypeOK /\ [Next]_vars => TypeOK'  BY TypeStep
<1> QED  BY <1>1, <1>2, PTL DEF Spec
-----------------------------------------------------------------------------
(***************************************************************************)
(* At-least-once delivery.  A drain that fails keeps one switch's batch    *)
(* only, so the invariant speaks of the two cases in which that is all it  *)
(* held: the storage object serves one switch, or nothing has failed yet.  *)
(***************************************************************************)
OneSwitch == \A s, u \in Switch : s = u

\* Record r of switch s is still somewhere.
Somewhere(r, s) == r \in OnDisk(s) \/ r \in Queued(s) \/ \E t \in Thread : r \in Held(t, s)

\* Outside a drain a thread holds nothing; inside one it loses nothing.
Empty(t) == ~Draining(t) => snapshot[t] = Nothing
Delivery ==
    /\ \A t \in Thread : Empty(t)
    /\ OneSwitch \/ faults = 0 => \A s \in Switch : \A r \in accepted[s] : Somewhere(r, s)

LEMMA DeliveryInit == Init => Delivery
  BY DEF Init, Delivery, Empty

LEMMA DeliveryStep == TypeOK /\ Delivery /\ [Next]_vars => Delivery'
<1> SUFFICES ASSUME TypeOK, Delivery, [Next]_vars PROVE Delivery'  OBVIOUS
<1>f. Flusher \in Thread /\ Caller \subseteq Thread  BY DEF Thread
<1>z. \A s \in Switch : Range(Nothing[s]) = {}  BY EmptyHolds DEF Nothing
\* Steps that move no record and leave every thread that drains draining.
<1>q. ASSUME UNCHANGED <<queue, disk, snapshot, accepted, faults>>,
             \A t \in Thread : Draining(t)' <=> Draining(t)
      PROVE  Delivery'
  BY <1>q DEF Delivery, Empty, Somewhere, OnDisk, Queued, Held
<1>1. CASE Wake
  BY <1>1, <1>f, <1>q DEF Wake, Goto, Draining, TypeOK
<1>2. ASSUME NEW t \in Caller, Call(t) PROVE Delivery'
  <2>1. pc[t] = "idle" /\ \E l \in {"enqueue", "take", "join"} : Goto(t, l)
    BY <1>2 DEF Call, AppendCheck, Load, Flush, Close, Enter
  <2>2. \A u \in Thread : Draining(u)' <=> Draining(u)
    BY <2>1, <1>f DEF Goto, Draining, TypeOK
  <2>3. UNCHANGED <<queue, disk, snapshot, accepted, faults>>
    BY <1>2 DEF Call, AppendCheck, Load, Flush, Close
  <2> QED  BY <1>q, <2>2, <2>3
<1>3. ASSUME NEW t \in Caller, Read(t) \/ Joined(t) \/ JoinTimesOut(t) PROVE Delivery'
  <2>1. pc[t] \in {"read", "join"} /\ \E l \in {"idle", "closed"} : Goto(t, l)
    BY <1>3 DEF Read, Joined, JoinTimesOut
  <2>2. \A u \in Thread : Draining(u)' <=> Draining(u)
    BY <2>1, <1>f DEF Goto, Draining, TypeOK
  <2>3. UNCHANGED <<queue, disk, snapshot, accepted, faults>>
    BY <1>3 DEF Read, Joined, JoinTimesOut
  <2> QED  BY <1>q, <2>2, <2>3
<1>4. ASSUME NEW t \in Caller, Enqueue(t) PROVE Delivery'
  <2>1. next \in Record /\ of[t] \in Switch
    BY <1>4, <1>f, BatchedLogAssumption DEF Enqueue, Record, TypeOK, BatchedLogAssumption
  <2>2. \A u \in Thread : Empty(u)'
    BY <1>4, <1>f DEF Enqueue, Goto, Draining, Empty, Delivery, TypeOK
  <2>3. ASSUME NEW s \in Switch
        PROVE  Queued(s) \subseteq Queued(s)' /\ accepted'[s] \subseteq accepted[s] \cup Queued(s)'
    <3>1. CASE s = of[t]
      <4>1. Queued(s)' = Queued(s) \cup {next} /\ accepted'[s] = accepted[s] \cup {next}
        BY <1>4, <2>1, <3>1, AppendHolds DEF Enqueue, Queued, TypeOK
      <4> QED  BY <4>1
    <3>2. CASE s # of[t]
      BY <1>4, <3>2 DEF Enqueue, Queued, TypeOK
    <3> QED  BY <3>1, <3>2
  <2>4. UNCHANGED <<disk, snapshot, faults>>  BY <1>4 DEF Enqueue
  <2>5. ASSUME OneSwitch \/ faults = 0, NEW s \in Switch, NEW r \in accepted'[s]
        PROVE  Somewhere(r, s)'
    <3>1. r \in accepted[s] => Somewhere(r, s)  BY <2>5 DEF Delivery
    <3> QED  BY <2>3, <2>4, <3>1 DEF Somewhere, OnDisk, Held
  <2> QED  BY <2>2, <2>4, <2>5 DEF Delivery
<1>5. ASSUME NEW t \in Thread, Take(t) PROVE Delivery'
  <2>1. snapshot[t] = Nothing
    BY <1>5 DEF Take, Delivery, Empty, Draining
  <2>2. \A u \in Thread : Empty(u)'
    BY <1>5 DEF Take, Goto, Draining, Empty, Delivery, TypeOK
  <2>3. UNCHANGED <<disk, accepted, faults>> /\ snapshot' = [snapshot EXCEPT ![t] = queue]
    BY <1>5 DEF Take
  <2>4. ASSUME OneSwitch \/ faults = 0, NEW s \in Switch, NEW r \in accepted[s]
        PROVE  Somewhere(r, s)'
    <3>1. CASE r \in OnDisk(s)
      BY <2>3, <3>1 DEF Somewhere, OnDisk
    <3>2. CASE r \in Queued(s)
      <4>1. r \in Held(t, s)'  BY <2>3, <3>2 DEF Queued, Held, TypeOK
      <4> QED  BY <4>1 DEF Somewhere
    <3>3. ASSUME NEW u \in Thread, r \in Held(u, s) PROVE Somewhere(r, s)'
      <4>1. u # t  BY <2>1, <3>3, <1>z DEF Held
      <4>2. r \in Held(u, s)'  BY <2>3, <3>3, <4>1 DEF Held, TypeOK
      <4> QED  BY <4>2 DEF Somewhere
    <3> QED  BY <2>4, <3>1, <3>2, <3>3 DEF Delivery, Somewhere
  <2> QED  BY <2>2, <2>3, <2>4 DEF Delivery
<1>6. ASSUME NEW t \in Thread, NEW s \in Switch, Write(t, s) PROVE Delivery'
  <2>1. \A u \in Thread : Empty(u)'
    BY <1>6 DEF Write, Goto, Draining, Empty, Delivery, TypeOK
  <2>2. /\ UNCHANGED <<queue, accepted, faults>>
        /\ disk' = [disk EXCEPT ![s] = @ \o snapshot[t][s]]
        /\ snapshot' = [snapshot EXCEPT ![t][s] = <<>>]
    BY <1>6 DEF Write
  <2>3. OnDisk(s)' = OnDisk(s) \cup Held(t, s)
    BY <2>2, ConcatHolds DEF OnDisk, Held, TypeOK
  <2>4. \A v \in Switch : v # s => OnDisk(v)' = OnDisk(v)
    BY <2>2 DEF OnDisk, TypeOK
  <2>5. \A u \in Thread, v \in Switch : u # t \/ v # s => Held(u, v)' = Held(u, v)
    BY <2>2 DEF Held, TypeOK
  <2>6. ASSUME OneSwitch \/ faults = 0, NEW v \in Switch, NEW r \in accepted[v]
        PROVE  Somewhere(r, v)'
    <3>1. Somewhere(r, v)  BY <2>6 DEF Delivery
    <3> QED  BY <2>2, <2>3, <2>4, <2>5, <3>1 DEF Somewhere, Queued
  <2> QED  BY <2>1, <2>2, <2>6 DEF Delivery
<1>7. ASSUME NEW t \in Thread, NEW s \in Switch, WriteFails(t, s) PROVE Delivery'
  <2>1. \A u \in Thread : Empty(u)'
    BY <1>7 DEF WriteFails, Goto, Draining, Empty, Delivery, TypeOK
  <2>2. UNCHANGED <<queue, accepted>> /\ snapshot' = [snapshot EXCEPT ![t] = Kept(t, s)]
    BY <1>7 DEF WriteFails
  \* From now on something has failed.
  <2>3. faults' # 0
    BY <1>7, BatchedLogAssumption DEF WriteFails, TypeOK, BatchedLogAssumption
  <2>4. ASSUME OneSwitch, NEW v \in Switch, NEW r \in accepted[v]
        PROVE  Somewhere(r, v)'
    <3>1. Somewhere(r, v)  BY <2>4 DEF Delivery
    <3>2. v = s  BY <2>4 DEF OneSwitch
    <3>3. Kept(t, s)[s] = snapshot[t][s]  BY DEF Kept, Nothing
    <3>4. \A u \in Thread : Held(u, s)' = Held(u, s)
      BY <2>2, <3>3 DEF Held, TypeOK
    <3>5. OnDisk(s) \subseteq OnDisk(s)'
      <4>1. PICK k \in 0 .. Len(snapshot[t][s]) :
                disk' = [disk EXCEPT ![s] = @ \o SubSeq(snapshot[t][s], 1, k)]
        BY <1>7 DEF WriteFails
      <4>2. disk[s] \in Seq(Record) /\ snapshot[t][s] \in Seq(Record)  BY DEF TypeOK
      <4>3. SubSeq(snapshot[t][s], 1, k) \in Seq(Record)  BY <4>2
      <4>4. disk'[s] = disk[s] \o SubSeq(snapshot[t][s], 1, k)  BY <4>1 DEF TypeOK
      <4>5. Range(disk[s] \o SubSeq(snapshot[t][s], 1, k))
              = Range(disk[s]) \cup Range(SubSeq(snapshot[t][s], 1, k))
        <5> DEFINE a == disk[s]  b == SubSeq(snapshot[t][s], 1, k)
        <5>1. a \in Seq(Record) /\ b \in Seq(Record)  BY <4>2, <4>3
        <5> HIDE DEF a, b
        <5>2. Range(a \o b) = Range(a) \cup Range(b)  BY <5>1, ConcatHolds
        <5> QED  BY <5>2 DEF a, b
      <4>6. Range(disk[s]) \subseteq Range(disk'[s])  BY <4>4, <4>5, Zenon
      <4> QED  BY <4>6, Zenon DEF OnDisk
    <3> QED  BY <2>2, <3>1, <3>2, <3>4, <3>5 DEF Somewhere, Queued
  <2> QED  BY <2>1, <2>2, <2>3, <2>4 DEF Delivery, OneSwitch
<1>8. ASSUME NEW t \in Thread, Requeue(t) PROVE Delivery'
  <2>1. \A u \in Thread : Empty(u)'
    BY <1>8 DEF Requeue, PutBack, Goto, Draining, Empty, Delivery, TypeOK
  <2>2. /\ UNCHANGED <<disk, accepted, faults>>
        /\ queue' = InFront(t)
        /\ snapshot' = [snapshot EXCEPT ![t] = Nothing]
    BY <1>8 DEF Requeue, PutBack
  <2>3. \A v \in Switch : Queued(v)' = Held(t, v) \cup Queued(v)
    BY <2>2, ConcatHolds DEF InFront, Queued, Held, TypeOK
  <2>4. \A u \in Thread, v \in Switch : u # t => Held(u, v)' = Held(u, v)
    BY <2>2 DEF Held, TypeOK
  <2>5. ASSUME OneSwitch \/ faults = 0, NEW v \in Switch, NEW r \in accepted[v]
        PROVE  Somewhere(r, v)'
    <3>1. Somewhere(r, v)  BY <2>5 DEF Delivery
    <3> QED  BY <2>2, <2>3, <2>4, <3>1 DEF Somewhere, OnDisk
  <2> QED  BY <2>1, <2>2, <2>5 DEF Delivery
<1>9. CASE UNCHANGED vars
  BY <1>9 DEF vars, Delivery, Empty, Draining, Somewhere, OnDisk, Queued, Held
<1> QED
  BY <1>1, <1>2, <1>3, <1>4, <1>5, <1>6, <1>7, <1>8, <1>9 DEF Next, Drain, Finish

LEMMA DeliveryHolds == Spec => []Delivery
<1>1. Init => TypeOK /\ Delivery  BY TypeInit, DeliveryInit
<1>2. (TypeOK /\ Delivery) /\ [Next]_vars => (TypeOK /\ Delivery)'
  BY TypeStep, DeliveryStep
<1> QED  BY <1>1, <1>2, PTL DEF Spec

\* While the process lives, an accepted record is on disk, queued or in the
\* hands of a drain, whatever fails, in a storage object that serves one
\* switch (what LearnedSwitch(persist=True) builds for itself).
THEOREM AtLeastOnce ==
    ASSUME OneSwitch
    PROVE  Spec => []NothingLost
<1>1. OneSwitch /\ Delivery => NothingLost
  BY DEF Delivery, NothingLost, Somewhere
<1>2. OneSwitch /\ []Delivery => []NothingLost  BY <1>1, PTL
<1> QED  BY DeliveryHolds, <1>2

\* A storage object that serves any number of switches loses nothing before
\* the first append to disk fails.
THEOREM NothingLostBeforeFailure == Spec => [](faults = 0 => NothingLost)
<1>1. Delivery => (faults = 0 => NothingLost)
  BY DEF Delivery, NothingLost, Somewhere
<1> QED  BY DeliveryHolds, <1>1, PTL
-----------------------------------------------------------------------------
(***************************************************************************)
(* Order.  A drain takes the whole queue, so while no two drains overlap   *)
(* there is one line per switch: the disk, then what the drain holds, then *)
(* the queue.  What is still to be written is in order, and a record of it *)
(* is on disk already, left there by a failed append, or newer than        *)
(* anything on disk.  This holds for any number of switches and failures.  *)
(***************************************************************************)
Increasing(q) == \A i, j \in DOMAIN q : i < j => q[i] < q[j]

\* New records come later: r is in p, or newer than all of it.
Later(r, p) == r \in Range(p) \/ \A x \in Range(p) : x < r

\* The first appearance of each record in p is in order.
FirstsInOrder(p) ==
    \A i, j \in DOMAIN p :
        i < j /\ p[j] \notin {p[k] : k \in 1 .. j - 1} => p[i] < p[j]

\* Every record anywhere was given its number by now.
Numbered ==
    \A s \in Switch :
        /\ OnDisk(s) \subseteq 1 .. next - 1 /\ Queued(s) \subseteq 1 .. next - 1
        /\ \A t \in Thread : Held(t, s) \subseteq 1 .. next - 1

OneDrain == \A t, u \in Thread : Draining(t) /\ Draining(u) => t = u

InLine(s) ==
    /\ FirstsInOrder(disk[s])
    /\ Increasing(queue[s])
    /\ \A r \in Queued(s) : Later(r, disk[s])
    /\ \A t \in Thread :
           /\ Increasing(snapshot[t][s])
           /\ \A r \in Held(t, s) : Later(r, disk[s]) /\ \A x \in Queued(s) : r < x

Line == ~overlapped => OneDrain /\ \A s \in Switch : InLine(s)

\* Before anything fails a record is in one place, once.
Once(s) ==
    /\ IsInjective(disk[s]) /\ IsInjective(queue[s])
    /\ OnDisk(s) \cap Queued(s) = {}
    /\ \A t \in Thread :
           /\ IsInjective(snapshot[t][s])
           /\ Held(t, s) \cap (OnDisk(s) \cup Queued(s)) = {}
           /\ \A u \in Thread \ {t} : Held(t, s) \cap Held(u, s) = {}
Single == faults = 0 => \A s \in Switch : Once(s)

\* What a load_records in progress still has to find.
Owed(t) ==
    /\ pc[t] \in {"take", "drain", "read"} /\ after[t] = "read" => due[t] \subseteq accepted[of[t]]
    /\ pc[t] = "drain" /\ after[t] = "read" => due[t] \subseteq OnDisk(of[t]) \cup Held(t, of[t])
    /\ pc[t] = "read" => due[t] \subseteq OnDisk(of[t])
Reading == ~overlapped /\ (OneSwitch \/ faults = 0) => \A t \in Caller : Owed(t)

\* The flusher's last drain, and what close() waits for.
Out == UNION {OnDisk(s) \cup UNION {Held(u, s) : u \in Thread} : s \in Switch}
Closing ==
    /\ faults = 0 => \A u \in Thread : pc[u] # "requeue"
    /\ pc[Flusher] \in {"loop", "take", "drain", "requeue", "stopped"}
    /\ pc[Flusher] \in {"take", "drain", "requeue"} => after[Flusher] \in {"loop", "stopped"}
    /\ pc[Flusher] = "stopped" => after[Flusher] = "stopped"
    /\ after[Flusher] = "stopped" => closed
    /\ \A t \in Caller : pc[t] \in {"join", "closed"} =>
           /\ closed
           /\ due[t] \subseteq UNION {accepted[s] : s \in Switch}
           /\ pc[t] = "closed" => pc[Flusher] = "stopped"
           /\ faults = 0 /\ pc[Flusher] \in {"drain", "stopped"} /\ after[Flusher] = "stopped"
                => due[t] \subseteq Out

-----------------------------------------------------------------------------
(* Sequences of records. *)

LEMMA ConcatAt ==
    ASSUME NEW S, NEW p \in Seq(S), NEW q \in Seq(S)
    PROVE  /\ p \o q \in Seq(S)
           /\ DOMAIN p = 1 .. Len(p) /\ DOMAIN q = 1 .. Len(q)
           /\ Len(p) \in Nat /\ Len(q) \in Nat
           /\ DOMAIN (p \o q) = 1 .. Len(p) + Len(q)
           /\ \A i \in 1 .. Len(p) : (p \o q)[i] = p[i]
           /\ \A i \in Len(p) + 1 .. Len(p) + Len(q) :
                  i - Len(p) \in 1 .. Len(q) /\ (p \o q)[i] = q[i - Len(p)]
  OBVIOUS

LEMMA FirstsExtend ==
    ASSUME NEW p \in Seq(Nat), NEW q \in Seq(Nat), FirstsInOrder(p), Increasing(q),
           \A r \in Range(q) : Later(r, p)
    PROVE  FirstsInOrder(p \o q)
<1> DEFINE c == p \o q
<1>1. /\ DOMAIN p = 1 .. Len(p) /\ DOMAIN q = 1 .. Len(q)
      /\ Len(p) \in Nat /\ Len(q) \in Nat
      /\ DOMAIN c = 1 .. Len(p) + Len(q)
      /\ \A i \in 1 .. Len(p) : c[i] = p[i]
      /\ \A i \in Len(p) + 1 .. Len(p) + Len(q) :
             i - Len(p) \in 1 .. Len(q) /\ c[i] = q[i - Len(p)]
  BY ConcatAt
<1> HIDE DEF c
<1> SUFFICES ASSUME NEW i \in DOMAIN c, NEW j \in DOMAIN c, i < j,
                    c[j] \notin {c[k] : k \in 1 .. j - 1}
             PROVE  c[i] < c[j]
  BY DEF FirstsInOrder, c
<1>2. CASE j \in 1 .. Len(p)
  <2>1. i \in 1 .. Len(p) /\ \A k \in 1 .. j - 1 : k \in 1 .. Len(p)
    BY <1>1, <1>2
  <2>2. p[j] \notin {p[k] : k \in 1 .. j - 1}
    BY <1>1, <1>2, <2>1
  <2> QED  BY <1>1, <1>2, <2>1, <2>2 DEF FirstsInOrder
<1>3. CASE j \in Len(p) + 1 .. Len(p) + Len(q)
  <2>1. c[j] \in Range(q)
    BY <1>1, <1>3 DEF Range
  <2>2. \A k \in 1 .. Len(p) : k \in 1 .. j - 1
    BY <1>1, <1>3
  <2>3. c[j] \notin Range(p)
    BY <1>1, <2>2 DEF Range
  <2>4. \A x \in Range(p) : x < c[j]
    BY <2>1, <2>3 DEF Later
  <2>5. CASE i \in 1 .. Len(p)
    BY <1>1, <2>4, <2>5 DEF Range
  <2>6. CASE i \in Len(p) + 1 .. Len(p) + Len(q)
    <3>1. i - Len(p) \in DOMAIN q /\ j - Len(p) \in DOMAIN q /\ i - Len(p) < j - Len(p)
      BY <1>1, <1>3, <2>6
    <3>2. q[i - Len(p)] < q[j - Len(p)]
      BY <3>1 DEF Increasing
    <3> QED  BY <1>1, <1>3, <2>6, <3>2
  <2> QED  BY <1>1, <2>5, <2>6
<1> QED  BY <1>1, <1>2, <1>3

LEMMA IncreasingConcat ==
    ASSUME NEW p \in Seq(Nat), NEW q \in Seq(Nat), Increasing(p), Increasing(q),
           \A x \in Range(p) : \A y \in Range(q) : x < y
    PROVE  Increasing(p \o q)
<1> DEFINE c == p \o q
<1>1. /\ DOMAIN p = 1 .. Len(p) /\ DOMAIN q = 1 .. Len(q)
      /\ Len(p) \in Nat /\ Len(q) \in Nat
      /\ DOMAIN c = 1 .. Len(p) + Len(q)
      /\ \A i \in 1 .. Len(p) : c[i] = p[i]
      /\ \A i \in Len(p) + 1 .. Len(p) + Len(q) :
             i - Len(p) \in 1 .. Len(q) /\ c[i] = q[i - Len(p)]
  BY ConcatAt
<1> HIDE DEF c
<1> SUFFICES ASSUME NEW i \in DOMAIN c, NEW j \in DOMAIN c, i < j PROVE c[i] < c[j]
  BY DEF Increasing, c
<1>2. CASE j \in 1 .. Len(p)
  BY <1>1, <1>2 DEF Increasing
<1>3. CASE j \in Len(p) + 1 .. Len(p) + Len(q)
  <2>1. c[j] \in Range(q)
    BY <1>1, <1>3 DEF Range
  <2>2. CASE i \in 1 .. Len(p)
    <3>1. c[i] \in Range(p)
      BY <1>1, <2>2 DEF Range
    <3> QED  BY <2>1, <3>1
  <2>3. CASE i \in Len(p) + 1 .. Len(p) + Len(q)
    <3>1. i - Len(p) \in DOMAIN q /\ j - Len(p) \in DOMAIN q /\ i - Len(p) < j - Len(p)
      <4>1. DOMAIN q = 1 .. Len(q) /\ Len(q) \in Nat /\ Len(p) \in Nat
        BY <1>1
      <4>2. i - Len(p) \in 1 .. Len(q) /\ j - Len(p) \in 1 .. Len(q)
        BY <1>3, <2>3, <4>1, SMTT(30)
      <4>3. i - Len(p) < j - Len(p)
        BY <1>1, <1>3, <2>3, <4>1
      <4> QED  BY <4>1, <4>2, <4>3
    <3>2. q[i - Len(p)] < q[j - Len(p)]
      BY <3>1 DEF Increasing
    <3> QED  BY <1>1, <1>3, <2>3, <3>2
  <2> QED  BY <1>1, <2>2, <2>3
<1> QED  BY <1>1, <1>2, <1>3

LEMMA InjectiveConcat ==
    ASSUME NEW p \in Seq(Nat), NEW q \in Seq(Nat), IsInjective(p), IsInjective(q),
           Range(p) \cap Range(q) = {}
    PROVE  IsInjective(p \o q)
<1> DEFINE c == p \o q
<1>1. /\ DOMAIN p = 1 .. Len(p) /\ DOMAIN q = 1 .. Len(q)
      /\ Len(p) \in Nat /\ Len(q) \in Nat
      /\ DOMAIN c = 1 .. Len(p) + Len(q)
      /\ \A i \in 1 .. Len(p) : c[i] = p[i]
      /\ \A i \in Len(p) + 1 .. Len(p) + Len(q) :
             i - Len(p) \in 1 .. Len(q) /\ c[i] = q[i - Len(p)]
  BY ConcatAt
<1> HIDE DEF c
<1>2. \A i \in 1 .. Len(p) : c[i] \in Range(p)
  BY <1>1 DEF Range
<1>3. ASSUME NEW i \in DOMAIN c, i \notin 1 .. Len(p)
      PROVE  i - Len(p) \in DOMAIN q /\ c[i] = q[i - Len(p)] /\ c[i] \in Range(q)
  <2>0. i \in Len(p) + 1 .. Len(p) + Len(q)
    BY <1>1, <1>3
  <2>1. i - Len(p) \in DOMAIN q /\ c[i] = q[i - Len(p)]
    BY <1>1, <2>0
  <2> QED  BY <2>1 DEF Range
<1> SUFFICES ASSUME NEW i \in DOMAIN c, NEW j \in DOMAIN c, c[i] = c[j] PROVE i = j
  BY DEF IsInjective, c
<1>4. CASE i \in 1 .. Len(p) /\ j \in 1 .. Len(p)
  BY <1>1, <1>4 DEF IsInjective
<1>5. CASE i \notin 1 .. Len(p) /\ j \notin 1 .. Len(p)
  <2>1. i - Len(p) = j - Len(p)
    BY <1>3, <1>5 DEF IsInjective
  <2> QED  BY <1>1, <2>1
<1> QED  BY <1>2, <1>3, <1>4, <1>5

\* One record in a sequence.
LEMMA Singleton ==
    ASSUME NEW e \in Nat
    PROVE  <<e>> \in Seq(Nat) /\ Range(<<e>>) = {e} /\ Increasing(<<e>>) /\ IsInjective(<<e>>)
<1>1. <<e>> \in Seq(Nat) /\ DOMAIN <<e>> = {1} /\ <<e>>[1] = e
  OBVIOUS
<1> QED  BY <1>1 DEF Range, Increasing, IsInjective

\* A prefix: what is in it, and where the rest of the sequence lies.
LEMMA Prefix ==
    ASSUME NEW p \in Seq(Nat), Increasing(p), NEW k \in 0 .. Len(p)
    PROVE  /\ SubSeq(p, 1, k) \in Seq(Nat)
           /\ Increasing(SubSeq(p, 1, k))
           /\ Range(SubSeq(p, 1, k)) \subseteq Range(p)
           /\ \A r \in Range(p) : Later(r, SubSeq(p, 1, k))
<1> DEFINE c == SubSeq(p, 1, k)
<1>a. DOMAIN p = 1 .. Len(p) /\ Len(p) \in Nat /\ \A i \in 1 .. Len(p) : p[i] \in Nat
  OBVIOUS
<1>b. c \in Seq(Nat) /\ Len(c) = k
  OBVIOUS
<1>c. DOMAIN c = 1 .. k
  BY <1>b
<1>d. \A i \in 1 .. k : c[i] = p[i]
  BY <1>a
<1> HIDE DEF c
<1>1. /\ DOMAIN p = 1 .. Len(p) /\ Len(p) \in Nat /\ \A i \in 1 .. Len(p) : p[i] \in Nat
      /\ c \in Seq(Nat) /\ DOMAIN c = 1 .. k
      /\ \A i \in 1 .. k : c[i] = p[i] /\ i \in 1 .. Len(p)
  BY <1>a, <1>b, <1>c, <1>d
<1>2. Increasing(c)
  BY <1>1 DEF Increasing
<1>3. Range(c) \subseteq Range(p)
  BY <1>1 DEF Range
<1>4. ASSUME NEW i \in DOMAIN p PROVE Later(p[i], c)
  <2>1. CASE i <= k
    <3>1. i \in DOMAIN c /\ c[i] = p[i]
      BY <1>1, <2>1
    <3> QED  BY <3>1 DEF Later, Range
  <2>2. CASE i > k
    <3>1. ASSUME NEW j \in DOMAIN c PROVE c[j] < p[i]
      <4>1. j \in DOMAIN p /\ j < i /\ c[j] = p[j]
        BY <1>1, <2>2
      <4> QED  BY <1>4, <4>1 DEF Increasing
    <3> QED  BY <3>1 DEF Later, Range
  <2> QED  BY <1>1, <2>1, <2>2
<1>5. \A r \in Range(p) : Later(r, c)
  BY <1>4 DEF Range
<1> QED  BY <1>1, <1>2, <1>3, <1>5 DEF c

LEMMA LaterConcat ==
    ASSUME NEW p \in Seq(Nat), NEW q \in Seq(Nat), NEW r, Later(r, p), Later(r, q)
    PROVE  Later(r, p \o q)
  BY ConcatHolds DEF Later

LEMMA NoRecords ==
    /\ Range(<<>>) = {} /\ Increasing(<<>>) /\ IsInjective(<<>>) /\ FirstsInOrder(<<>>)
    /\ \A s \in Switch : Nothing[s] = <<>>
  BY DEF Range, Increasing, IsInjective, FirstsInOrder, Nothing

\* Every sequence is one of numbers.
LEMMA Sequences ==
    ASSUME TypeOK
    PROVE  \A s \in Switch : /\ disk[s] \in Seq(Nat) /\ queue[s] \in Seq(Nat)
                             /\ \A t \in Thread : snapshot[t][s] \in Seq(Nat)
<1>1. \A q \in Seq(Record) : q \in Seq(Nat)
  BY SeqMonotonic, BatchedLogAssumption DEF Record, BatchedLogAssumption
<1> QED  BY <1>1 DEF TypeOK

\* The steps that move no record, and leave draining whoever drains.
Aside == Wake \/ \E t \in Caller : Call(t) \/ Read(t) \/ Joined(t) \/ JoinTimesOut(t)

LEMMA AsideMovesNothing ==
    ASSUME TypeOK, Aside
    PROVE  /\ UNCHANGED <<queue, disk, snapshot, accepted, overlapped, next, faults>>
           /\ \A u \in Thread : Draining(u)' <=> Draining(u)
<1>f. Flusher \in Thread /\ Caller \subseteq Thread  BY DEF Thread
<1>1. CASE Wake
  BY <1>1, <1>f DEF Wake, Goto, Draining, TypeOK
<1>2. ASSUME NEW t \in Caller, Call(t)
      PROVE  /\ UNCHANGED <<queue, disk, snapshot, accepted, overlapped, next, faults>>
             /\ \A u \in Thread : Draining(u)' <=> Draining(u)
  <2>1. pc[t] = "idle" /\ \E l \in {"enqueue", "take", "join"} : Goto(t, l)
    BY <1>2 DEF Call, AppendCheck, Load, Flush, Close, Enter
  <2>2. \A u \in Thread : Draining(u)' <=> Draining(u)
    BY <2>1, <1>f DEF Goto, Draining, TypeOK
  <2> QED  BY <1>2, <2>2 DEF Call, AppendCheck, Load, Flush, Close
<1>3. ASSUME NEW t \in Caller, Read(t) \/ Joined(t) \/ JoinTimesOut(t)
      PROVE  /\ UNCHANGED <<queue, disk, snapshot, accepted, overlapped, next, faults>>
             /\ \A u \in Thread : Draining(u)' <=> Draining(u)
  <2>1. pc[t] \in {"read", "join"} /\ \E l \in {"idle", "closed"} : Goto(t, l)
    BY <1>3 DEF Read, Joined, JoinTimesOut
  <2>2. \A u \in Thread : Draining(u)' <=> Draining(u)
    BY <2>1, <1>f DEF Goto, Draining, TypeOK
  <2> QED  BY <1>3, <2>2 DEF Read, Joined, JoinTimesOut
<1> QED  BY <1>1, <1>2, <1>3 DEF Aside

\* What the steps that move records do to them, switch by switch.
LEMMA EnqueueMoves ==
    ASSUME TypeOK, NEW t \in Caller, Enqueue(t)
    PROVE  /\ of[t] \in Switch /\ next \in Nat /\ next \in Record /\ next' = next + 1
           /\ queue'[of[t]] \in Seq(Nat)
           /\ queue'[of[t]] = queue[of[t]] \o <<next>>
           /\ Range(queue'[of[t]]) = Queued(of[t]) \cup {next}
           /\ \A s \in Switch \ {of[t]} : queue'[s] = queue[s]
           /\ UNCHANGED <<disk, snapshot, overlapped, faults>>
           /\ \A u \in Thread : Draining(u)' <=> Draining(u)
<1>1. next \in Record /\ next \in Nat /\ of[t] \in Switch /\ t \in Thread
  BY BatchedLogAssumption DEF Enqueue, Record, TypeOK, BatchedLogAssumption, Thread
<1>2. queue'[of[t]] = Append(queue[of[t]], next) /\ \A s \in Switch \ {of[t]} : queue'[s] = queue[s]
  BY <1>1 DEF Enqueue, TypeOK
<1>3. queue[of[t]] \in Seq(Nat)
  BY <1>1, Sequences
<1>4. Append(queue[of[t]], next) = queue[of[t]] \o <<next>>
  BY <1>1, <1>3, AppendIsConcat
<1>5. queue'[of[t]] \in Seq(Nat) /\ Range(queue'[of[t]]) = Range(queue[of[t]]) \cup {next}
  BY <1>1, <1>2, <1>3, AppendHolds
<1>7. Range(queue'[of[t]]) = Queued(of[t]) \cup {next}
  BY <1>5 DEF Queued
<1>8. \A u \in Thread : Draining(u)' <=> Draining(u)
  BY <1>1 DEF Enqueue, Goto, Draining, TypeOK
<1>9. next' = next + 1 /\ UNCHANGED <<disk, snapshot, overlapped, faults>>
  BY DEF Enqueue
<1> QED  BY <1>1, <1>2, <1>4, <1>5, <1>7, <1>8, <1>9

LEMMA TakeMoves ==
    ASSUME TypeOK, NEW t \in Thread, Take(t)
    PROVE  /\ snapshot'[t] = queue /\ \A u \in Thread \ {t} : snapshot'[u] = snapshot[u]
           /\ queue' = Nothing
           /\ ~Draining(t) /\ \A u \in Thread \ {t} : Draining(u)' <=> Draining(u)
           /\ overlapped' = (overlapped \/ SomeoneDrains(t))
           /\ UNCHANGED <<disk, next, faults>>
<1>1. ~Draining(t) /\ \A u \in Thread \ {t} : Draining(u)' <=> Draining(u)
  BY DEF Take, Goto, Draining, TypeOK
<1> QED  BY <1>1 DEF Take, TypeOK

LEMMA WriteMoves ==
    ASSUME TypeOK, NEW t \in Thread, NEW s \in Switch, Write(t, s)
    PROVE  /\ disk'[s] = disk[s] \o snapshot[t][s] /\ disk'[s] \in Seq(Nat)
           /\ OnDisk(s)' = OnDisk(s) \cup Held(t, s)
           /\ snapshot'[t][s] = <<>>
           /\ \A v \in Switch \ {s} : disk'[v] = disk[v] /\ snapshot'[t][v] = snapshot[t][v]
           /\ \A u \in Thread \ {t} : snapshot'[u] = snapshot[u]
           /\ Draining(t) /\ \A u \in Thread \ {t} : Draining(u)' <=> Draining(u)
           /\ UNCHANGED <<queue, overlapped, next, faults>>
<1>1. disk'[s] = disk[s] \o snapshot[t][s]
  BY DEF Write, TypeOK
<1>2. disk'[s] \in Seq(Nat) /\ Range(disk'[s]) = Range(disk[s]) \cup Range(snapshot[t][s])
  BY <1>1, Sequences, ConcatHolds
<1>3. Draining(t) /\ \A u \in Thread \ {t} : Draining(u)' <=> Draining(u)
  BY DEF Write, Goto, Draining, TypeOK
<1>4. OnDisk(s)' = OnDisk(s) \cup Held(t, s)
  BY <1>2 DEF OnDisk, Held
<1> QED  BY <1>1, <1>2, <1>3, <1>4 DEF Write, TypeOK

LEMMA WriteFailsMoves ==
    ASSUME TypeOK, NEW t \in Thread, NEW s \in Switch, WriteFails(t, s)
    PROVE  /\ \E k \in 0 .. Len(snapshot[t][s]) :
                  disk'[s] = disk[s] \o SubSeq(snapshot[t][s], 1, k)
           /\ snapshot'[t][s] = snapshot[t][s]
           /\ \A v \in Switch \ {s} : disk'[v] = disk[v] /\ snapshot'[t][v] = <<>>
           /\ \A u \in Thread \ {t} : snapshot'[u] = snapshot[u]
           /\ Draining(t) /\ \A u \in Thread \ {t} : Draining(u)' <=> Draining(u)
           /\ UNCHANGED <<queue, overlapped, next>>
           /\ faults' # 0
<1>1. PICK k \in 0 .. Len(snapshot[t][s]) :
          disk' = [disk EXCEPT ![s] = @ \o SubSeq(snapshot[t][s], 1, k)]
  BY DEF WriteFails
<1>2. /\ disk'[s] = disk[s] \o SubSeq(snapshot[t][s], 1, k)
      /\ \A v \in Switch \ {s} : disk'[v] = disk[v]
  BY <1>1 DEF TypeOK
<1>3. snapshot'[t] = Kept(t, s) /\ \A u \in Thread \ {t} : snapshot'[u] = snapshot[u]
  BY DEF WriteFails, TypeOK
<1>4. Kept(t, s)[s] = snapshot[t][s] /\ \A v \in Switch \ {s} : Kept(t, s)[v] = <<>>
  BY DEF Kept, Nothing
<1>5. Draining(t) /\ \A u \in Thread \ {t} : Draining(u)' <=> Draining(u)
  BY DEF WriteFails, Goto, Draining, TypeOK
<1>6. faults' # 0
  BY BatchedLogAssumption DEF WriteFails, TypeOK, BatchedLogAssumption
<1>7. UNCHANGED <<queue, overlapped, next>>
  BY DEF WriteFails
<1> QED  BY <1>2, <1>3, <1>4, <1>5, <1>6, <1>7

\* A failing append writes nothing but what its thread holds.
LEMMA FailsWritesPrefix ==
    ASSUME TypeOK, NEW t \in Thread, NEW s \in Switch, WriteFails(t, s)
    PROVE  OnDisk(s)' \subseteq OnDisk(s) \cup Held(t, s)
<1>1. PICK k \in 0 .. Len(snapshot[t][s]) :
          disk'[s] = disk[s] \o SubSeq(snapshot[t][s], 1, k)
  BY WriteFailsMoves
<1> DEFINE p == disk[s]
<1> DEFINE q == snapshot[t][s]
<1>2. p \in Seq(Nat) /\ q \in Seq(Nat)
  BY Sequences
<1>4. disk'[s] = p \o SubSeq(q, 1, k) /\ k \in 0 .. Len(q)
  BY <1>1
<1>5. OnDisk(s) = Range(p) /\ Held(t, s) = Range(q)
  BY DEF OnDisk, Held
<1> HIDE DEF p, q
<1> DEFINE b == SubSeq(q, 1, k)
<1>a. k \in 0 .. Len(q) /\ DOMAIN q = 1 .. Len(q) /\ Len(q) \in Nat
  BY <1>2, <1>4
<1>b. b \in Seq(Nat) /\ Len(b) = k
  BY <1>2, <1>a
<1>c. \A i \in 1 .. k : b[i] = q[i]
  BY <1>2, <1>a
<1>3. b \in Seq(Nat) /\ DOMAIN b = 1 .. k /\ \A i \in 1 .. k : i \in DOMAIN q /\ b[i] = q[i]
  BY <1>a, <1>b, <1>c
<1>6a. disk'[s] = p \o b
  BY <1>4
<1> HIDE DEF b
<1>6. Range(b) \subseteq Range(q)
  BY <1>3 DEF Range
<1>7. Range(p \o b) = Range(p) \cup Range(b)
  BY <1>2, <1>3, ConcatHolds
<1>8. OnDisk(s)' = Range(disk'[s])
  BY DEF OnDisk
<1> QED  BY <1>5, <1>6, <1>6a, <1>7, <1>8

LEMMA RequeueMoves ==
    ASSUME TypeOK, NEW t \in Thread, Requeue(t)
    PROVE  /\ \A s \in Switch : /\ queue'[s] = snapshot[t][s] \o queue[s]
                                /\ queue'[s] \in Seq(Nat)
                                /\ Queued(s)' = Held(t, s) \cup Queued(s)
           /\ snapshot'[t] = Nothing /\ \A u \in Thread \ {t} : snapshot'[u] = snapshot[u]
           /\ Draining(t) /\ \A u \in Thread \ {t} : Draining(u)' <=> Draining(u)
           /\ UNCHANGED <<disk, overlapped, next, faults>>
<1>1. \A s \in Switch : queue'[s] = snapshot[t][s] \o queue[s]
  BY DEF Requeue, PutBack, InFront
<1>2. ASSUME NEW s \in Switch
      PROVE  /\ queue'[s] \in Seq(Nat)
             /\ Range(queue'[s]) = Range(snapshot[t][s]) \cup Range(queue[s])
  <2>1. snapshot[t][s] \in Seq(Nat) /\ queue[s] \in Seq(Nat)
    BY Sequences
  <2>2. queue'[s] = snapshot[t][s] \o queue[s]
    BY <1>1
  <2> QED  BY <2>1, <2>2, ConcatHolds
<1>3. Draining(t) /\ \A u \in Thread \ {t} : Draining(u)' <=> Draining(u)
  BY DEF Requeue, PutBack, Goto, Draining, TypeOK
<1>4. \A s \in Switch : Queued(s)' = Held(t, s) \cup Queued(s)
  BY <1>2 DEF Queued, Held
<1>5. /\ snapshot'[t] = Nothing /\ \A u \in Thread \ {t} : snapshot'[u] = snapshot[u]
      /\ UNCHANGED <<disk, overlapped, next, faults>>
  BY DEF Requeue, PutBack, TypeOK
<1> QED  BY <1>1, <1>2, <1>3, <1>4, <1>5

\* A step moves records in one of these ways, or not at all.
LEMMA Moves ==
    ASSUME Next
    PROVE  \/ Aside
           \/ \E t \in Caller : Enqueue(t)
           \/ \E t \in Thread : Take(t) \/ Requeue(t)
           \/ \E t \in Thread, s \in Switch : Write(t, s) \/ WriteFails(t, s)
  BY DEF Next, Finish, Drain, Aside

LEMMA NumberedStep == TypeOK /\ Numbered /\ [Next]_vars => Numbered'
<1> SUFFICES ASSUME TypeOK, Numbered, [Next]_vars PROVE Numbered'  OBVIOUS
<1>n. next \in Nat /\ next >= 1
  BY BatchedLogAssumption DEF TypeOK, BatchedLogAssumption
<1>z. \A s \in Switch : Range(Nothing[s]) = {}
  BY NoRecords
<1>1. CASE Aside
  BY <1>1, AsideMovesNothing DEF Numbered, OnDisk, Queued, Held
<1>2. ASSUME NEW t \in Caller, Enqueue(t) PROVE Numbered'
  <2>1. next \in 1 .. next' - 1 /\ 1 .. next - 1 \subseteq 1 .. next' - 1
    BY <1>2, <1>n, EnqueueMoves
  <2>2. \A s \in Switch : OnDisk(s)' = OnDisk(s) /\ \A u \in Thread : Held(u, s)' = Held(u, s)
    BY <1>2, EnqueueMoves DEF OnDisk, Held
  <2>3. ASSUME NEW s \in Switch PROVE Queued(s)' \subseteq Queued(s) \cup {next}
    <3>1. s = of[t] => Range(queue'[s]) = Queued(s) \cup {next}
      BY <1>2, EnqueueMoves
    <3>2. s # of[t] => Range(queue'[s]) = Queued(s)
      BY <1>2, EnqueueMoves DEF Queued
    <3>3. Queued(s)' = Range(queue'[s])
      BY DEF Queued
    <3> QED  BY <3>1, <3>2, <3>3
  <2> QED  BY <2>1, <2>2, <2>3 DEF Numbered
<1>3. ASSUME NEW t \in Thread, Take(t) PROVE Numbered'
  <2>1. \A s \in Switch : OnDisk(s)' = OnDisk(s) /\ Queued(s)' = {} /\ Held(t, s)' = Queued(s)
    BY <1>3, <1>z, TakeMoves DEF OnDisk, Queued, Held
  <2>2. \A s \in Switch : \A u \in Thread \ {t} : Held(u, s)' = Held(u, s)
    BY <1>3, TakeMoves DEF Held
  <2> QED  BY <1>3, <2>1, <2>2, TakeMoves DEF Numbered
<1>4. ASSUME NEW t \in Thread, NEW s \in Switch, Write(t, s) PROVE Numbered'
  <2>1. /\ OnDisk(s)' = OnDisk(s) \cup Held(t, s)
        /\ Held(t, s)' = {}
    BY <1>4, WriteMoves, NoRecords DEF Held
  <2>2. \A v \in Switch : v # s => OnDisk(v)' = OnDisk(v) /\ Held(t, v)' = Held(t, v)
    <3>1. \A v \in Switch \ {s} : disk'[v] = disk[v] /\ snapshot'[t][v] = snapshot[t][v]
      BY <1>4, WriteMoves
    <3> QED  BY <3>1 DEF OnDisk, Held
  <2>3. \A v \in Switch : Queued(v)' = Queued(v) /\ \A u \in Thread \ {t} : Held(u, v)' = Held(u, v)
    BY <1>4, WriteMoves DEF Queued, Held
  <2>4. next' = next
    BY <1>4, WriteMoves
  <2>5. ASSUME NEW v \in Switch
        PROVE  /\ OnDisk(v)' \subseteq OnDisk(v) \cup Held(t, v) /\ Queued(v)' = Queued(v)
               /\ \A u \in Thread : Held(u, v)' \subseteq Held(u, v)
    BY <2>1, <2>2, <2>3
  <2> QED  BY <2>4, <2>5 DEF Numbered
<1>5. ASSUME NEW t \in Thread, NEW s \in Switch, WriteFails(t, s) PROVE Numbered'
  <2>1. OnDisk(s)' \subseteq OnDisk(s) \cup Held(t, s)
    BY <1>5, FailsWritesPrefix DEF Held
  <2>2. \A v \in Switch : v # s => OnDisk(v)' = OnDisk(v) /\ Held(t, v)' = {}
    <3>1. \A v \in Switch \ {s} : disk'[v] = disk[v] /\ snapshot'[t][v] = <<>>
      BY <1>5, WriteFailsMoves
    <3> QED  BY <3>1, NoRecords DEF OnDisk, Held
  <2>3. Held(t, s)' = Held(t, s)
    BY <1>5, WriteFailsMoves DEF Held
  <2>4. \A v \in Switch : Queued(v)' = Queued(v) /\ \A u \in Thread \ {t} : Held(u, v)' = Held(u, v)
    BY <1>5, WriteFailsMoves DEF Queued, Held
  <2>5. next' = next
    BY <1>5, WriteFailsMoves
  <2>6. ASSUME NEW v \in Switch
        PROVE  /\ OnDisk(v)' \subseteq OnDisk(v) \cup Held(t, v) /\ Queued(v)' = Queued(v)
               /\ \A u \in Thread : Held(u, v)' \subseteq Held(u, v)
    BY <2>1, <2>2, <2>3, <2>4
  <2> QED  BY <2>5, <2>6 DEF Numbered
<1>6. ASSUME NEW t \in Thread, Requeue(t) PROVE Numbered'
  <2>1. \A s \in Switch : /\ OnDisk(s)' = OnDisk(s) /\ Held(t, s)' = {}
                          /\ Queued(s)' = Held(t, s) \cup Queued(s)
    BY <1>6, <1>z, RequeueMoves DEF OnDisk, Held
  <2>2. \A s \in Switch : \A u \in Thread \ {t} : Held(u, s)' = Held(u, s)
    BY <1>6, RequeueMoves DEF Held
  <2> QED  BY <1>6, <2>1, <2>2, RequeueMoves DEF Numbered
<1>7. CASE UNCHANGED vars
  BY <1>7 DEF vars, Numbered, OnDisk, Queued, Held
<1> QED  BY <1>1, <1>2, <1>3, <1>4, <1>5, <1>6, <1>7, Moves

\* Whoever drains, drains alone, and nobody else holds a record.
LEMMA Alone ==
    ASSUME TypeOK, Delivery, OneDrain, NEW t \in Thread, Draining(t)
    PROVE  \A u \in Thread \ {t} : ~Draining(u) /\ \A s \in Switch : snapshot[u][s] = <<>>
  BY NoRecords DEF OneDrain, Delivery, Empty

LEMMA LineStep ==
    TypeOK /\ Delivery /\ Numbered /\ Line /\ [Next]_vars => Line'
<1> SUFFICES ASSUME TypeOK, Delivery, Numbered, Line, [Next]_vars, ~overlapped' PROVE
        OneDrain' /\ \A s \in Switch : InLine(s)'
  BY DEF Line
<1>s. \A s \in Switch : /\ disk[s] \in Seq(Nat) /\ queue[s] \in Seq(Nat)
                        /\ \A t \in Thread : snapshot[t][s] \in Seq(Nat)
  BY Sequences
<1>1. CASE Aside \/ UNCHANGED vars
  <2>1. /\ UNCHANGED <<queue, disk, snapshot, overlapped>>
        /\ \A u \in Thread : Draining(u)' <=> Draining(u)
    BY <1>1, AsideMovesNothing DEF vars, Draining
  <2>2. OneDrain /\ \A s \in Switch : InLine(s)
    BY <2>1 DEF Line
  <2>3. OneDrain'
    BY <2>1, <2>2 DEF OneDrain
  <2> QED  BY <2>1, <2>2, <2>3 DEF InLine, Queued, Held
<1>2. ASSUME NEW t \in Caller, Enqueue(t) PROVE OneDrain' /\ \A s \in Switch : InLine(s)'
  <2>1. OneDrain /\ \A s \in Switch : InLine(s)
    BY <1>2, EnqueueMoves DEF Line
  <2>2. OneDrain'
    BY <1>2, <2>1, EnqueueMoves DEF OneDrain
  <2>3. ASSUME NEW s \in Switch, s # of[t] PROVE InLine(s)'
    BY <1>2, <2>1, <2>3, EnqueueMoves DEF InLine, Queued, Held
  <2> SUFFICES ASSUME NEW s \in Switch, s = of[t] PROVE InLine(s)'
    BY <2>2, <2>3
  <2>4. /\ s \in Switch /\ next \in Nat
        /\ queue'[s] = queue[s] \o <<next>> /\ Range(queue'[s]) = Queued(s) \cup {next}
        /\ disk' = disk /\ snapshot' = snapshot
    BY <1>2, EnqueueMoves DEF Queued, Enqueue, call
  <2>5. InLine(s)'
    <3>1. Increasing(queue[s]) /\ \A x \in Range(queue[s]) : x < next
      <4>1. Increasing(queue[s])
        BY <2>1, <2>4 DEF InLine
      <4>2. Range(queue[s]) \subseteq 1 .. next - 1
        BY <2>4 DEF Numbered, Queued
      <4> QED  BY <2>4, <4>1, <4>2
    <3>2. queue[s] \in Seq(Nat) /\ <<next>> \in Seq(Nat) /\ Range(<<next>>) = {next} /\ Increasing(<<next>>)
      BY <1>s, <2>4, Singleton
    <3>3. Increasing(queue[s] \o <<next>>)
      <4> DEFINE q == queue[s]
      <4> DEFINE e == <<next>>
      <4>1. /\ q \in Seq(Nat) /\ e \in Seq(Nat) /\ Increasing(q) /\ Increasing(e)
            /\ \A x \in Range(q) : \A y \in Range(e) : x < y
        BY <3>1, <3>2
      <4> HIDE DEF q, e
      <4>2. Increasing(q \o e)
        BY <4>1, IncreasingConcat
      <4> QED  BY <4>2 DEF q, e
    <3>4. Later(next, disk[s]) /\ \A u \in Thread : \A r \in Held(u, s) : r < next
      <4>1. OnDisk(s) \subseteq 1 .. next - 1 /\ \A u \in Thread : Held(u, s) \subseteq 1 .. next - 1
        BY <2>4 DEF Numbered
      <4> QED  BY <2>4, <4>1 DEF Later, OnDisk
    <3>5. \A r \in Range(queue'[s]) : Later(r, disk[s])
      BY <2>1, <2>4, <3>4 DEF InLine
    <3>6. \A u \in Thread : \A r \in Held(u, s) : \A x \in Range(queue'[s]) : r < x
      BY <2>1, <2>4, <3>4 DEF InLine
    <3>7. FirstsInOrder(disk[s]) /\ \A u \in Thread : /\ Increasing(snapshot[u][s])
                                                      /\ \A r \in Held(u, s) : Later(r, disk[s])
      BY <2>1, <2>4 DEF InLine
    <3> QED  BY <2>4, <3>3, <3>5, <3>6, <3>7 DEF InLine, Queued, Held
  <2> QED  BY <2>5
<1>3. ASSUME NEW t \in Thread, Take(t) PROVE OneDrain' /\ \A s \in Switch : InLine(s)'
  <2>1. ~overlapped /\ \A u \in Thread \ {t} : ~Draining(u)
    BY <1>3, TakeMoves DEF SomeoneDrains
  <2>2. \A s \in Switch : InLine(s)
    BY <2>1 DEF Line
  <2>3. \A u \in Thread \ {t} : ~Draining(u)' /\ \A s \in Switch : snapshot'[u][s] = <<>>
    BY <1>3, <2>1, TakeMoves, NoRecords DEF Delivery, Empty
  <2>4. OneDrain'
    BY <2>3 DEF OneDrain
  <2>5. ASSUME NEW s \in Switch PROVE InLine(s)'
    <3>1. disk' = disk /\ queue'[s] = <<>> /\ snapshot'[t][s] = queue[s]
      BY <1>3, TakeMoves, NoRecords
    <3>2. /\ Queued(s)' = {} /\ Held(t, s)' = Queued(s)
          /\ \A u \in Thread \ {t} : Held(u, s)' = {}
      BY <2>3, <3>1, NoRecords DEF Queued, Held
    <3> QED  BY <2>2, <2>3, <3>1, <3>2, NoRecords DEF InLine
  <2> QED  BY <2>4, <2>5
<1>4. ASSUME NEW t \in Thread, NEW s \in Switch, Write(t, s)
      PROVE  OneDrain' /\ \A v \in Switch : InLine(v)'
  <2>1. OneDrain /\ \A v \in Switch : InLine(v)
    BY <1>4, WriteMoves DEF Line
  <2>2. \A u \in Thread \ {t} : ~Draining(u) /\ \A v \in Switch : snapshot[u][v] = <<>>
    BY <1>4, <2>1, WriteMoves, Alone
  <2>3. \A u \in Thread \ {t} : ~Draining(u)' /\ snapshot'[u] = snapshot[u]
    BY <1>4, <2>2, WriteMoves
  <2>4. OneDrain'
    BY <2>3 DEF OneDrain
  <2>5. ASSUME NEW v \in Switch, v # s PROVE InLine(v)'
    <3>a. disk'[v] = disk[v] /\ snapshot'[t][v] = snapshot[t][v] /\ queue' = queue
      BY <1>4, <2>5, WriteMoves
    <3>1. /\ disk'[v] = disk[v] /\ queue'[v] = queue[v]
          /\ \A u \in Thread : snapshot'[u][v] = snapshot[u][v]
      BY <2>3, <3>a
    <3> QED  BY <2>1, <3>1 DEF InLine, Queued, Held
  <2>6. InLine(s)'
    <3> DEFINE p == disk[s]
    <3> DEFINE q == snapshot[t][s]
    <3>1. /\ p \in Seq(Nat) /\ q \in Seq(Nat) /\ FirstsInOrder(p) /\ Increasing(q)
          /\ \A r \in Range(q) : Later(r, p)
          /\ \A r \in Queued(s) : Later(r, p) /\ Later(r, q)
      BY <1>s, <2>1 DEF InLine, Held, Later
    <3>2. disk'[s] = p \o q /\ snapshot'[t][s] = <<>> /\ queue' = queue
      BY <1>4, WriteMoves
    <3> HIDE DEF p, q
    <3>3. FirstsInOrder(p \o q)
      BY <3>1, FirstsExtend
    <3>4. \A r \in Queued(s) : Later(r, p \o q)
      BY <3>1, LaterConcat
    <3>5. \A u \in Thread : snapshot'[u][s] = <<>> /\ Held(u, s)' = {}
      BY <2>2, <2>3, <3>2, NoRecords DEF Held
    <3>6. Increasing(queue[s])
      BY <2>1 DEF InLine
    <3> QED  BY <3>2, <3>3, <3>4, <3>5, <3>6, NoRecords DEF InLine, Queued
  <2> QED  BY <2>4, <2>5, <2>6
<1>5. ASSUME NEW t \in Thread, NEW s \in Switch, WriteFails(t, s)
      PROVE  OneDrain' /\ \A v \in Switch : InLine(v)'
  <2>1. OneDrain /\ \A v \in Switch : InLine(v)
    BY <1>5, WriteFailsMoves DEF Line
  <2>2. \A u \in Thread \ {t} : ~Draining(u) /\ \A v \in Switch : snapshot[u][v] = <<>>
    BY <1>5, <2>1, WriteFailsMoves, Alone
  <2>3. \A u \in Thread \ {t} : ~Draining(u)' /\ snapshot'[u] = snapshot[u]
    BY <1>5, <2>2, WriteFailsMoves
  <2>4. OneDrain'
    BY <2>3 DEF OneDrain
  <2>5. ASSUME NEW v \in Switch, v # s PROVE InLine(v)'
    <3>1. /\ disk'[v] = disk[v] /\ queue'[v] = queue[v]
          /\ \A u \in Thread : snapshot'[u][v] = <<>> /\ Held(u, v)' = {}
      <4>a. \A w \in Switch \ {s} : disk'[w] = disk[w] /\ snapshot'[t][w] = <<>>
        BY <1>5, WriteFailsMoves
      <4>b. queue' = queue
        BY <1>5, WriteFailsMoves
      <4>1. disk'[v] = disk[v] /\ snapshot'[t][v] = <<>> /\ queue' = queue
        BY <2>5, <4>a, <4>b
      <4>2. \A u \in Thread : snapshot'[u][v] = <<>>
        BY <2>2, <2>3, <4>1
      <4> QED  BY <4>1, <4>2, NoRecords DEF Held
    <3> QED  BY <2>1, <3>1, NoRecords DEF InLine, Queued
  <2>6. InLine(s)'
    <3>1. PICK k \in 0 .. Len(snapshot[t][s]) :
              disk'[s] = disk[s] \o SubSeq(snapshot[t][s], 1, k)
      BY <1>5, WriteFailsMoves
    <3> DEFINE p == disk[s]
    <3> DEFINE q == snapshot[t][s]
    <3> DEFINE b == SubSeq(q, 1, k)
    <3>2. /\ p \in Seq(Nat) /\ q \in Seq(Nat) /\ FirstsInOrder(p) /\ Increasing(q)
          /\ \A r \in Range(q) : Later(r, p)
          /\ \A r \in Queued(s) : Later(r, p) /\ \A x \in Range(q) : x < r
      BY <1>s, <2>1 DEF InLine, Held
    <3>3. /\ b \in Seq(Nat) /\ Increasing(b) /\ Range(b) \subseteq Range(q)
          /\ \A r \in Range(q) : Later(r, b)
      BY <3>2, Prefix
    <3>4. disk'[s] = p \o b /\ snapshot'[t][s] = q /\ queue' = queue
      BY <1>5, <3>1, WriteFailsMoves
    <3> HIDE DEF p, q, b
    <3>5. FirstsInOrder(p \o b)
      BY <3>2, <3>3, FirstsExtend
    <3>6. \A r \in Range(q) : Later(r, p \o b)
      BY <3>2, <3>3, LaterConcat
    <3>7. \A r \in Queued(s) : Later(r, b)
      BY <3>2, <3>3 DEF Later
    <3>8. \A r \in Queued(s) : Later(r, p \o b)
      BY <3>2, <3>3, <3>7, LaterConcat
    <3>9. \A u \in Thread \ {t} : snapshot'[u][s] = <<>> /\ Held(u, s)' = {}
      BY <2>2, <2>3, NoRecords DEF Held
    <3>10. Held(t, s)' = Range(q)
      BY <3>4 DEF Held
    <3>11. Increasing(queue[s])
      BY <2>1 DEF InLine
    <3>12. ASSUME NEW u \in Thread
           PROVE  /\ Increasing(snapshot'[u][s])
                  /\ \A r \in Held(u, s)' : Later(r, p \o b) /\ \A x \in Queued(s) : r < x
      BY <3>2, <3>4, <3>6, <3>9, <3>10, NoRecords
    <3> QED  BY <3>4, <3>5, <3>8, <3>11, <3>12 DEF InLine, Queued
  <2> QED  BY <2>4, <2>5, <2>6
<1>6. ASSUME NEW t \in Thread, Requeue(t) PROVE OneDrain' /\ \A s \in Switch : InLine(s)'
  <2>1. OneDrain /\ \A s \in Switch : InLine(s)
    BY <1>6, RequeueMoves DEF Line
  <2>2. \A u \in Thread \ {t} : ~Draining(u) /\ \A s \in Switch : snapshot[u][s] = <<>>
    BY <1>6, <2>1, RequeueMoves, Alone
  <2>3. \A u \in Thread \ {t} : ~Draining(u)' /\ snapshot'[u] = snapshot[u]
    BY <1>6, <2>2, RequeueMoves
  <2>4. OneDrain'
    BY <2>3 DEF OneDrain
  <2>5. ASSUME NEW s \in Switch PROVE InLine(s)'
    <3> DEFINE p == snapshot[t][s]
    <3> DEFINE q == queue[s]
    <3>1. /\ p \in Seq(Nat) /\ q \in Seq(Nat) /\ Increasing(p) /\ Increasing(q)
          /\ \A x \in Range(p) : \A y \in Range(q) : x < y
          /\ \A r \in Range(p) \cup Range(q) : Later(r, disk[s])
      BY <1>s, <2>1 DEF InLine, Held, Queued
    <3>2. queue'[s] = p \o q /\ Range(queue'[s]) = Range(p) \cup Range(q) /\ disk' = disk
      BY <1>6, RequeueMoves DEF Held, Queued
    <3> HIDE DEF p, q
    <3>3. Increasing(p \o q)
      BY <3>1, IncreasingConcat
    <3>4. \A u \in Thread : snapshot'[u][s] = <<>> /\ Held(u, s)' = {}
      <4>1. snapshot'[t][s] = <<>>
        BY <1>6, RequeueMoves, NoRecords
      <4>2. \A u \in Thread : snapshot'[u][s] = <<>>
        BY <2>2, <2>3, <4>1
      <4> QED  BY <4>2, NoRecords DEF Held
    <3>5. FirstsInOrder(disk[s])
      BY <2>1 DEF InLine
    <3> QED  BY <3>1, <3>2, <3>3, <3>4, <3>5, NoRecords DEF InLine, Queued
  <2> QED  BY <2>4, <2>5
<1> QED  BY <1>1, <1>2, <1>3, <1>4, <1>5, <1>6, Moves
LEMMA SingleStep ==
    TypeOK /\ Numbered /\ Single /\ [Next]_vars => Single'
<1> SUFFICES ASSUME TypeOK, Numbered, Single, [Next]_vars, faults' = 0 PROVE
        \A s \in Switch : Once(s)'
  BY DEF Single
<1>s. \A s \in Switch : /\ disk[s] \in Seq(Nat) /\ queue[s] \in Seq(Nat)
                        /\ \A t \in Thread : snapshot[t][s] \in Seq(Nat)
  BY Sequences
<1>1. CASE Aside \/ UNCHANGED vars
  <2>1. UNCHANGED <<queue, disk, snapshot, faults>>
    BY <1>1, AsideMovesNothing DEF vars
  <2>2. \A s \in Switch : Once(s)
    BY <2>1 DEF Single
  <2> QED  BY <2>1, <2>2 DEF Once, OnDisk, Queued, Held
<1>2. ASSUME NEW t \in Caller, Enqueue(t), NEW s \in Switch PROVE Once(s)'
  <2>1. Once(s) /\ UNCHANGED <<disk, snapshot>>
    BY <1>2, EnqueueMoves DEF Single
  <2>2. s # of[t] => queue'[s] = queue[s]
    BY <1>2, EnqueueMoves
  <2>3. ASSUME s = of[t] PROVE Once(s)'
    <3>1. /\ next \in Nat /\ queue'[s] = queue[s] \o <<next>>
          /\ Range(queue'[s]) = Queued(s) \cup {next}
      BY <1>2, <2>3, EnqueueMoves
    <3>2. /\ OnDisk(s) \subseteq 1 .. next - 1 /\ Queued(s) \subseteq 1 .. next - 1
          /\ \A u \in Thread : Held(u, s) \subseteq 1 .. next - 1
      BY DEF Numbered
    <3>3. next \notin OnDisk(s) /\ next \notin Queued(s) /\ \A u \in Thread : next \notin Held(u, s)
      BY <3>1, <3>2
    <3>4. IsInjective(queue'[s])
      <4> DEFINE q == queue[s]
      <4> DEFINE e == <<next>>
      <4>1. q \in Seq(Nat) /\ e \in Seq(Nat) /\ IsInjective(q) /\ IsInjective(e)
        BY <1>s, <2>1, <3>1, Singleton DEF Once
      <4>2. Range(q) \cap Range(e) = {}
        BY <3>1, <3>3, Singleton DEF Queued
      <4> HIDE DEF q, e
      <4>3. IsInjective(q \o e)
        BY <4>1, <4>2, InjectiveConcat
      <4> QED  BY <3>1, <4>3 DEF q, e
    <3> QED  BY <2>1, <3>1, <3>3, <3>4 DEF Once, OnDisk, Queued, Held
  <2>4. ASSUME s # of[t] PROVE Once(s)'
    BY <2>1, <2>2, <2>4 DEF Once, OnDisk, Queued, Held
  <2> QED  BY <2>3, <2>4
<1>3. ASSUME NEW t \in Thread, Take(t), NEW s \in Switch PROVE Once(s)'
  <2>1. Once(s) /\ disk' = disk
    BY <1>3, TakeMoves DEF Single
  <2>2. queue'[s] = <<>> /\ snapshot'[t][s] = queue[s] /\ \A u \in Thread \ {t} : snapshot'[u] = snapshot[u]
    BY <1>3, TakeMoves, NoRecords
  <2>3. Range(queue'[s]) = {} /\ IsInjective(queue'[s])
    BY <2>2, NoRecords
  <2> QED  BY <2>1, <2>2, <2>3 DEF Once, OnDisk, Queued, Held
<1>4. ASSUME NEW t \in Thread, NEW s \in Switch, Write(t, s), NEW v \in Switch PROVE Once(v)'
  <2>1. Once(v) /\ queue' = queue /\ \A u \in Thread \ {t} : snapshot'[u] = snapshot[u]
    BY <1>4, WriteMoves DEF Single
  <2>2. ASSUME v # s PROVE Once(v)'
    <3>1. disk'[v] = disk[v] /\ snapshot'[t][v] = snapshot[t][v]
      BY <1>4, <2>2, WriteMoves
    <3> QED  BY <2>1, <3>1 DEF Once, OnDisk, Queued, Held
  <2>3. ASSUME v = s PROVE Once(v)'
    <3>1. /\ disk'[v] = disk[v] \o snapshot[t][v] /\ OnDisk(v)' = OnDisk(v) \cup Held(t, v)
          /\ snapshot'[t][v] = <<>>
      BY <1>4, <2>3, WriteMoves
    <3>2. Held(t, v)' = {} /\ IsInjective(snapshot'[t][v])
      BY <3>1, NoRecords DEF Held
    <3>3. IsInjective(disk'[v])
      <4> DEFINE p == disk[v]
      <4> DEFINE q == snapshot[t][v]
      <4>1. p \in Seq(Nat) /\ q \in Seq(Nat) /\ IsInjective(p) /\ IsInjective(q)
        BY <1>s, <2>1 DEF Once
      <4>2. Range(p) \cap Range(q) = {}
        BY <2>1 DEF Once, OnDisk, Held
      <4> HIDE DEF p, q
      <4>3. IsInjective(p \o q)
        BY <4>1, <4>2, InjectiveConcat
      <4> QED  BY <3>1, <4>3 DEF p, q
    <3>4. Queued(v)' = Queued(v) /\ \A u \in Thread \ {t} : Held(u, v)' = Held(u, v)
      BY <2>1 DEF Queued, Held
    <3>5. ASSUME NEW u \in Thread
          PROVE  /\ IsInjective(snapshot'[u][v])
                 /\ Held(u, v)' \cap (OnDisk(v)' \cup Queued(v)') = {}
                 /\ \A w \in Thread \ {u} : Held(u, v)' \cap Held(w, v)' = {}
      <4>1. CASE u = t
        BY <3>2, <4>1
      <4>2. CASE u # t
        BY <2>1, <3>1, <3>2, <3>4, <4>2 DEF Once
      <4> QED  BY <4>1, <4>2
    <3>6. IsInjective(queue'[v]) /\ OnDisk(v)' \cap Queued(v)' = {}
      BY <2>1, <3>1, <3>4 DEF Once
    <3> QED  BY <3>3, <3>5, <3>6 DEF Once
  <2> QED  BY <2>2, <2>3
<1>5. ASSUME NEW t \in Thread, NEW s \in Switch, WriteFails(t, s) PROVE FALSE
  BY <1>5, WriteFailsMoves
<1>6. ASSUME NEW t \in Thread, Requeue(t), NEW s \in Switch PROVE Once(s)'
  <2>1. Once(s) /\ disk' = disk /\ \A u \in Thread \ {t} : snapshot'[u] = snapshot[u]
    BY <1>6, RequeueMoves DEF Single
  <2>2. /\ queue'[s] = snapshot[t][s] \o queue[s] /\ Queued(s)' = Held(t, s) \cup Queued(s)
        /\ snapshot'[t][s] = <<>>
    BY <1>6, RequeueMoves, NoRecords
  <2>3. Held(t, s)' = {} /\ IsInjective(snapshot'[t][s])
    BY <2>2, NoRecords DEF Held
  <2>4. IsInjective(queue'[s])
    <3> DEFINE p == snapshot[t][s]
    <3> DEFINE q == queue[s]
    <3>1. p \in Seq(Nat) /\ q \in Seq(Nat) /\ IsInjective(p) /\ IsInjective(q)
      BY <1>s, <2>1 DEF Once
    <3>2. Range(p) \cap Range(q) = {}
      BY <2>1 DEF Once, Held, Queued
    <3> HIDE DEF p, q
    <3>3. IsInjective(p \o q)
      BY <3>1, <3>2, InjectiveConcat
    <3> QED  BY <2>2, <3>3 DEF p, q
  <2>5. OnDisk(s)' = OnDisk(s) /\ \A u \in Thread \ {t} : Held(u, s)' = Held(u, s)
    BY <2>1 DEF OnDisk, Held
  <2>6. ASSUME NEW u \in Thread
        PROVE  /\ IsInjective(snapshot'[u][s])
               /\ Held(u, s)' \cap (OnDisk(s)' \cup Queued(s)') = {}
               /\ \A w \in Thread \ {u} : Held(u, s)' \cap Held(w, s)' = {}
    <3>1. CASE u = t
      BY <2>3, <3>1
    <3>2. CASE u # t
      BY <2>1, <2>2, <2>3, <2>5, <3>2 DEF Once
    <3> QED  BY <3>1, <3>2
  <2>7. IsInjective(disk'[s]) /\ OnDisk(s)' \cap Queued(s)' = {}
    BY <2>1, <2>2, <2>5 DEF Once
  <2> QED  BY <2>4, <2>6, <2>7 DEF Once
<1> QED  BY <1>1, <1>2, <1>3, <1>4, <1>5, <1>6, Moves

LEMMA OrderInit == Init => Numbered /\ Line /\ Single
<1> SUFFICES ASSUME Init PROVE Numbered /\ Line /\ Single  OBVIOUS
<1>1. \A s \in Switch : /\ disk[s] = <<>> /\ queue[s] = <<>>
                        /\ \A t \in Thread : snapshot[t][s] = <<>>
  BY DEF Init, Nothing
<1>2. \A s \in Switch : /\ OnDisk(s) = {} /\ Queued(s) = {}
                        /\ \A t \in Thread : Held(t, s) = {}
  BY <1>1, NoRecords DEF OnDisk, Queued, Held
<1>3. OneDrain
  BY DEF Init, OneDrain, Draining
<1>4. \A s \in Switch : InLine(s) /\ Once(s)
  BY <1>1, <1>2, NoRecords DEF InLine, Once
<1> QED  BY <1>2, <1>3, <1>4 DEF Numbered, Line, Single

\* Records reach the disk in the order append_record queued them as long as no
\* two drains overlap, and only once until an append fails, for any number of
\* switches, threads and failures.
THEOREM OrderKept == Spec => []WrittenInOrder
<1> DEFINE Inv == TypeOK /\ Delivery /\ Numbered /\ Line /\ Single
<1>1. Init => Inv
  BY TypeInit, DeliveryInit, OrderInit
<1>2. Inv /\ [Next]_vars => Inv'
  BY TypeStep, DeliveryStep, NumberedStep, LineStep, SingleStep
<1>3. Inv => WrittenInOrder
  <2>1. Line => AppendOrder
    BY DEF Line, InLine, FirstsInOrder, AppendOrder
  <2>2. Single => NoDuplicateWithoutFailure
    BY DEF Single, Once, IsInjective, NoDuplicateWithoutFailure
  <2> QED  BY <2>1, <2>2 DEF WrittenInOrder
<1> QED  BY <1>1, <1>2, <1>3, PTL DEF Spec

-----------------------------------------------------------------------------
(***************************************************************************)
(* What a read and a close() find.                                         *)
(***************************************************************************)
\* Nothing accepted is taken back, and nothing leaves the disk.
LEMMA Grows ==
    ASSUME TypeOK, [Next]_vars
    PROVE  \A s \in Switch : accepted[s] \subseteq accepted'[s] /\ OnDisk(s) \subseteq OnDisk(s)'
<1>1. CASE Aside \/ UNCHANGED vars
  BY <1>1, AsideMovesNothing DEF vars, OnDisk
<1>2. ASSUME NEW t \in Caller, Enqueue(t), NEW s \in Switch
      PROVE  accepted[s] \subseteq accepted'[s] /\ OnDisk(s) \subseteq OnDisk(s)'
  <2>1. disk' = disk /\ accepted' = [accepted EXCEPT ![of[t]] = @ \cup {next}]
    BY <1>2 DEF Enqueue
  <2> QED  BY <2>1 DEF OnDisk, TypeOK
<1>3. ASSUME NEW t \in Thread, Take(t) \/ Requeue(t), NEW s \in Switch
      PROVE  accepted[s] \subseteq accepted'[s] /\ OnDisk(s) \subseteq OnDisk(s)'
  BY <1>3 DEF Take, Requeue, PutBack, OnDisk
<1>4. ASSUME NEW t \in Thread, NEW v \in Switch, Write(t, v), NEW s \in Switch
      PROVE  accepted[s] \subseteq accepted'[s] /\ OnDisk(s) \subseteq OnDisk(s)'
  <2>1. accepted' = accepted
    BY <1>4 DEF Write
  <2>2. s # v => disk'[s] = disk[s]
    BY <1>4, WriteMoves
  <2>3. s = v => OnDisk(s) \subseteq OnDisk(s)'
    BY <1>4, WriteMoves
  <2> QED  BY <2>1, <2>2, <2>3 DEF OnDisk
<1>5. ASSUME NEW t \in Thread, NEW v \in Switch, WriteFails(t, v), NEW s \in Switch
      PROVE  accepted[s] \subseteq accepted'[s] /\ OnDisk(s) \subseteq OnDisk(s)'
  <2>1. accepted' = accepted
    BY <1>5 DEF WriteFails
  <2>a. \A w \in Switch \ {v} : disk'[w] = disk[w]
    BY <1>5, WriteFailsMoves
  <2>2. s # v => disk'[s] = disk[s]
    BY <2>a
  <2>3. ASSUME s = v PROVE OnDisk(s) \subseteq OnDisk(s)'
    <3>1. PICK k \in 0 .. Len(snapshot[t][v]) :
              disk'[v] = disk[v] \o SubSeq(snapshot[t][v], 1, k)
      BY <1>5, WriteFailsMoves
    <3> DEFINE p == disk[v]
    <3> DEFINE b == SubSeq(snapshot[t][v], 1, k)
    <3>2. p \in Seq(Nat) /\ snapshot[t][v] \in Seq(Nat)
      BY Sequences
    <3>3. b \in Seq(Nat)
      BY <3>2
    <3>4. disk'[v] = p \o b
      BY <3>1
    <3> HIDE DEF b
    <3>5. Range(p \o b) = Range(p) \cup Range(b)
      BY <3>2, <3>3, ConcatHolds
    <3> QED  BY <2>3, <3>4, <3>5 DEF OnDisk
  <2> QED  BY <2>1, <2>2, <2>3 DEF OnDisk
<1> QED  BY <1>1, <1>2, <1>3, <1>4, <1>5, Moves

LEMMA ReadingStep ==
    TypeOK /\ Delivery /\ Reading /\ [Next]_vars => Reading'
<1> SUFFICES ASSUME TypeOK, Delivery, Reading, [Next]_vars,
                    ~overlapped', OneSwitch \/ faults' = 0, NEW t \in Caller
             PROVE  Owed(t)'
  BY DEF Reading, OneSwitch
<1>t. t \in Thread /\ of[t] \in Switch
  BY DEF Thread, TypeOK
\* If the call stands where it stood, the disk and the accepted only grew.
<1>g. \A s \in Switch : accepted[s] \subseteq accepted'[s] /\ OnDisk(s) \subseteq OnDisk(s)'
  BY Grows
<1>o. ASSUME ~overlapped, OneSwitch \/ faults = 0 PROVE Owed(t)
  BY <1>o DEF Reading
<1>s. ASSUME ~overlapped, OneSwitch \/ faults = 0,
             pc'[t] = pc[t], after'[t] = after[t], of'[t] = of[t], due'[t] = due[t],
             snapshot'[t] = snapshot[t]
      PROVE  Owed(t)'
  <2>1. Held(t, of[t])' = Held(t, of[t])
    BY <1>s DEF Held
  <2>2. OnDisk(of[t]) \subseteq OnDisk(of[t])' /\ accepted[of[t]] \subseteq accepted'[of'[t]]
    BY <1>g, <1>s, <1>t
  <2> QED  BY <1>o, <1>s, <2>1, <2>2 DEF Owed
\* Calls that begin, and calls that end.
<1>e. ASSUME pc'[t] \notin {"take", "drain", "read"} PROVE Owed(t)'
  BY <1>e DEF Owed
<1>1. CASE Wake
  <2>1. ~overlapped /\ (OneSwitch \/ faults = 0) /\ Flusher # t
    BY <1>1, BatchedLogAssumption DEF Wake, BatchedLogAssumption
  <2>2. /\ pc'[t] = pc[t] /\ after'[t] = after[t]
        /\ of' = of /\ due' = due /\ snapshot' = snapshot
    BY <1>1, <1>t, <2>1 DEF Wake, Goto, call, TypeOK
  <2> QED  BY <1>s, <2>1, <2>2
<1>2. ASSUME NEW u \in Caller, Call(u) \/ Finish(u) PROVE Owed(t)'
  <2>1. ~overlapped /\ (OneSwitch \/ faults = 0) /\ snapshot' = snapshot
    BY <1>2 DEF Call, AppendCheck, Load, Flush, Close, Finish, Enqueue, Read, Joined, JoinTimesOut
  <2>2. CASE u # t
    <3>1. pc'[t] = pc[t] /\ after'[t] = after[t] /\ of'[t] = of[t] /\ due'[t] = due[t]
      BY <1>2, <1>t, <2>2
         DEF Call, AppendCheck, Load, Flush, Close, Finish, Enqueue, Read, Joined, JoinTimesOut,
             Enter, Goto, call, TypeOK
    <3> QED  BY <1>s, <2>1, <3>1
  <2>3. CASE u = t
    <3>1. CASE AppendCheck(t) \/ Close(t) \/ Finish(t)
      <4>1. pc'[t] \in {"enqueue", "join", "idle", "closed"}
        BY <1>t, <3>1 DEF AppendCheck, Close, Finish, Enqueue, Read, Joined, JoinTimesOut,
                          Enter, Goto, TypeOK
      <4> QED  BY <1>e, <4>1
    <3>2. CASE Flush(t)
      <4>1. pc'[t] = "take" /\ after'[t] = "idle"
        BY <1>t, <3>2 DEF Flush, Goto, TypeOK
      <4> QED  BY <4>1 DEF Owed
    <3>3. CASE Load(t)
      <4>1. pc'[t] = "take" /\ due'[t] = accepted'[of'[t]]
        BY <1>t, <3>3 DEF Load, Enter, Goto, TypeOK
      <4> QED  BY <4>1 DEF Owed
    <3> QED  BY <1>2, <2>3, <3>1, <3>2, <3>3 DEF Call
  <2> QED  BY <2>2, <2>3
<1>3. ASSUME NEW u \in Thread, Drain(u) PROVE Owed(t)'
  <2>1. after' = after /\ of' = of /\ due' = due /\ accepted' = accepted
    BY <1>3 DEF Drain, Take, Write, WriteFails, Requeue, PutBack, call
  <2>2. ~overlapped
    BY <1>3 DEF Drain, Take, Write, WriteFails, Requeue, PutBack
  <2>3. OneSwitch \/ faults = 0
    <3>1. OneSwitch \/ faults' = 0
      OBVIOUS
    <3>2. faults' = 0 => faults = 0
      BY <1>3, WriteFailsMoves DEF Drain, Take, Write, Requeue, PutBack
    <3> QED  BY <3>1, <3>2
  <2>4. CASE u # t
    <3>1. pc'[t] = pc[t] /\ snapshot'[t] = snapshot[t]
      BY <1>3, <1>t, <2>4 DEF Drain, Take, Write, WriteFails, Requeue, PutBack, Goto, TypeOK
    <3> QED  BY <1>s, <2>1, <2>2, <2>3, <3>1
  <2>5. ASSUME Take(t) PROVE Owed(t)'
    <3>1. /\ pc[t] = "take" /\ snapshot'[t] = queue
          /\ pc'[t] = IF queue = Nothing THEN after[t] ELSE "drain"
          /\ \A w \in Thread \ {t} : ~Draining(w)
      BY <1>t, <2>5 DEF Take, Goto, SomeoneDrains, TypeOK
    <3>2. \A w \in Thread : snapshot[w] = Nothing
      BY <3>1 DEF Delivery, Empty, Draining
    <3>3. \A w \in Thread : Held(w, of[t]) = {}
      BY <1>t, <3>2, NoRecords DEF Held
    <3>4. accepted[of[t]] \subseteq OnDisk(of[t]) \cup Queued(of[t])
      BY <1>t, <2>3, <3>3 DEF Delivery, Somewhere
    <3>5. /\ Held(t, of[t])' = Queued(of[t]) /\ OnDisk(of[t])' = OnDisk(of[t])
          /\ queue = Nothing => Queued(of[t]) = {}
      BY <1>t, <2>1, <2>5, <3>1, NoRecords DEF Take, Held, Queued, OnDisk
    <3>6. after[t] = "read" => due[t] \subseteq accepted[of[t]]
      BY <1>o, <2>2, <2>3, <3>1 DEF Owed
    <3> QED  BY <2>1, <3>1, <3>4, <3>5, <3>6 DEF Owed
  <2>6. ASSUME NEW s \in Switch, Write(t, s) PROVE Owed(t)'
    <3>1. /\ pc[t] = "drain"
          /\ pc'[t] = IF snapshot'[t] = Nothing THEN after[t] ELSE "drain"
      BY <1>t, <2>6 DEF Write, Goto, TypeOK
    <3>2. OnDisk(of[t]) \cup Held(t, of[t]) \subseteq OnDisk(of[t])' \cup Held(t, of[t])'
      <4>1. CASE of[t] = s
        <5>1. OnDisk(s)' = OnDisk(s) \cup Held(t, s)
          BY <1>t, <2>6, WriteMoves
        <5>2. OnDisk(of[t])' = OnDisk(s)'
          BY <2>1, <4>1 DEF OnDisk
        <5> QED  BY <4>1, <5>1, <5>2
      <4>2. CASE of[t] # s
        <5>a. \A v \in Switch \ {s} : disk'[v] = disk[v] /\ snapshot'[t][v] = snapshot[t][v]
          BY <1>t, <2>6, WriteMoves
        <5>1. disk'[of[t]] = disk[of[t]] /\ snapshot'[t][of[t]] = snapshot[t][of[t]]
          BY <1>t, <4>2, <5>a
        <5> QED  BY <2>1, <5>1 DEF OnDisk, Held
      <4> QED  BY <4>1, <4>2
    <3>3. snapshot'[t] = Nothing => Held(t, of[t])' = {}
      BY <1>t, <2>1, NoRecords DEF Held
    <3>4. after[t] = "read" =>
              due[t] \subseteq accepted[of[t]] /\ due[t] \subseteq OnDisk(of[t]) \cup Held(t, of[t])
      BY <1>o, <2>2, <2>3, <3>1 DEF Owed
    <3> QED  BY <2>1, <3>1, <3>2, <3>3, <3>4 DEF Owed
  <2>7. ASSUME (\E s \in Switch : WriteFails(t, s)) \/ Requeue(t) PROVE Owed(t)'
    <3>1. pc'[t] \in {"requeue", "idle", "loop", "stopped"}
      BY <1>t, <2>7 DEF WriteFails, Requeue, PutBack, Raised, Goto, TypeOK
    <3> QED  BY <1>e, <3>1
  <2> QED  BY <1>3, <2>4, <2>5, <2>6, <2>7 DEF Drain
<1>4. CASE UNCHANGED vars
  BY <1>4, <1>s DEF vars
<1> QED  BY <1>1, <1>2, <1>3, <1>4 DEF Next


\* How the flusher and close() move.
LEMMA ClosingStep ==
    TypeOK /\ Delivery /\ Closing /\ [Next]_vars => Closing'
<1> SUFFICES ASSUME TypeOK, Delivery, Closing, [Next]_vars PROVE Closing'  OBVIOUS
<1>f. Flusher \in Thread /\ Caller \subseteq Thread /\ \A t \in Caller : t # Flusher
  BY BatchedLogAssumption DEF Thread, BatchedLogAssumption
<1>g. UNION {accepted[s] : s \in Switch} \subseteq UNION {accepted'[s] : s \in Switch}
  BY Grows
<1>h. Out \subseteq Out' \/ faults' # 0
  <2>1. CASE Aside \/ UNCHANGED vars
    BY <2>1, AsideMovesNothing DEF vars, Out, OnDisk, Held
  <2>2. ASSUME NEW t \in Caller, Enqueue(t) PROVE Out' = Out
    BY <2>2 DEF Enqueue, Out, OnDisk, Held
  <2>3. ASSUME NEW t \in Thread, Take(t) PROVE Out \subseteq Out'
    <3>1. /\ disk' = disk /\ snapshot[t] = Nothing
          /\ \A u \in Thread \ {t} : snapshot'[u] = snapshot[u]
      BY <2>3, TakeMoves DEF Delivery, Empty
    <3>2. \A s \in Switch : /\ OnDisk(s)' = OnDisk(s) /\ Held(t, s) = {}
                            /\ \A u \in Thread \ {t} : Held(u, s)' = Held(u, s)
      BY <3>1, NoRecords DEF OnDisk, Held
    <3> QED  BY <3>2 DEF Out
  <2>4. ASSUME NEW t \in Thread, NEW s \in Switch, Write(t, s) PROVE Out \subseteq Out'
    <3>1. /\ OnDisk(s)' = OnDisk(s) \cup Held(t, s)
          /\ \A u \in Thread \ {t} : snapshot'[u] = snapshot[u]
          /\ \A v \in Switch \ {s} : disk'[v] = disk[v] /\ snapshot'[t][v] = snapshot[t][v]
      BY <2>4, WriteMoves
    <3>2. \A v \in Switch \ {s} : OnDisk(v)' = OnDisk(v) /\ Held(t, v)' = Held(t, v)
      BY <3>1 DEF OnDisk, Held
    <3>3. \A u \in Thread \ {t} : \A v \in Switch : Held(u, v)' = Held(u, v)
      BY <3>1 DEF Held
    <3>4. ASSUME NEW r, NEW v \in Switch, r \in OnDisk(v) PROVE r \in OnDisk(v)'
      BY <3>1, <3>2, <3>4
    <3>5. ASSUME NEW r, NEW v \in Switch, NEW u \in Thread, r \in Held(u, v)
          PROVE  r \in OnDisk(v)' \/ r \in Held(u, v)'
      BY <3>1, <3>2, <3>3, <3>5
    <3> QED  BY <3>4, <3>5 DEF Out
  <2>5. ASSUME NEW t \in Thread, NEW s \in Switch, WriteFails(t, s) PROVE faults' # 0
    BY <2>5, WriteFailsMoves
  \* Nothing waits to be put back before an append has failed.
  <2>6. ASSUME NEW t \in Thread, Requeue(t) PROVE faults' # 0
    BY <2>6 DEF Requeue, PutBack, Closing
  <2> QED  BY <2>1, <2>2, <2>3, <2>4, <2>5, <2>6, Moves
<1>r. faults' = 0 => \A u \in Thread : pc'[u] # "requeue"
  <2> SUFFICES ASSUME faults' = 0, NEW u \in Thread, pc'[u] = "requeue" PROVE FALSE
    OBVIOUS
  <2>1. \E s \in Switch : WriteFails(u, s) \/ (pc[u] = "requeue" /\ UNCHANGED faults)
    <3>1. CASE Wake
      BY <1>f, <3>1, BatchedLogAssumption DEF Wake, Goto, TypeOK, BatchedLogAssumption
    <3>2. ASSUME NEW t \in Caller, Call(t) \/ Finish(t) PROVE pc[u] = "requeue" /\ UNCHANGED faults
      BY <1>f, <3>2
         DEF Call, AppendCheck, Load, Flush, Close, Finish, Enqueue, Read, Joined, JoinTimesOut,
             Enter, Goto, TypeOK
    <3>3. ASSUME NEW t \in Thread, Drain(t)
          PROVE  \E s \in Switch : WriteFails(u, s) \/ (pc[u] = "requeue" /\ UNCHANGED faults)
      <4>1. CASE \E s \in Switch : WriteFails(t, s)
        <5>1. faults' # 0
          BY <4>1, WriteFailsMoves
        <5> QED  BY <5>1
      <4>2. CASE Take(t) \/ Requeue(t) \/ \E s \in Switch : Write(t, s)
        <5>1. pc'[t] # "requeue" /\ (u # t => pc'[u] = pc[u]) /\ UNCHANGED faults
          BY <4>2 DEF Take, Write, Requeue, PutBack, Raised, Goto, TypeOK
        <5> QED  BY <5>1, BatchedLogAssumption DEF BatchedLogAssumption
      <4> QED  BY <3>3, <4>1, <4>2 DEF Drain
    <3>4. CASE UNCHANGED vars
      BY <3>4, BatchedLogAssumption DEF vars, BatchedLogAssumption
    <3> QED  BY <3>1, <3>2, <3>3, <3>4, BatchedLogAssumption DEF Next, BatchedLogAssumption
  <2>2. PICK s \in Switch : WriteFails(u, s) \/ (pc[u] = "requeue" /\ UNCHANGED faults)
    BY <2>1
  <2> QED  BY <2>2, WriteFailsMoves DEF Closing
\* The flusher.
<1>p. /\ pc'[Flusher] \in {"loop", "take", "drain", "requeue", "stopped"}
      /\ pc'[Flusher] \in {"take", "drain", "requeue"} => after'[Flusher] \in {"loop", "stopped"}
      /\ pc'[Flusher] = "stopped" => after'[Flusher] = "stopped"
      /\ after'[Flusher] = "stopped" => closed'
  <2>1. CASE Wake
    BY <1>f, <2>1 DEF Wake, Goto, TypeOK
  <2>2. ASSUME NEW t \in Caller, Call(t) \/ Finish(t)
        PROVE  pc'[Flusher] = pc[Flusher] /\ after'[Flusher] = after[Flusher] /\ (closed => closed')
    BY <1>f, <2>2
       DEF Call, AppendCheck, Load, Flush, Close, Finish, Enqueue, Read, Joined, JoinTimesOut,
           Enter, Goto, call, TypeOK
  <2>3. ASSUME NEW t \in Thread, Drain(t)
        PROVE  /\ after' = after /\ closed' = closed
               /\ \/ pc'[Flusher] = pc[Flusher]
                  \/ /\ pc[Flusher] \in {"take", "drain", "requeue"}
                     /\ pc'[Flusher] \in {after[Flusher], "drain", "requeue"}
    <3>1. after' = after /\ closed' = closed
      BY <2>3 DEF Drain, Take, Write, WriteFails, Requeue, PutBack
    <3>2. /\ pc[t] \in {"take", "drain", "requeue"}
          /\ pc'[t] \in {after[t], "drain", "requeue"} \/ pc'[t] = Raised(t)
      BY <2>3 DEF Drain, Take, Write, WriteFails, Requeue, PutBack, Goto, TypeOK
    <3>3. t # Flusher => pc'[Flusher] = pc[Flusher]
      BY <1>f, <2>3 DEF Drain, Take, Write, WriteFails, Requeue, PutBack, Goto, TypeOK
    <3>4. t = Flusher => Raised(t) = after[t]
      BY <3>2 DEF Raised, Closing
    <3> QED  BY <3>1, <3>2, <3>3, <3>4
  <2>4. CASE UNCHANGED vars
    BY <2>4 DEF vars, Closing
  <2> QED  BY <2>1, <2>2, <2>3, <2>4 DEF Next, Closing
\* Entering the flusher's last drain takes everything accepted in hand.
<1>l. ASSUME faults' = 0, pc'[Flusher] \in {"drain", "stopped"}, after'[Flusher] = "stopped"
      PROVE  \/ faults = 0 /\ pc[Flusher] \in {"drain", "stopped"} /\ after[Flusher] = "stopped"
             \/ UNION {accepted[s] : s \in Switch} \subseteq Out'
  <2>1. CASE Wake
    BY <1>f, <1>l, <2>1 DEF Wake, Goto, TypeOK
  <2>2. ASSUME NEW t \in Caller, Call(t) \/ Finish(t)
        PROVE  pc'[Flusher] = pc[Flusher] /\ after'[Flusher] = after[Flusher] /\ faults' = faults
    BY <1>f, <2>2
       DEF Call, AppendCheck, Load, Flush, Close, Finish, Enqueue, Read, Joined, JoinTimesOut,
           Enter, Goto, call, TypeOK
  <2>3. ASSUME NEW t \in Thread, Drain(t), t # Flusher
        PROVE  pc'[Flusher] = pc[Flusher] /\ after' = after /\ faults = 0
    <3>1. pc'[Flusher] = pc[Flusher] /\ after' = after
      BY <1>f, <2>3 DEF Drain, Take, Write, WriteFails, Requeue, PutBack, Goto, TypeOK
    <3>2. faults = 0
      BY <1>l, <2>3, WriteFailsMoves DEF Drain, Take, Write, Requeue, PutBack
    <3> QED  BY <3>1, <3>2
  <2>4. CASE Take(Flusher)
    <3>1. /\ faults = 0 /\ disk' = disk /\ accepted' = accepted /\ snapshot'[Flusher] = queue
          /\ \A u \in Thread \ {Flusher} : snapshot'[u] = snapshot[u]
      BY <1>f, <1>l, <2>4 DEF Take, TypeOK
    <3>2. snapshot[Flusher] = Nothing
      BY <1>f, <2>4 DEF Take, Delivery, Empty, Draining
    <3>3. \A s \in Switch : /\ OnDisk(s)' = OnDisk(s) /\ Held(Flusher, s) = {}
                            /\ Held(Flusher, s)' = Queued(s)
                            /\ \A u \in Thread \ {Flusher} : Held(u, s)' = Held(u, s)
      BY <3>1, <3>2, NoRecords DEF OnDisk, Held, Queued
    <3>4. ASSUME NEW s \in Switch, NEW r \in accepted[s] PROVE r \in Out'
      <4>1. Somewhere(r, s)
        BY <3>1 DEF Delivery
      <4>2. r \in OnDisk(s)' \/ \E u \in Thread : r \in Held(u, s)'
        BY <1>f, <3>3, <4>1 DEF Somewhere
      <4> QED  BY <4>2 DEF Out
    <3> QED  BY <3>4
  <2>5. CASE (\E s \in Switch : Write(Flusher, s)) \/ Requeue(Flusher)
    <3>1. pc[Flusher] \in {"drain", "requeue"} /\ after' = after /\ faults' = faults
      BY <2>5 DEF Write, Requeue, PutBack
    <3>2. pc[Flusher] # "requeue"
      BY <1>f, <1>l, <3>1 DEF Closing
    <3> QED  BY <1>l, <3>1, <3>2
  <2>6. ASSUME NEW s \in Switch, WriteFails(Flusher, s) PROVE FALSE
    BY <1>f, <1>l, <2>6, WriteFailsMoves
  <2>7. CASE UNCHANGED vars
    BY <1>l, <2>7 DEF vars
  <2> QED  BY <1>l, <2>1, <2>2, <2>3, <2>4, <2>5, <2>6, <2>7 DEF Next, Drain
\* The callers.
<1>c. ASSUME NEW t \in Caller, pc'[t] \in {"join", "closed"}
      PROVE  \/ /\ pc[t] \in {"join", "closed"} /\ closed /\ closed' /\ due'[t] = due[t]
                /\ pc'[t] = "closed" => pc[Flusher] = "stopped" /\ pc'[Flusher] = "stopped"
             \/ /\ ~closed /\ closed' /\ due'[t] = UNION {accepted[s] : s \in Switch}
                /\ pc'[t] = "join"
  <2>1. CASE Wake
    BY <1>c, <1>f, <2>1 DEF Wake, Goto, call, TypeOK, Closing
  <2>2. ASSUME NEW u \in Caller, Call(u) \/ Finish(u), u # t
        PROVE  /\ pc'[t] = pc[t] /\ due'[t] = due[t] /\ (closed => closed')
               /\ pc'[Flusher] = pc[Flusher]
    <3>1. pc'[t] = pc[t] /\ pc'[Flusher] = pc[Flusher]
      BY <1>f, <2>2
         DEF Call, AppendCheck, Load, Flush, Close, Finish, Enqueue, Read, Joined, JoinTimesOut,
             Enter, Goto, TypeOK
    <3>2. due'[t] = due[t]
      <4>1. CASE Call(u)
        BY <1>f, <2>2, <4>1 DEF Call, AppendCheck, Load, Flush, Close, Enter, call, TypeOK
      <4>2. CASE Finish(u)
        BY <4>2 DEF Finish, Enqueue, Read, Joined, JoinTimesOut, call
      <4> QED  BY <2>2, <4>1, <4>2
    <3>3. closed => closed'
      BY <2>2 DEF Call, AppendCheck, Load, Flush, Close, Finish, Enqueue, Read, Joined, JoinTimesOut
    <3> QED  BY <3>1, <3>2, <3>3
  <2>3. CASE Close(t)
    BY <1>c, <1>f, <2>3 DEF Close, Goto, TypeOK
  <2>4. CASE Joined(t)
    BY <1>c, <1>f, <2>4 DEF Joined, Goto, call, TypeOK, Closing
  <2>5. ASSUME AppendCheck(t) \/ Load(t) \/ Flush(t) \/ Enqueue(t) \/ Read(t) \/ JoinTimesOut(t)
        PROVE  FALSE
    BY <1>c, <1>f, <2>5 DEF AppendCheck, Load, Flush, Enqueue, Read, JoinTimesOut, Enter, Goto, TypeOK
  <2>6. ASSUME NEW u \in Thread, Drain(u)
        PROVE  /\ pc'[t] = pc[t] /\ due'[t] = due[t] /\ closed' = closed
               /\ pc[Flusher] = "stopped" => pc'[Flusher] = "stopped"
    <3>1. due' = due /\ closed' = closed
      BY <2>6 DEF Drain, Take, Write, WriteFails, Requeue, PutBack, call
    <3>2. /\ pc[u] \in {"take", "drain", "requeue"}
          /\ pc'[u] \in {after[u], "drain", "requeue", Raised(u)}
          /\ \A w \in Thread \ {u} : pc'[w] = pc[w]
      BY <2>6 DEF Drain, Take, Write, WriteFails, Requeue, PutBack, Goto, TypeOK
    <3>3. u # t
      BY <1>c, <1>f, <3>2 DEF Raised, TypeOK
    <3> QED  BY <1>f, <3>1, <3>2, <3>3
  <2>7. CASE UNCHANGED vars
    BY <1>c, <2>7 DEF vars, Closing
  <2>8. ASSUME pc'[t] = pc[t], due'[t] = due[t], closed => closed',
               pc[Flusher] = "stopped" => pc'[Flusher] = "stopped"
        PROVE  /\ pc[t] \in {"join", "closed"} /\ closed /\ closed' /\ due'[t] = due[t]
               /\ pc'[t] = "closed" => pc[Flusher] = "stopped" /\ pc'[Flusher] = "stopped"
    BY <1>c, <2>8 DEF Closing
  <2> QED
    BY <1>f, <2>1, <2>2, <2>3, <2>4, <2>5, <2>6, <2>7, <2>8 DEF Next, Call, Finish
<1>d. ASSUME NEW t \in Caller, pc'[t] \in {"join", "closed"}
      PROVE  /\ closed'
             /\ due'[t] \subseteq UNION {accepted'[s] : s \in Switch}
             /\ pc'[t] = "closed" => pc'[Flusher] = "stopped"
             /\ faults' = 0 /\ pc'[Flusher] \in {"drain", "stopped"} /\ after'[Flusher] = "stopped"
                  => due'[t] \subseteq Out'
  <2>1. CASE /\ pc[t] \in {"join", "closed"} /\ closed /\ closed' /\ due'[t] = due[t]
             /\ pc'[t] = "closed" => pc[Flusher] = "stopped" /\ pc'[Flusher] = "stopped"
    <3>1. due[t] \subseteq UNION {accepted[s] : s \in Switch}
      BY <2>1 DEF Closing
    <3>2. faults = 0 /\ pc[Flusher] \in {"drain", "stopped"} /\ after[Flusher] = "stopped"
            => due[t] \subseteq Out
      BY <2>1 DEF Closing
    <3> QED  BY <1>g, <1>h, <1>l, <2>1, <3>1, <3>2
  <2>2. CASE /\ ~closed /\ closed' /\ due'[t] = UNION {accepted[s] : s \in Switch}
             /\ pc'[t] = "join"
    <3>1. after[Flusher] # "stopped"
      BY <2>2 DEF Closing
    <3> QED  BY <1>g, <1>l, <2>2, <3>1
  <2> QED  BY <1>c, <1>d, <2>1, <2>2
<1> QED  BY <1>d, <1>p, <1>r DEF Closing

LEMMA FlushPointsInit == Init => Reading /\ Closing
<1> SUFFICES ASSUME Init PROVE Reading /\ Closing  OBVIOUS
<1>1. /\ pc[Flusher] = "loop" /\ after[Flusher] = "idle"
      /\ \A t \in Caller : pc[t] = "idle"
      /\ \A u \in Thread : pc[u] # "requeue"
  BY BatchedLogAssumption DEF Init, Thread, BatchedLogAssumption
<1> QED  BY <1>1 DEF Reading, Owed, Closing

\* In a storage object that serves one switch, a load_records that no other
\* drain overlaps reads everything accepted before it was called, and a close()
\* that waited for the flusher leaves nothing accepted before it unwritten but
\* what another caller's drain has in hand.
THEOREM FlushPoints ==
    ASSUME OneSwitch
    PROVE  Spec => []FlushPointsHold
<1> DEFINE Inv == TypeOK /\ Delivery /\ Reading /\ Closing
<1>1. Init => Inv
  BY TypeInit, DeliveryInit, FlushPointsInit
<1>2. Inv /\ [Next]_vars => Inv'
  BY TypeStep, DeliveryStep, ReadingStep, ClosingStep
<1>3. OneSwitch /\ Inv => FlushPointsHold
  <2> SUFFICES ASSUME OneSwitch, Inv PROVE FlushPointsHold  OBVIOUS
  <2>1. ReadSeesAccepted
    BY DEF Reading, Owed, ReadSeesAccepted
  <2>2. ASSUME NEW t \in Caller, pc[t] = "closed", faults = 0
        PROVE  due[t] \subseteq UNION {OnDisk(s) \cup UNION {Held(u, s) : u \in Caller} : s \in Switch}
    <3>1. pc[Flusher] = "stopped" /\ due[t] \subseteq Out
      BY <2>2 DEF Closing
    <3>2. \A s \in Switch : Held(Flusher, s) = {}
      BY <3>1, NoRecords DEF Delivery, Empty, Draining, Thread, Held
    <3> QED  BY <3>1, <3>2 DEF Out, Thread
  <2> QED  BY <2>1, <2>2 DEF CloseDrains, FlushPointsHold
<1>4. OneSwitch /\ []Inv => []FlushPointsHold
  BY <1>3, PTL
<1>5. Spec => []Inv
  BY <1>1, <1>2, PTL DEF Spec
<1> QED  BY <1>4, <1>5

=============================================================================
