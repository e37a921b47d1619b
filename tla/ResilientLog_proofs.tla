------------------------- MODULE ResilientLog_proofs -------------------------
(***************************************************************************)
(* Theorems about ResilientLog, for any switches, capacities, probe        *)
(* intervals and failures: types and what a reader is owed, for any number *)
(* of writers; and, with one writer, that a healthy storage has drained    *)
(* its fallback, that evictions are counted, and that primary, fallback    *)
(* and recovery together are the one log OutcomeLog promises.              *)
(***************************************************************************)
EXTENDS ResilientLog, SequenceTheorems, FiniteSetTheorems, TLAPS

\* One thread appends and drains; any number of threads read.
OneWriter == \A t, u \in Writer : t = u

\* A record is in hand whenever one is about to be stored.
InHand == \A t \in Caller :
    pc[t] \in {"try", "degrade", "measure", "spill", "move"} => hand[t] \in Record

(***************************************************************************)
(* Any number of writers.                                                  *)
(***************************************************************************)
\* What a load_records in progress has read or still has to read: nothing it
\* is owed left the fallback unless it was evicted, or the load is stale.
StillThere(t) ==
    /\ pc[t] = "rest" /\ ~stale[t] =>
           owed[t] \ dropped \subseteq ToSet(seen[t]) \cup ToSet(fallback[of[t]])
    /\ pc[t] = "answer" /\ ~stale[t] => owed[t] \ dropped \subseteq ToSet(seen[t])
Answering == \A t \in Caller : StillThere(t)

(***************************************************************************)
(* One writer.                                                             *)
(***************************************************************************)
\* Who does not write only reads.
Reading(t) == pc[t] \in {"idle", "rest", "answer"}

\* What the writer's place in an append or a recovery says about the mode, the
\* tracked switches and the buffers.
Episode(t) ==
    /\ pc[t] \in {"try", "degrade"} => ~degraded
    /\ pc[t] \in {"measure", "spill", "count", "head", "move", "pop", "healthy"} => degraded
    /\ pc[t] \in {"try", "degrade", "measure", "spill", "count"} => of[t] \in tracked
    /\ pc[t] \in {"head", "move", "pop"} =>
           todo[t] \subseteq tracked /\ \A s \in tracked \ todo[t] : fallback[s] = <<>>
    /\ pc[t] \in {"move", "pop"} =>
           of[t] \in todo[t] /\ fallback[of[t]] # <<>> /\ hand[t] = Head(fallback[of[t]])
    /\ pc[t] = "healthy" => fallback = Nothing

\* A healthy log has nothing in its fallback, and a buffer that holds anything
\* belongs to a switch the next recovery will visit.
Drainable ==
    /\ \A t \in Caller \ Writer : Reading(t)
    /\ \A t \in Writer : Episode(t)
    /\ ~degraded => fallback = Nothing
    /\ \A s \in Switch \ tracked : fallback[s] = <<>>

\* A record that was given a number is in one buffer, once, or gone from all.
Apart ==
    /\ \A s \in Switch : /\ ToSet(fallback[s]) \subseteq 1 .. next - 1
                         /\ ToSet(primary[s]) \subseteq 1 .. next - 1
                         /\ IsInjective(fallback[s])
                         /\ ToSet(fallback[s]) \cap dropped = {}
                         /\ \A v \in Switch \ {s} : ToSet(fallback[s]) \cap ToSet(fallback[v]) = {}
    /\ dropped \subseteq 1 .. next - 1

\* The record being appended is in no buffer yet; the primary has it already
\* only when its append raised after writing, and then nothing is buffered.
Fresh(t) ==
    pc[t] \in {"try", "degrade", "measure", "spill"} =>
        /\ hand[t] \in 1 .. next - 1
        /\ \A s \in Switch : hand[t] \notin ToSet(fallback[s])
        /\ hand[t] \notin dropped
        /\ \/ hand[t] \notin ToSet(primary[of[t]])
           \/ /\ pc[t] # "try" /\ fallback = Nothing
              /\ primary[of[t]] # <<>> /\ Last(primary[of[t]]) = hand[t]

\* The counter is behind only between an eviction and its count.
Counting(t) ==
    /\ pc[t] = "spill" => before[t] = Len(fallback[of[t]])
    /\ Cardinality(dropped) =
           evictions + IF pc[t] = "count" /\ Len(fallback[of[t]]) <= before[t] THEN 1 ELSE 0

Tally == Apart /\ \A t \in Writer : Fresh(t) /\ Counting(t)
-----------------------------------------------------------------------------
(***************************************************************************)
(* Sequences: what they hold after an append, without their head, and one  *)
(* after the other.                                                        *)
(***************************************************************************)
LEMMA EmptyHolds == ToSet(<<>>) = {} /\ IsInjective(<<>>) /\ \A s \in Switch : Nothing[s] = <<>>
  BY DEF ToSet, IsInjective, Nothing

LEMMA AppendHolds ==
    ASSUME NEW S, NEW q \in Seq(S), NEW e \in S
    PROVE  /\ Append(q, e) \in Seq(S) /\ Len(Append(q, e)) = Len(q) + 1
           /\ ToSet(Append(q, e)) = ToSet(q) \cup {e}
           /\ IsInjective(q) /\ e \notin ToSet(q) => IsInjective(Append(q, e))
<1> DEFINE c == Append(q, e)
<1>1. /\ c \in Seq(S) /\ Len(c) = Len(q) + 1 /\ DOMAIN c = 1 .. Len(q) + 1
      /\ DOMAIN q = 1 .. Len(q) /\ Len(q) \in Nat
      /\ c[Len(q) + 1] = e /\ \A i \in 1 .. Len(q) : c[i] = q[i]
  OBVIOUS
<1> HIDE DEF c
<1>2. \A i \in DOMAIN c : i \in DOMAIN q \/ i = Len(q) + 1
  BY <1>1
<1>3. ToSet(c) = ToSet(q) \cup {e}
  BY <1>1, <1>2 DEF ToSet
<1>4. IsInjective(q) /\ e \notin ToSet(q) => IsInjective(c)
  BY <1>1, <1>2 DEF IsInjective, ToSet
<1> QED  BY <1>1, <1>3, <1>4 DEF c

LEMMA TailHolds ==
    ASSUME NEW S, NEW q \in Seq(S), q # <<>>
    PROVE  /\ Head(q) \in S /\ Head(q) \in ToSet(q)
           /\ Tail(q) \in Seq(S) /\ Len(Tail(q)) = Len(q) - 1 /\ Len(q) \in Nat \ {0}
           /\ ToSet(q) = {Head(q)} \cup ToSet(Tail(q))
           /\ IsInjective(q) => IsInjective(Tail(q)) /\ Head(q) \notin ToSet(Tail(q))
<1> DEFINE c == Tail(q)
<1>1. /\ c \in Seq(S) /\ Len(q) \in Nat \ {0} /\ Len(c) = Len(q) - 1
      /\ DOMAIN q = 1 .. Len(q) /\ Head(q) = q[1] /\ Head(q) \in S
  BY EmptySeq, HeadTailProperties
<1>2. DOMAIN c = 1 .. Len(q) - 1 /\ \A i \in DOMAIN c : c[i] = q[i + 1] /\ i + 1 \in DOMAIN q
  BY <1>1
<1> HIDE DEF c
<1>3. \A j \in DOMAIN q : j = 1 \/ (j - 1 \in DOMAIN c /\ q[j] = c[j - 1])
  BY <1>1, <1>2
<1>4. 1 \in DOMAIN q /\ Head(q) \in ToSet(q)
  BY <1>1 DEF ToSet
<1>5. ToSet(q) = {Head(q)} \cup ToSet(c)
  BY <1>1, <1>2, <1>3, <1>4 DEF ToSet
<1>6. ASSUME IsInjective(q) PROVE IsInjective(c) /\ Head(q) \notin ToSet(c)
  <2>1. ASSUME NEW i \in DOMAIN c, NEW j \in DOMAIN c, c[i] = c[j] PROVE i = j
    <3>1. i + 1 = j + 1
      BY <1>2, <1>6, <2>1 DEF IsInjective
    <3> QED  BY <1>2, <3>1
  <2>2. ASSUME NEW i \in DOMAIN c, c[i] = Head(q) PROVE FALSE
    <3>1. i + 1 = 1
      BY <1>1, <1>2, <1>4, <1>6, <2>2 DEF IsInjective
    <3> QED  BY <1>2, <3>1
  <2> QED  BY <2>1, <2>2 DEF IsInjective, ToSet
<1> QED  BY <1>1, <1>4, <1>5, <1>6 DEF c

\* Where the records of two sequences lie in their concatenation.
LEMMA ConcatAt ==
    ASSUME NEW S, NEW p \in Seq(S), NEW q \in Seq(S)
    PROVE  /\ p \o q \in Seq(S) /\ Len(p \o q) = Len(p) + Len(q)
           /\ Len(p) \in Nat /\ Len(q) \in Nat
           /\ DOMAIN (p \o q) = 1 .. Len(p) + Len(q)
           /\ DOMAIN p = 1 .. Len(p) /\ DOMAIN q = 1 .. Len(q)
           /\ \A i \in 1 .. Len(p) : (p \o q)[i] = p[i]
           /\ \A i \in 1 .. Len(q) : (p \o q)[Len(p) + i] = q[i] /\ Len(p) + i \in 1 .. Len(p) + Len(q)
           /\ \A i \in 1 .. Len(p) + Len(q) :
                  i \notin 1 .. Len(p) => i - Len(p) \in 1 .. Len(q) /\ (p \o q)[i] = q[i - Len(p)]
  OBVIOUS

LEMMA ConcatHolds ==
    ASSUME NEW S, NEW p \in Seq(S), NEW q \in Seq(S)
    PROVE  p \o q \in Seq(S) /\ ToSet(p \o q) = ToSet(p) \cup ToSet(q)
<1> DEFINE c == p \o q
<1>1. /\ c \in Seq(S)
      /\ Len(p) \in Nat /\ Len(q) \in Nat
      /\ DOMAIN c = 1 .. Len(p) + Len(q)
      /\ DOMAIN p = 1 .. Len(p) /\ DOMAIN q = 1 .. Len(q)
      /\ \A i \in 1 .. Len(p) : c[i] = p[i]
      /\ \A i \in 1 .. Len(q) : c[Len(p) + i] = q[i] /\ Len(p) + i \in 1 .. Len(p) + Len(q)
      /\ \A i \in 1 .. Len(p) + Len(q) :
             i \notin 1 .. Len(p) => i - Len(p) \in 1 .. Len(q) /\ c[i] = q[i - Len(p)]
  BY ConcatAt
<1> HIDE DEF c
<1>2. ToSet(c) \subseteq ToSet(p) \cup ToSet(q)
  BY <1>1 DEF ToSet
<1>3. ToSet(p) \subseteq ToSet(c)
  BY <1>1 DEF ToSet
<1>4. ToSet(q) \subseteq ToSet(c)
  BY <1>1 DEF ToSet
<1> QED  BY <1>1, <1>2, <1>3, <1>4 DEF c

\* Every set of switches that is not empty has a first one.
LEMMA CurrentIsToDo ==
    ASSUME NEW t \in Caller, todo[t] \subseteq Switch, todo[t] # {}
    PROVE  Current(t) \in todo[t]
<1>1. todo[t] \subseteq Nat /\ IsFiniteSet(todo[t])
  BY FS_Subset, ResilientAssumption DEF ResilientAssumption
<1> DEFINE S == todo[t]
<1> DEFINE upTo(x) == {r \in S : r <= x}
<1>2. IsWellFoundedOn(StrictSubsetOrdering(S), SUBSET S)
  BY <1>1, FS_FiniteSubsetsOfFinite, FS_StrictSubsetOrderingWellFounded
<1>3. PICK x \in S : \A y \in S : ~ (<<upTo(y), upTo(x)>> \in StrictSubsetOrdering(S))
  <2> DEFINE T == {upTo(x) : x \in S}
  <2>1. T \subseteq SUBSET S /\ T # {}
    OBVIOUS
  <2> HIDE DEF T
  <2>2. \E m \in T : \A k \in T : ~ (<<k, m>> \in StrictSubsetOrdering(S))
    BY <1>2, <2>1, WFMin
  <2> QED  BY <2>2 DEF T
<1>4. ASSUME NEW y \in S PROVE x <= y
  <2> SUFFICES ASSUME ~(x <= y) PROVE FALSE
    OBVIOUS
  <2>1. y \in Nat /\ x \in Nat /\ y <= x
    BY <1>1
  <2>2. upTo(y) \subseteq upTo(x)
    BY <1>1, <2>1
  <2>3. x \in upTo(x) /\ x \notin upTo(y)
    BY <2>1
  <2>4. <<upTo(y), upTo(x)>> \in StrictSubsetOrdering(S)
    BY <2>2, <2>3 DEF StrictSubsetOrdering
  <2> QED  BY <1>3, <2>4
<1> QED  BY <1>4 DEF Current
-----------------------------------------------------------------------------
(***************************************************************************)
(* Type correctness.                                                       *)
(***************************************************************************)
LEMMA TypeInit == Init => TypeOK /\ InHand
<1> SUFFICES ASSUME Init PROVE TypeOK /\ InHand  OBVIOUS
<1>1. Nothing \in [Switch -> Seq(Record)]
  BY DEF Nothing
<1>2. \A s \in Switch : Len(Nothing[s]) = 0
  BY DEF Nothing
<1>3. /\ 0 \in Nat /\ sinceProbe \in 0 .. ProbeEvery - 1 /\ 0 <= Capacity
      /\ next \in 1 .. MaxRecords + 1 /\ faults \in 0 .. MaxFaults
  BY ResilientAssumption DEF ResilientAssumption, Init
<1>4. (CHOOSE s \in Switch : TRUE) \in Switch
  BY ResilientAssumption DEF ResilientAssumption
<1>5. <<>> \in Seq(Record)
  OBVIOUS
<1> QED  BY <1>1, <1>2, <1>3, <1>4, <1>5 DEF Init, TypeOK, Label, InHand

\* A record more or less in one buffer.
LEMMA StoredType ==
    ASSUME TypeOK, NEW t \in Caller, hand[t] \in Record, Stored(t)
    PROVE  /\ primary' \in [Switch -> Seq(Record)]
           /\ primary'[of[t]] = Append(primary[of[t]], hand[t])
           /\ \A s \in Switch \ {of[t]} : primary'[s] = primary[s]
<1>1. Append(primary[of[t]], hand[t]) \in Seq(Record)
  BY AppendHolds DEF TypeOK
<1> QED  BY <1>1 DEF Stored, TypeOK

LEMMA BoundedType ==
    ASSUME TypeOK, NEW s \in Switch, NEW r \in Record
    PROVE  /\ Bounded(s, r) \in Seq(Record) /\ Len(Bounded(s, r)) <= Capacity
           /\ Full(s) => fallback[s] # <<>> /\ Len(Bounded(s, r)) = Len(fallback[s])
           /\ ~Full(s) => Len(Bounded(s, r)) = Len(fallback[s]) + 1
<1>1. fallback[s] \in Seq(Record) /\ Len(fallback[s]) \in Nat /\ Len(fallback[s]) <= Capacity
      /\ Capacity \in Nat \ {0}
  BY ResilientAssumption DEF ResilientAssumption, TypeOK
<1>2. CASE Full(s)
  <2>1. fallback[s] # <<>>
    BY <1>1, <1>2 DEF Full
  <2>2. Tail(fallback[s]) \in Seq(Record) /\ Len(Tail(fallback[s])) = Len(fallback[s]) - 1
    BY <1>1, <2>1, TailHolds
  <2> QED  BY <1>1, <1>2, <2>1, <2>2, AppendHolds DEF Full, Bounded
<1>3. CASE ~Full(s)
  BY <1>1, <1>3, AppendHolds DEF Full, Bounded
<1> QED  BY <1>2, <1>3

LEMMA ModeAfter ==
    ASSUME NEW t \in Caller, Drained(t) \/ Healthy(t)
    PROVE  \/ sinceProbe' = sinceProbe /\ degraded' = degraded
           \/ sinceProbe' = 0 /\ degraded' = FALSE
  BY DEF Drained, Healthy, mode

LEMMA TypeStep == TypeOK /\ InHand /\ [Next]_vars => TypeOK' /\ InHand'
<1> SUFFICES ASSUME TypeOK, InHand, [Next]_vars PROVE TypeOK' /\ InHand'  OBVIOUS
<1>c. Capacity \in Nat /\ ProbeEvery \in Nat \ {0} /\ MaxRecords \in Nat /\ MaxFaults \in Nat
  BY ResilientAssumption DEF ResilientAssumption
<1> USE DEF TypeOK, InHand, Label, Goto, store, mode, call, local, reading, bounds
<1>1. ASSUME NEW t \in Caller, NEW s \in Switch, AppendBegin(t, s) PROVE TypeOK' /\ InHand'
  <2>1. next \in Record /\ next + 1 \in 1 .. MaxRecords + 1
    BY <1>1, <1>c DEF AppendBegin, AppendTracking, Record
  <2>2. tracked \cup {s} \subseteq Switch
    OBVIOUS
  <2> QED  BY <1>1, <2>1, <2>2 DEF AppendBegin, AppendTracking
<1>2. ASSUME NEW t \in Caller, PrimaryTakes(t) PROVE TypeOK' /\ InHand'
  <2>1. primary' \in [Switch -> Seq(Record)]
    BY <1>2, StoredType DEF PrimaryTakes
  <2> QED  BY <1>2, <2>1 DEF PrimaryTakes
<1>3. ASSUME NEW t \in Caller, PrimaryRaises(t) \/ MoveRaises(t) PROVE TypeOK' /\ InHand'
  <2>1. primary' \in [Switch -> Seq(Record)]
    BY <1>3, StoredType DEF PrimaryRaises, MoveRaises, RaiseFrom
  <2>2. faults' \in 0 .. MaxFaults
    BY <1>3, <1>c DEF PrimaryRaises, MoveRaises, RaiseFrom, Raise
  <2> QED  BY <1>3, <2>1, <2>2 DEF PrimaryRaises, MoveRaises, RaiseFrom
<1>4. ASSUME NEW t \in Caller, EnterDegraded(t) PROVE TypeOK' /\ InHand'
  BY <1>4, <1>c DEF EnterDegraded
<1>5. ASSUME NEW t \in Caller, Measure(t) PROVE TypeOK' /\ InHand'
  <2>1. Len(fallback[of[t]]) \in Nat
    OBVIOUS
  <2> QED  BY <1>5, <2>1 DEF Measure
<1>6. ASSUME NEW t \in Caller, Spill(t) PROVE TypeOK' /\ InHand'
  <2>1. of[t] \in Switch /\ hand[t] \in Record
    BY <1>6 DEF Spill
  <2>2. Bounded(of[t], hand[t]) \in Seq(Record) /\ Len(Bounded(of[t], hand[t])) <= Capacity
    BY <2>1, BoundedType
  <2>3. fallback' \in [Switch -> Seq(Record)] /\ \A s \in Switch : Len(fallback'[s]) <= Capacity
    BY <1>6, <2>1, <2>2 DEF Spill
  <2>4. dropped' \subseteq Record
    <3>1. Full(of[t]) => Head(fallback[of[t]]) \in Record
      BY <2>1, BoundedType, TailHolds
    <3> QED  BY <1>6, <3>1 DEF Spill
  <2> QED  BY <1>6, <2>3, <2>4 DEF Spill
<1>7. ASSUME NEW t \in Caller, CountSpilled(t) PROVE TypeOK' /\ InHand'
  <2>1. sinceProbe' \in 0 .. ProbeEvery - 1 /\ evictions' \in Nat
    BY <1>7, <1>c DEF CountSpilled, CountWhen, ProbeDue
  <2> QED  BY <1>7, <2>1 DEF CountSpilled, CountWhen
<1>8. ASSUME NEW t \in Caller, Drain(t) PROVE TypeOK' /\ InHand'
  BY <1>8 DEF Drain
<1>9. ASSUME NEW t \in Caller, SwitchDone(t) PROVE TypeOK' /\ InHand'
  BY <1>9 DEF SwitchDone
<1>10. ASSUME NEW t \in Caller, TakeHead(t) PROVE TypeOK' /\ InHand'
  <2>1. Current(t) \in Switch
    BY <1>10, CurrentIsToDo DEF TakeHead
  <2>2. Head(fallback[Current(t)]) \in Record
    BY <1>10, <2>1, TailHolds DEF TakeHead
  <2> QED  BY <1>10, <2>1, <2>2 DEF TakeHead
<1>11. ASSUME NEW t \in Caller, Move(t) PROVE TypeOK' /\ InHand'
  <2>1. primary' \in [Switch -> Seq(Record)]
    BY <1>11, StoredType DEF Move
  <2> QED  BY <1>11, <2>1 DEF Move
<1>12. ASSUME NEW t \in Caller, Pop(t) PROVE TypeOK' /\ InHand'
  <2> DEFINE rest == IF fallback[of[t]] = <<>> THEN <<>> ELSE Tail(fallback[of[t]])
  <2>1. rest \in Seq(Record) /\ Len(rest) <= Capacity
    BY <1>c, TailHolds
  <2>2. fallback' = [fallback EXCEPT ![of[t]] = rest]
    BY <1>12 DEF Pop, PopLeaves
  <2> HIDE DEF rest
  <2>3. fallback' \in [Switch -> Seq(Record)] /\ \A s \in Switch : Len(fallback'[s]) <= Capacity
    BY <2>1, <2>2
  <2>4. stale' \in [Caller -> BOOLEAN]
    BY <1>12 DEF Pop, PopLeaves
  <2> QED  BY <1>12, <2>3, <2>4 DEF Pop, PopLeaves
<1>13. ASSUME NEW t \in Caller, Drained(t) \/ Healthy(t) PROVE TypeOK' /\ InHand'
  <2>1. sinceProbe' \in 0 .. ProbeEvery - 1 /\ degraded' \in BOOLEAN
    <3>1. \/ sinceProbe' = sinceProbe /\ degraded' = degraded
          \/ sinceProbe' = 0 /\ degraded' = FALSE
      BY <1>13, ModeAfter
    <3>2. 0 \in 0 .. ProbeEvery - 1
      BY <1>c
    <3> QED  BY <3>1, <3>2
  <2>2. pc'[t] \in {"healthy", "idle"} /\ pc' = [pc EXCEPT ![t] = pc'[t]]
    BY <1>13 DEF Drained, Healthy
  <2>3. UNCHANGED <<store, evictions, tracked, call, local, reading, dropped, bounds>>
    BY <1>13 DEF Drained, Healthy
  <2> QED  BY <2>1, <2>2, <2>3
<1>14. ASSUME NEW t \in Caller, NEW s \in Switch, LoadPrimary(t, s) \/ LoadPrimaryRaises(t, s)
       PROVE  TypeOK' /\ InHand'
  <2>1. ToSet(primary[s]) \subseteq Record /\ ToSet(fallback[s]) \subseteq Record
    BY DEF ToSet
  <2>2. PICK part \in Seq(Record) : LoadFrom(t, s, part)
    <3>1. primary[s] \in Seq(Record) /\ <<>> \in Seq(Record)
      OBVIOUS
    <3>2. LoadFrom(t, s, primary[s]) \/ LoadFrom(t, s, <<>>)
      BY <1>14, Zenon DEF LoadPrimary, LoadPrimaryRaises
    <3> QED  BY <3>1, <3>2, Zenon
  <2>3. owed' \in [Caller -> SUBSET Record]
    <3>1. \E x \in SUBSET Record : Owe(t, x)
      <4>1. ToSet(primary[s]) \cup ToSet(fallback[s]) \in SUBSET Record /\ ToSet(fallback[s]) \in SUBSET Record
        BY <2>1
      <4> QED  BY <1>14, <4>1, Zenon DEF LoadPrimary, LoadPrimaryRaises
    <3> QED  BY <3>1 DEF Owe
  <2>4. faults' \in 0 .. MaxFaults
    BY <1>14, <1>c DEF LoadPrimary, LoadPrimaryRaises, Raise
  <2>5. stale' \in [Caller -> BOOLEAN] /\ seen' \in [Caller -> Seq(Record)] /\ of' \in [Caller -> Switch]
    BY <2>2 DEF LoadFrom, Doubled
  <2>6. /\ pc' = [pc EXCEPT ![t] = "rest"]
        /\ UNCHANGED <<store, mode, evictions, tracked, hand, local, dropped, next>>
    BY <2>2 DEF LoadFrom
  <2> QED  BY <2>3, <2>4, <2>5, <2>6
<1>15. ASSUME NEW t \in Caller, LoadFallback(t) PROVE TypeOK' /\ InHand'
  <2>1. seen[t] \o fallback[of[t]] \in Seq(Record)
    BY ConcatHolds
  <2> QED  BY <1>15, <2>1 DEF LoadFallback
<1>16. ASSUME NEW t \in Caller, Answer(t) PROVE TypeOK' /\ InHand'
  BY <1>16 DEF Answer
<1>17. CASE UNCHANGED vars
  BY <1>17 DEF vars
<1> QED
  BY <1>1, <1>2, <1>3, <1>4, <1>5, <1>6, <1>7, <1>8, <1>9, <1>10, <1>11, <1>12, <1>13, <1>14,
     <1>15, <1>16, <1>17 DEF Next, AppendStep, RecoverStep, LoadStep

\* Every variable keeps its type, and a record is in hand when one is stored,
\* for any number of writers.
THEOREM TypeCorrect == Spec => []TypeOK
<1>1. Init => TypeOK /\ InHand
  BY TypeInit
<1>2. (TypeOK /\ InHand) /\ [Next]_vars => (TypeOK /\ InHand)'
  BY TypeStep
<1> QED  BY <1>1, <1>2, PTL DEF Spec

-----------------------------------------------------------------------------
(***************************************************************************)
(* What a reader is owed.                                                  *)
(***************************************************************************)
\* The fallback loses a record to an eviction or to a recovery's Pop, which
\* marks every load in progress.
LEMMA AnsweringStep == TypeOK /\ InHand /\ Answering /\ [Next]_vars => Answering'
<1> SUFFICES ASSUME TypeOK, InHand, Answering, [Next]_vars, NEW t \in Caller
             PROVE  StillThere(t)'
  BY DEF Answering
<1>o. StillThere(t)
  BY DEF Answering
\* A step that leaves t's load where it is, and takes nothing out of the
\* fallback that it does not put in dropped.
<1>s. ASSUME UNCHANGED <<of[t], seen[t], owed[t]>>,
             stale[t] => stale'[t], dropped \subseteq dropped',
             pc'[t] = pc[t] \/ pc'[t] \notin {"rest", "answer"},
             stale'[t] \/ \A s \in Switch : ToSet(fallback[s]) \subseteq ToSet(fallback'[s]) \cup dropped'
      PROVE  StillThere(t)'
  <2>1. of[t] \in Switch
    BY DEF TypeOK
  <2> QED  BY <1>o, <1>s, <2>1 DEF StillThere
<1>1. ASSUME NEW u \in Caller, NEW s \in Switch, AppendBegin(u, s) PROVE StillThere(t)'
  <2>1. UNCHANGED <<fallback, seen, owed, stale, dropped>>
    BY <1>1 DEF AppendBegin, AppendTracking, store, reading
  <2>2. u # t => UNCHANGED <<pc[t], of[t]>>
    BY <1>1 DEF AppendBegin, AppendTracking, Goto, TypeOK
  <2>3. u = t => pc'[t] \notin {"rest", "answer"}
    BY <1>1 DEF AppendBegin, AppendTracking, Goto, TypeOK
  <2>4. CASE u = t
    BY <2>3, <2>4 DEF StillThere
  <2>5. CASE u # t
    BY <1>s, <2>1, <2>2, <2>5
  <2> QED  BY <2>4, <2>5
<1>2. ASSUME NEW u \in Caller,
             \/ PrimaryTakes(u) \/ PrimaryRaises(u) \/ EnterDegraded(u) \/ Measure(u)
             \/ CountSpilled(u) \/ Drain(u) \/ SwitchDone(u) \/ Move(u) \/ MoveRaises(u)
             \/ Drained(u) \/ Healthy(u)
      PROVE  StillThere(t)'
  <2>1. UNCHANGED <<fallback, of, seen, owed, stale, dropped>>
    BY <1>2 DEF PrimaryTakes, PrimaryRaises, RaiseFrom, EnterDegraded, Measure, CountSpilled,
                CountWhen, Drain, SwitchDone, Move, MoveRaises, Drained, Healthy, store, reading,
                call
  <2>2. pc'[t] = pc[t] \/ pc'[t] \notin {"rest", "answer"}
    BY <1>2 DEF PrimaryTakes, PrimaryRaises, RaiseFrom, EnterDegraded, Measure, CountSpilled,
                CountWhen, Drain, SwitchDone, Move, MoveRaises, Drained, Healthy, Goto, TypeOK
  <2> QED  BY <1>s, <2>1, <2>2
<1>3. ASSUME NEW u \in Caller, Spill(u) PROVE StillThere(t)'
  <2>1. of[u] \in Switch /\ hand[u] \in Record
    BY <1>3 DEF Spill, TypeOK, InHand
  <2>2. ToSet(fallback[of[u]]) \subseteq ToSet(Bounded(of[u], hand[u])) \cup dropped'
    <3>1. fallback[of[u]] \in Seq(Record)
      BY <2>1 DEF TypeOK
    <3>2. CASE Full(of[u])
      <4>1. fallback[of[u]] # <<>>
        BY <2>1, <3>2, BoundedType
      <4>2. /\ Tail(fallback[of[u]]) \in Seq(Record)
            /\ ToSet(fallback[of[u]]) = {Head(fallback[of[u]])} \cup ToSet(Tail(fallback[of[u]]))
        BY <3>1, <4>1, TailHolds
      <4>3. ToSet(Bounded(of[u], hand[u])) = ToSet(Tail(fallback[of[u]])) \cup {hand[u]}
        <5> DEFINE q == Tail(fallback[of[u]])
        <5>1. q \in Seq(Record) /\ hand[u] \in Record
          BY <2>1, <4>2
        <5> HIDE DEF q
        <5>2. ToSet(Append(q, hand[u])) = ToSet(q) \cup {hand[u]}
          BY <5>1, AppendHolds
        <5> QED  BY <3>2, <5>2 DEF q, Bounded
      <4>4. Head(fallback[of[u]]) \in dropped'
        BY <1>3, <3>2 DEF Spill
      <4> QED  BY <4>2, <4>3, <4>4
    <3>3. CASE ~Full(of[u])
      BY <2>1, <3>1, <3>3, AppendHolds DEF Bounded
    <3> QED  BY <3>2, <3>3
  <2>3. \A s \in Switch : ToSet(fallback[s]) \subseteq ToSet(fallback'[s]) \cup dropped'
    <3>1. fallback'[of[u]] = Bounded(of[u], hand[u]) /\ \A s \in Switch : s # of[u] => fallback'[s] = fallback[s]
      BY <1>3, <2>1 DEF Spill, TypeOK
    <3> QED  BY <2>2, <3>1
  <2>4. UNCHANGED <<of, seen, owed, stale>> /\ dropped \subseteq dropped'
    BY <1>3 DEF Spill, reading, call
  <2>5. pc'[t] = pc[t] \/ pc'[t] \notin {"rest", "answer"}
    BY <1>3 DEF Spill, Goto, TypeOK
  <2> QED  BY <1>s, <2>3, <2>4, <2>5
<1>4. ASSUME NEW u \in Caller, TakeHead(u) PROVE StillThere(t)'
  <2>1. UNCHANGED <<fallback, seen, owed, stale, dropped>>
    BY <1>4 DEF TakeHead, store, reading
  <2>2. u # t => UNCHANGED <<pc[t], of[t]>>
    BY <1>4 DEF TakeHead, Goto, TypeOK
  <2>3. u = t => pc'[t] = "move"
    BY <1>4 DEF TakeHead, Goto, TypeOK
  <2>4. CASE u = t
    BY <2>3, <2>4 DEF StillThere
  <2>5. CASE u # t
    BY <1>s, <2>1, <2>2, <2>5
  <2> QED  BY <2>4, <2>5
<1>5. ASSUME NEW u \in Caller, Pop(u) PROVE StillThere(t)'
  <2>1. /\ UNCHANGED <<of, seen, owed, dropped>>
        /\ stale' = [v \in Caller |-> stale[v] \/ pc[v] \in {"rest", "answer"}]
    BY <1>5 DEF Pop, PopLeaves, call
  <2>2. pc'[t] = pc[t] \/ pc'[t] \notin {"rest", "answer"}
    BY <1>5 DEF Pop, PopLeaves, Goto, TypeOK
  <2>3. CASE pc'[t] \in {"rest", "answer"}
    <3>1. stale'[t]
      BY <2>1, <2>2, <2>3
    <3> QED  BY <3>1 DEF StillThere
  <2>4. CASE pc'[t] \notin {"rest", "answer"}
    BY <2>4 DEF StillThere
  <2> QED  BY <2>3, <2>4
<1>6. ASSUME NEW u \in Caller, NEW s \in Switch, LoadPrimary(u, s) \/ LoadPrimaryRaises(u, s)
      PROVE  StillThere(t)'
  <2>1. PICK part \in {primary[s], <<>>} :
            /\ LoadFrom(u, s, part)
            /\ \/ part = primary[s] /\ Owe(u, ToSet(primary[s]) \cup ToSet(fallback[s]))
               \/ Owe(u, ToSet(fallback[s]))
    BY <1>6, Zenon DEF LoadPrimary, LoadPrimaryRaises
  <2>2. UNCHANGED <<fallback, dropped>>
    BY <2>1 DEF LoadFrom, store
  <2>3. CASE u = t
    <3>1. of'[t] = s /\ pc'[t] = "rest" /\ seen'[t] = part
      BY <2>1, <2>3 DEF LoadFrom, Goto, TypeOK
    <3>2. owed'[t] \subseteq ToSet(part) \cup ToSet(fallback[s])
      BY <2>1, <2>3 DEF Owe, TypeOK
    <3> QED  BY <2>2, <3>1, <3>2 DEF StillThere
  <2>4. CASE u # t
    <3>1. UNCHANGED <<of[t], seen[t], pc[t]>>
      BY <2>1, <2>4 DEF LoadFrom, Goto, TypeOK
    <3>2. stale'[t] = stale[t]
      BY <2>1, <2>4 DEF LoadFrom, TypeOK
    <3>3. owed'[t] = owed[t]
      BY <2>1, <2>4 DEF Owe, TypeOK
    <3> QED  BY <1>s, <2>2, <3>1, <3>2, <3>3
  <2> QED  BY <2>3, <2>4
<1>7. ASSUME NEW u \in Caller, LoadFallback(u) PROVE StillThere(t)'
  <2>1. UNCHANGED <<fallback, of, owed, stale, dropped>>
    BY <1>7 DEF LoadFallback, store, call
  <2>2. CASE u = t
    <3>1. /\ pc[t] = "rest" /\ pc'[t] = "answer"
          /\ seen'[t] = seen[t] \o fallback[of[t]]
      BY <1>7, <2>2 DEF LoadFallback, Goto, TypeOK
    <3>2. seen[t] \in Seq(Record) /\ fallback[of[t]] \in Seq(Record)
      BY DEF TypeOK
    <3>3. ToSet(seen[t] \o fallback[of[t]]) = ToSet(seen[t]) \cup ToSet(fallback[of[t]])
      BY <3>2, ConcatHolds
    <3> QED  BY <1>o, <2>1, <3>1, <3>3 DEF StillThere
  <2>3. CASE u # t
    <3>1. UNCHANGED <<seen[t], pc[t]>>
      BY <1>7, <2>3 DEF LoadFallback, Goto, TypeOK
    <3> QED  BY <1>s, <2>1, <3>1
  <2> QED  BY <2>2, <2>3
<1>8. ASSUME NEW u \in Caller, Answer(u) PROVE StillThere(t)'
  <2>1. UNCHANGED <<fallback, of, dropped>>
    BY <1>8 DEF Answer, store, call
  <2>2. u = t => pc'[t] = "idle"
    BY <1>8 DEF Answer, Goto, TypeOK
  <2>3. u # t => UNCHANGED <<pc[t], seen[t], owed[t], stale[t]>>
    BY <1>8 DEF Answer, Goto, TypeOK
  <2>4. CASE u = t
    BY <2>2, <2>4 DEF StillThere
  <2>5. CASE u # t
    BY <1>s, <2>1, <2>3, <2>5
  <2> QED  BY <2>4, <2>5
<1>9. CASE UNCHANGED vars
  BY <1>9, <1>s DEF vars
<1> QED
  BY <1>1, <1>2, <1>3, <1>4, <1>5, <1>6, <1>7, <1>8, <1>9 DEF Next, AppendStep, RecoverStep, LoadStep

\* A load_records past which no record moved answers with everything that was
\* there when it began and was not evicted since, however many threads append
\* and drain beside it.
THEOREM ReadsAreComplete == Spec => []ReadIsComplete
<1> DEFINE Inv == TypeOK /\ InHand /\ Answering
<1>1. Init => Inv
  BY TypeInit DEF Init, Answering, StillThere
<1>2. Inv /\ [Next]_vars => Inv'
  BY TypeStep, AnsweringStep
<1>3. Inv => ReadIsComplete
  BY DEF Answering, StillThere, ReadIsComplete
<1> QED  BY <1>1, <1>2, <1>3, PTL DEF Spec

-----------------------------------------------------------------------------
(***************************************************************************)
(* One writer: the episode.                                                *)
(***************************************************************************)
\* What a thread of the other kind does: it reads.
Load(t) == (\E s \in Switch : LoadPrimary(t, s) \/ LoadPrimaryRaises(t, s)) \/ LoadStep(t)

LEMMA LoadsReadOnly ==
    ASSUME TypeOK, NEW t \in Caller, Load(t)
    PROVE  /\ UNCHANGED <<primary, fallback, degraded, tracked, evictions, dropped, next>>
           /\ UNCHANGED <<hand, before, todo>>
           /\ Reading(t) /\ Reading(t)'
           /\ \A u \in Caller \ {t} : pc'[u] = pc[u] /\ of'[u] = of[u]
<1>1. ASSUME NEW s \in Switch, NEW part, LoadFrom(t, s, part)
      PROVE  /\ UNCHANGED <<primary, fallback, degraded, tracked, evictions, dropped, next>>
             /\ UNCHANGED <<hand, before, todo>>
             /\ Reading(t) /\ Reading(t)'
             /\ \A u \in Caller \ {t} : pc'[u] = pc[u] /\ of'[u] = of[u]
  BY <1>1 DEF LoadFrom, Goto, Reading, store, mode, local, TypeOK
<1>2. CASE \E s \in Switch : LoadPrimary(t, s) \/ LoadPrimaryRaises(t, s)
  BY <1>1, <1>2 DEF LoadPrimary, LoadPrimaryRaises
<1>3. CASE LoadStep(t)
  <2>1. UNCHANGED <<store, mode, evictions, tracked, call, local, dropped, bounds>>
    BY <1>3 DEF LoadStep, LoadFallback, Answer
  <2>2. Reading(t) /\ Reading(t)' /\ \A u \in Caller \ {t} : pc'[u] = pc[u]
    BY <1>3 DEF LoadStep, LoadFallback, Answer, Goto, Reading, TypeOK
  <2> QED  BY <2>1, <2>2 DEF store, mode, call, local, bounds
<1> QED  BY <1>2, <1>3 DEF Load

LEMMA WritersWrite ==
    ASSUME TypeOK, \A t \in Caller \ Writer : Reading(t), NEW t \in Caller
    PROVE  (\/ \E s \in Switch : AppendBegin(t, s)
            \/ AppendStep(t) \/ Drain(t) \/ RecoverStep(t)) => t \in Writer
<1>1. ASSUME \E s \in Switch : AppendBegin(t, s) PROVE t \in Writer
  BY <1>1 DEF AppendBegin, AppendTracking, Writer
<1>2. ASSUME Drain(t) PROVE t \in Writer
  BY <1>2 DEF Drain, Writer
<1>3. ASSUME AppendStep(t) \/ RecoverStep(t) PROVE t \in Writer
  <2>1. ~Reading(t)
    BY <1>3 DEF AppendStep, RecoverStep, PrimaryTakes, PrimaryRaises, RaiseFrom, EnterDegraded,
                Measure, Spill, CountSpilled, CountWhen, SwitchDone, TakeHead, Move, MoveRaises,
                Pop, PopLeaves, Drained, Healthy, Reading
  <2> QED  BY <2>1
<1> QED  BY <1>1, <1>2, <1>3

LEMMA DrainableStep ==
    ASSUME OneWriter
    PROVE  TypeOK /\ InHand /\ Drainable /\ [Next]_vars => Drainable'
<1> SUFFICES ASSUME TypeOK, InHand, Drainable, [Next]_vars PROVE Drainable'  OBVIOUS
<1>n. \A s \in Switch : Nothing[s] = <<>>
  BY EmptyHolds
\* A step of the writer w leaves everybody else reading.
<1>w. ASSUME NEW w \in Writer, pc' = [pc EXCEPT ![w] = pc'[w]], Episode(w)',
             ~degraded' => fallback' = Nothing,
             \A s \in Switch \ tracked' : fallback'[s] = <<>>
      PROVE  Drainable'
  <2>1. \A t \in Caller \ Writer : Reading(t)'
    BY <1>w DEF Drainable, Reading, Writer, TypeOK
  <2>2. \A t \in Writer : Episode(t)'
    BY <1>w DEF OneWriter
  <2> QED  BY <1>w, <2>1, <2>2 DEF Drainable
<1> USE DEF Writer
<1>1. ASSUME NEW w \in Caller, NEW s \in Switch, AppendBegin(w, s) PROVE Drainable'
  <2>1. /\ w \in Writer /\ pc[w] = "idle"
        /\ pc' = [pc EXCEPT ![w] = IF degraded THEN "measure" ELSE "try"]
        /\ of'[w] = s /\ tracked' = tracked \cup {s}
        /\ UNCHANGED <<fallback, degraded>>
    BY <1>1 DEF AppendBegin, AppendTracking, Goto, store, mode, TypeOK
  <2>2. pc'[w] = IF degraded THEN "measure" ELSE "try"
    BY <2>1 DEF TypeOK
  <2>3. Episode(w)'
    BY <2>1, <2>2 DEF Episode
  <2> QED  BY <1>w, <2>1, <2>2, <2>3 DEF Drainable
<1>2. ASSUME NEW w \in Caller, AppendStep(w) PROVE Drainable'
  <2>w. w \in Writer /\ Episode(w)
    BY <1>2, WritersWrite DEF Drainable
  <2>1. CASE PrimaryTakes(w)
    <3>1. /\ pc' = [pc EXCEPT ![w] = "idle"] /\ UNCHANGED <<fallback, degraded, tracked>>
      BY <2>1 DEF PrimaryTakes, Goto, mode
    <3>2. pc'[w] = "idle"
      BY <3>1 DEF TypeOK
    <3> QED  BY <1>w, <2>w, <3>1, <3>2 DEF Drainable, Episode
  <2>2. CASE PrimaryRaises(w)
    <3>1. /\ pc[w] = "try" /\ ~degraded
          /\ pc' = [pc EXCEPT ![w] = "degrade"] /\ UNCHANGED <<fallback, degraded, tracked, of>>
      BY <2>w, <2>2 DEF PrimaryRaises, RaiseFrom, Goto, mode, call, Episode
    <3>2. pc'[w] = "degrade"
      BY <3>1 DEF TypeOK
    <3> QED  BY <1>w, <2>w, <3>1, <3>2 DEF Drainable, Episode
  <2>3. CASE EnterDegraded(w)
    <3>1. /\ pc[w] = "degrade" /\ degraded'
          /\ pc' = [pc EXCEPT ![w] = "measure"] /\ UNCHANGED <<fallback, tracked, of>>
      BY <2>3 DEF EnterDegraded, Goto, store, call
    <3>2. pc'[w] = "measure"
      BY <3>1 DEF TypeOK
    <3> QED  BY <1>w, <2>w, <3>1, <3>2 DEF Drainable, Episode
  <2>4. CASE Measure(w)
    <3>1. /\ pc[w] = "measure"
          /\ pc' = [pc EXCEPT ![w] = "spill"] /\ UNCHANGED <<fallback, degraded, tracked, of>>
      BY <2>4 DEF Measure, Goto, store, mode, call
    <3>2. pc'[w] = "spill"
      BY <3>1 DEF TypeOK
    <3> QED  BY <1>w, <2>w, <3>1, <3>2 DEF Drainable, Episode
  <2>5. CASE Spill(w)
    <3>1. /\ pc[w] = "spill"
          /\ pc' = [pc EXCEPT ![w] = "count"] /\ UNCHANGED <<degraded, tracked, of>>
          /\ fallback' = [fallback EXCEPT ![of[w]] = Bounded(of[w], hand[w])]
      BY <2>5 DEF Spill, Goto, mode, call
    <3>2. pc'[w] = "count" /\ degraded /\ of[w] \in tracked
      BY <2>w, <3>1 DEF TypeOK, Episode
    <3>3. \A s \in Switch \ tracked : fallback'[s] = <<>>
      BY <3>1, <3>2 DEF Drainable, TypeOK
    <3> QED  BY <1>w, <2>w, <3>1, <3>2, <3>3 DEF Episode
  <2>6. CASE CountSpilled(w)
    <3>1. /\ pc[w] = "count"
          /\ pc' = [pc EXCEPT ![w] = IF ProbeDue THEN "head" ELSE "idle"]
          /\ todo' = [todo EXCEPT ![w] = IF ProbeDue THEN tracked ELSE {}]
          /\ UNCHANGED <<fallback, degraded, tracked, of>>
      BY <2>6 DEF CountSpilled, CountWhen, Goto, store, call
    <3>2. /\ pc'[w] = IF ProbeDue THEN "head" ELSE "idle"
          /\ pc'[w] = "head" => todo'[w] = tracked
      BY <3>1 DEF TypeOK
    <3>3. Episode(w)'
      BY <2>w, <3>1, <3>2 DEF Episode
    <3> QED  BY <1>w, <2>w, <3>1, <3>2, <3>3 DEF Drainable
  <2> QED  BY <1>2, <2>1, <2>2, <2>3, <2>4, <2>5, <2>6 DEF AppendStep
<1>3. ASSUME NEW w \in Caller, Drain(w) PROVE Drainable'
  <2>w. w \in Writer /\ Episode(w)
    BY <1>3, WritersWrite DEF Drainable
  <2>1. /\ degraded /\ pc' = [pc EXCEPT ![w] = "head"]
        /\ todo' = [todo EXCEPT ![w] = tracked]
        /\ UNCHANGED <<fallback, degraded, tracked, of>>
    BY <1>3 DEF Drain, Goto, store, mode, call
  <2>2. pc'[w] = "head" /\ todo'[w] = tracked
    BY <2>1 DEF TypeOK
  <2> QED  BY <1>w, <2>w, <2>1, <2>2 DEF Drainable, Episode
<1>4. ASSUME NEW w \in Caller, RecoverStep(w) PROVE Drainable'
  <2>w. w \in Writer /\ Episode(w)
    BY <1>4, WritersWrite DEF Drainable
  <2>1. CASE SwitchDone(w)
    <3>1. /\ pc[w] = "head" /\ todo[w] # {} /\ fallback[Current(w)] = <<>>
          /\ todo' = [todo EXCEPT ![w] = @ \ {Current(w)}]
          /\ UNCHANGED <<fallback, degraded, tracked, of, pc>>
      BY <2>1 DEF SwitchDone, store, mode, call
    <3>2. todo'[w] = todo[w] \ {Current(w)} /\ pc' = [pc EXCEPT ![w] = pc'[w]]
      BY <3>1 DEF TypeOK
    <3>3. Episode(w)'
      BY <2>w, <3>1, <3>2 DEF Episode
    <3> QED  BY <1>w, <2>w, <3>1, <3>2, <3>3 DEF Drainable
  <2>2. CASE TakeHead(w)
    <3>1. /\ pc[w] = "head" /\ todo[w] # {} /\ fallback[Current(w)] # <<>>
          /\ pc' = [pc EXCEPT ![w] = "move"]
          /\ UNCHANGED <<fallback, degraded, tracked, todo>>
      BY <2>2 DEF TakeHead, Goto, store, mode, local
    <3>2. of'[w] = Current(w) /\ hand'[w] = Head(fallback[Current(w)]) /\ pc'[w] = "move"
      BY <2>2, <3>1 DEF TakeHead, TypeOK
    <3>3. Current(w) \in todo[w]
      BY <3>1, CurrentIsToDo DEF TypeOK
    <3>4. Episode(w)'
      BY <2>w, <3>1, <3>2, <3>3 DEF Episode
    <3> QED  BY <1>w, <2>w, <3>1, <3>4 DEF Drainable
  <2>3. CASE Move(w)
    <3>1. /\ pc[w] = "move" /\ pc' = [pc EXCEPT ![w] = "pop"]
          /\ UNCHANGED <<fallback, degraded, tracked, todo, of, hand>>
      BY <2>3 DEF Move, Goto, mode, local, call
    <3>2. pc'[w] = "pop"
      BY <3>1 DEF TypeOK
    <3> QED  BY <1>w, <2>w, <3>1, <3>2 DEF Drainable, Episode
  <2>4. CASE MoveRaises(w)
    <3>1. /\ pc[w] = "move" /\ pc' = [pc EXCEPT ![w] = "idle"]
          /\ UNCHANGED <<fallback, degraded, tracked>>
      BY <2>4 DEF MoveRaises, RaiseFrom, Goto, mode
    <3>2. pc'[w] = "idle"
      BY <3>1 DEF TypeOK
    <3> QED  BY <1>w, <2>w, <3>1, <3>2 DEF Drainable, Episode
  <2>5. CASE Pop(w)
    <3>1. /\ pc[w] = "pop" /\ pc' = [pc EXCEPT ![w] = "head"]
          /\ UNCHANGED <<degraded, tracked, todo, of>>
          /\ \A s \in Switch \ {of[w]} : fallback'[s] = fallback[s]
      BY <2>5 DEF Pop, PopLeaves, Goto, mode, local, call, TypeOK
    <3>2. pc'[w] = "head" /\ of[w] \in todo[w] /\ todo[w] \subseteq tracked /\ degraded
      BY <2>w, <3>1 DEF TypeOK, Episode
    <3>3. \A s \in tracked \ todo[w] : fallback'[s] = <<>>
      BY <2>w, <3>1, <3>2 DEF Episode, TypeOK
    <3>4. Episode(w)'
      BY <3>1, <3>2, <3>3 DEF Episode
    <3>5. \A s \in Switch \ tracked : fallback'[s] = <<>>
      BY <3>1, <3>2 DEF Drainable
    <3> QED  BY <1>w, <2>w, <3>1, <3>2, <3>4, <3>5
  <2>6. CASE Drained(w)
    <3>1. /\ pc[w] = "head" /\ todo[w] = {} /\ pc' = [pc EXCEPT ![w] = "healthy"]
          /\ UNCHANGED <<fallback, degraded, tracked>>
      BY <2>6 DEF Drained, Goto, mode, store
    <3>2. pc'[w] = "healthy"
      BY <3>1 DEF TypeOK
    <3>3. \A s \in Switch : fallback[s] = <<>>
      BY <2>w, <3>1 DEF Drainable, Episode
    <3>4. fallback = Nothing
      BY <3>3 DEF Nothing, TypeOK
    <3> QED  BY <1>w, <2>w, <3>1, <3>2, <3>4 DEF Drainable, Episode
  <2>7. CASE Healthy(w)
    <3>1. /\ pc[w] = "healthy" /\ pc' = [pc EXCEPT ![w] = "idle"]
          /\ UNCHANGED <<fallback, tracked>>
      BY <2>7 DEF Healthy, Goto, store
    <3>2. pc'[w] = "idle" /\ fallback = Nothing
      BY <2>w, <3>1 DEF TypeOK, Episode
    <3> QED  BY <1>w, <2>w, <3>1, <3>2 DEF Drainable, Episode
  <2> QED  BY <1>4, <2>1, <2>2, <2>3, <2>4, <2>5, <2>6, <2>7 DEF RecoverStep
<1>5. ASSUME NEW t \in Caller, Load(t) PROVE Drainable'
  <2>1. /\ UNCHANGED <<fallback, degraded, tracked, hand, todo>>
        /\ Reading(t) /\ Reading(t)'
        /\ \A u \in Caller \ {t} : pc'[u] = pc[u] /\ of'[u] = of[u]
    BY <1>5, LoadsReadOnly
  <2>2. \A u \in Caller \ Writer : Reading(u)'
    BY <2>1 DEF Drainable, Reading
  <2>3. Episode(t)'
    BY <2>1 DEF Episode, Reading
  <2>4. \A u \in Writer \ {t} : Episode(u)'
    BY <2>1 DEF Drainable, Episode
  <2> QED  BY <2>1, <2>2, <2>3, <2>4 DEF Drainable
<1>6. CASE UNCHANGED vars
  BY <1>6 DEF vars, Drainable, Episode, Reading
<1> QED  BY <1>1, <1>2, <1>3, <1>4, <1>5, <1>6 DEF Next, Load

-----------------------------------------------------------------------------
(***************************************************************************)
(* One writer: the records and their count.                                *)
(***************************************************************************)
\* The primary takes a record that has a number.
LEMMA ApartStored ==
    ASSUME TypeOK, Apart, NEW t \in Caller, hand[t] \in Record, hand[t] \in 1 .. next - 1,
           UNCHANGED primary \/ Stored(t), UNCHANGED <<fallback, dropped, next>>
    PROVE  Apart'
<1>1. CASE UNCHANGED primary
  BY <1>1 DEF Apart
<1>2. CASE Stored(t)
  <2>1. /\ primary'[of[t]] = Append(primary[of[t]], hand[t])
        /\ \A s \in Switch \ {of[t]} : primary'[s] = primary[s]
    BY <1>2, StoredType
  <2>2. primary[of[t]] \in Seq(Record) /\ of[t] \in Switch
    BY DEF TypeOK
  <2>3. ToSet(Append(primary[of[t]], hand[t])) = ToSet(primary[of[t]]) \cup {hand[t]}
    BY <2>2, AppendHolds
  <2>4. \A s \in Switch : ToSet(primary'[s]) \subseteq 1 .. next - 1
    BY <2>1, <2>2, <2>3 DEF Apart
  <2> QED  BY <2>4 DEF Apart
<1> QED  BY <1>1, <1>2

\* The fallback of one switch becomes f: records of it, or new ones, and what
\* is dropped comes from it.
LEMMA ApartBuffer ==
    ASSUME TypeOK, Apart, NEW s \in Switch, NEW f, NEW new, NEW gone,
           UNCHANGED <<primary, next>>,
           fallback' = [fallback EXCEPT ![s] = f], dropped' = dropped \cup gone,
           IsInjective(f), ToSet(f) \subseteq ToSet(fallback[s]) \cup new,
           gone \subseteq ToSet(fallback[s]), gone \cap ToSet(f) = {},
           new \subseteq 1 .. next - 1, new \cap dropped = {},
           \A v \in Switch : new \cap ToSet(fallback[v]) = {}
    PROVE  Apart'
<1>1. fallback'[s] = f /\ \A v \in Switch \ {s} : fallback'[v] = fallback[v]
  BY DEF TypeOK
<1>2. dropped' \subseteq 1 .. next - 1
  BY DEF Apart
<1>3. ASSUME NEW v \in Switch, v # s
      PROVE  /\ ToSet(fallback[v]) \cap ToSet(f) = {}
             /\ ToSet(fallback[v]) \cap dropped' = {}
  BY <1>3 DEF Apart
<1>4. ASSUME NEW v \in Switch
      PROVE  /\ ToSet(fallback'[v]) \subseteq 1 .. next - 1
             /\ ToSet(primary[v]) \subseteq 1 .. next - 1
             /\ IsInjective(fallback'[v])
             /\ ToSet(fallback'[v]) \cap dropped' = {}
  <2>1. CASE v = s
    BY <1>1, <2>1 DEF Apart
  <2>2. CASE v # s
    BY <1>1, <1>3, <2>2 DEF Apart
  <2> QED  BY <2>1, <2>2
<1>5. ASSUME NEW v \in Switch, NEW u \in Switch, u # v
      PROVE  ToSet(fallback'[v]) \cap ToSet(fallback'[u]) = {}
  <2>1. CASE v = s
    BY <1>1, <1>3, <1>5, <2>1
  <2>2. CASE u = s
    BY <1>1, <1>3, <1>5, <2>2
  <2>3. CASE v # s /\ u # s
    BY <1>1, <1>5, <2>3 DEF Apart
  <2> QED  BY <2>1, <2>2, <2>3
<1> QED  BY <1>2, <1>4, <1>5 DEF Apart

LEMMA TallyStep ==
    ASSUME OneWriter
    PROVE  TypeOK /\ InHand /\ Drainable /\ Tally /\ [Next]_vars => Tally'
<1> SUFFICES ASSUME TypeOK, InHand, Drainable, Tally, [Next]_vars PROVE Tally'  OBVIOUS
<1>w. ASSUME NEW w \in Writer, Apart', Fresh(w)', Counting(w)' PROVE Tally'
  BY <1>w DEF OneWriter, Tally
<1>a. Apart
  BY DEF Tally
<1>d. IsFiniteSet(dropped) /\ dropped \subseteq 1 .. next - 1
  <2>1. next \in Nat
    BY DEF TypeOK
  <2>2. dropped \subseteq 1 .. next - 1 /\ IsFiniteSet(1 .. next - 1)
    BY <1>a, <2>1, FS_Interval DEF Apart
  <2> QED  BY <2>2, FS_Subset
<1>n. evictions \in Nat /\ next \in Nat \ {0}
  BY DEF TypeOK
\* Steps of the writer that leave the counters alone, between appends.
<1>r. ASSUME NEW w \in Writer, Apart', UNCHANGED <<dropped, evictions>>,
             pc[w] # "count", pc'[w] \notin {"try", "degrade", "measure", "spill", "count"}
      PROVE  Tally'
  <2>1. Counting(w)
    BY DEF Tally
  <2> QED  BY <1>r, <1>w, <2>1 DEF Fresh, Counting
<1>1. ASSUME NEW w \in Caller, NEW s \in Switch, AppendBegin(w, s) PROVE Tally'
  <2>w. w \in Writer /\ Counting(w) /\ pc[w] = "idle"
    BY <1>1, WritersWrite DEF Drainable, Tally, AppendBegin, AppendTracking
  <2>1. /\ UNCHANGED <<primary, fallback, dropped, evictions, before>>
        /\ next' = next + 1 /\ hand'[w] = next /\ of'[w] = s
        /\ pc'[w] \in {"measure", "try"}
    BY <1>1 DEF AppendBegin, AppendTracking, Goto, store, local, TypeOK
  <2>2. /\ 1 .. next - 1 \subseteq 1 .. next' - 1 /\ next \in 1 .. next' - 1
        /\ next \notin 1 .. next - 1
    BY <1>n, <2>1
  <2>3. Apart'
    BY <1>a, <2>1, <2>2 DEF Apart
  <2>4. Fresh(w)'
    BY <1>a, <2>1, <2>2 DEF Apart, Fresh
  <2>5. Counting(w)'
    BY <2>w, <2>1 DEF Counting
  <2> QED  BY <1>w, <2>w, <2>3, <2>4, <2>5
<1>2. ASSUME NEW w \in Caller, AppendStep(w) PROVE Tally'
  <2>w. w \in Writer /\ Fresh(w) /\ Counting(w) /\ Episode(w)
    BY <1>2, WritersWrite DEF Drainable, Tally
  <2>1. CASE PrimaryTakes(w)
    <3>1. /\ pc[w] = "try" /\ pc'[w] = "idle" /\ Stored(w)
          /\ UNCHANGED <<fallback, dropped, evictions, next>>
      BY <2>1 DEF PrimaryTakes, Goto, bounds, TypeOK
    <3>2. hand[w] \in Record /\ hand[w] \in 1 .. next - 1
      BY <2>w, <3>1 DEF InHand, Fresh
    <3>3. Apart'
      BY <1>a, <3>1, <3>2, ApartStored
    <3> QED  BY <1>r, <2>w, <3>1, <3>3
  <2>2. CASE PrimaryRaises(w)
    <3>1. /\ pc[w] = "try"
          /\ UNCHANGED primary \/ Stored(w)
          /\ UNCHANGED <<fallback, dropped, evictions, next, of, hand, before>>
      BY <2>2 DEF PrimaryRaises, RaiseFrom, call, local
    <3>2. pc'[w] = "degrade" /\ fallback = Nothing
      BY <2>w, <2>2, <3>1 DEF PrimaryRaises, RaiseFrom, Goto, TypeOK, Episode, Drainable
    <3>a. /\ hand[w] \in 1 .. next - 1 /\ hand[w] \notin dropped
          /\ \A s \in Switch : hand[w] \notin ToSet(fallback[s])
          /\ hand[w] \notin ToSet(primary[of[w]])
      <4>1. pc[w] = "try"
        BY <3>1
      <4> QED  BY <2>w, <4>1 DEF Fresh
    <3>b. hand[w] \in Record
      BY <3>1 DEF InHand
    <3>3. hand[w] \in Record /\ hand[w] \in 1 .. next - 1 /\ hand[w] \notin ToSet(primary[of[w]])
      BY <3>a, <3>b
    <3>4. Apart'
      BY <1>a, <3>1, <3>3, ApartStored
    <3>5. Stored(w) => primary'[of[w]] # <<>> /\ Last(primary'[of[w]]) = hand[w]
      <4>1. Stored(w) => primary'[of[w]] = Append(primary[of[w]], hand[w])
        BY <3>3, StoredType
      <4>2. primary[of[w]] \in Seq(Record)
        BY DEF TypeOK
      <4> QED  BY <3>3, <4>1, <4>2 DEF Last
    <3>6. Fresh(w)'
      <4>1. \/ hand'[w] \notin ToSet(primary'[of'[w]])
            \/ primary'[of'[w]] # <<>> /\ Last(primary'[of'[w]]) = hand'[w]
        BY <3>1, <3>3, <3>5
      <4>2. /\ hand'[w] \in 1 .. next' - 1 /\ hand'[w] \notin dropped'
            /\ \A s \in Switch : hand'[w] \notin ToSet(fallback'[s])
        BY <3>1, <3>a
      <4>3. pc'[w] # "try" /\ fallback' = Nothing
        BY <3>1, <3>2
      <4> QED  BY <4>1, <4>2, <4>3 DEF Fresh
    <3>7. Counting(w)'
      <4>1. pc[w] \notin {"spill", "count"} /\ pc'[w] \notin {"spill", "count"}
        BY <3>1, <3>2
      <4>2. UNCHANGED <<dropped, evictions>>
        BY <3>1
      <4> QED  BY <2>w, <4>1, <4>2 DEF Counting
    <3> QED  BY <1>w, <2>w, <3>4, <3>6, <3>7
  <2>3. CASE EnterDegraded(w)
    <3>1. /\ pc[w] = "degrade" /\ pc'[w] = "measure"
          /\ UNCHANGED <<primary, fallback, dropped, evictions, next, of, hand, before>>
      BY <2>3 DEF EnterDegraded, Goto, store, call, local, bounds, TypeOK
    <3>2. Apart'
      BY <1>a, <3>1 DEF Apart
    <3> QED  BY <1>w, <2>w, <3>1, <3>2 DEF Fresh, Counting
  <2>4. CASE Measure(w)
    <3>1. /\ pc[w] = "measure" /\ pc'[w] = "spill" /\ before'[w] = Len(fallback[of[w]])
          /\ UNCHANGED <<primary, fallback, dropped, evictions, next, of, hand>>
      BY <2>4 DEF Measure, Goto, store, call, bounds, TypeOK
    <3>2. Apart'
      BY <1>a, <3>1 DEF Apart
    <3> QED  BY <1>w, <2>w, <3>1, <3>2 DEF Fresh, Counting
  <2>5. CASE Spill(w)
    <3> DEFINE s == of[w]
    <3> DEFINE r == hand[w]
    <3> DEFINE f == fallback[s]
    <3> DEFINE gone == IF Full(s) THEN {Head(f)} ELSE {}
    <3>1. /\ pc[w] = "spill" /\ pc'[w] = "count"
          /\ fallback' = [fallback EXCEPT ![s] = Bounded(s, r)]
          /\ dropped' = dropped \cup gone
          /\ UNCHANGED <<primary, evictions, next, of, before>>
      BY <2>5 DEF Spill, Goto, call, local, bounds, TypeOK
    <3>2. /\ s \in Switch /\ r \in Record /\ r \in 1 .. next - 1 /\ r \notin dropped
          /\ \A v \in Switch : r \notin ToSet(fallback[v])
          /\ f \in Seq(Record) /\ IsInjective(f) /\ ToSet(f) \cap dropped = {}
      BY <1>a, <2>w, <3>1 DEF TypeOK, InHand, Fresh, Apart
    <3>3. /\ Full(s) => f # <<>> /\ Len(Bounded(s, r)) = Len(f)
          /\ ~Full(s) => Len(Bounded(s, r)) = Len(f) + 1
      BY <3>2, BoundedType
    <3>4. /\ IsInjective(Bounded(s, r)) /\ ToSet(Bounded(s, r)) \subseteq ToSet(f) \cup {r}
          /\ gone \subseteq ToSet(f) /\ gone \cap ToSet(Bounded(s, r)) = {}
      <4>1. CASE Full(s)
        <5> DEFINE q == Tail(f)
        <5>1. /\ q \in Seq(Record) /\ IsInjective(q) /\ Head(f) \notin ToSet(q)
              /\ ToSet(f) = {Head(f)} \cup ToSet(q)
          BY <3>2, <3>3, <4>1, TailHolds
        <5>2. Bounded(s, r) = Append(q, r) /\ gone = {Head(f)}
          BY <4>1 DEF Bounded
        <5>3. r \notin ToSet(f)
          BY <3>2
        <5> HIDE DEF q, gone, f, r, s
        <5>4. ToSet(Append(q, r)) = ToSet(q) \cup {r} /\ IsInjective(Append(q, r))
          BY <3>2, <5>1, <5>3, AppendHolds
        <5> QED  BY <5>1, <5>2, <5>3, <5>4
      <4>2. CASE ~Full(s)
        <5>2. Bounded(s, r) = Append(f, r) /\ gone = {}
          BY <4>2 DEF Bounded
        <5>3. r \notin ToSet(f)
          BY <3>2
        <5> HIDE DEF gone, f, r, s
        <5>4. ToSet(Append(f, r)) = ToSet(f) \cup {r} /\ IsInjective(Append(f, r))
          BY <3>2, <5>3, AppendHolds
        <5> QED  BY <5>2, <5>4
      <4> QED  BY <4>1, <4>2
    <3>5. Apart'
      <4> DEFINE b == Bounded(s, r)
      <4>1. /\ IsInjective(b) /\ ToSet(b) \subseteq ToSet(fallback[s]) \cup {r}
            /\ gone \subseteq ToSet(fallback[s]) /\ gone \cap ToSet(b) = {}
            /\ {r} \subseteq 1 .. next - 1 /\ {r} \cap dropped = {}
            /\ \A v \in Switch : {r} \cap ToSet(fallback[v]) = {}
            /\ fallback' = [fallback EXCEPT ![s] = b] /\ dropped' = dropped \cup gone
            /\ UNCHANGED <<primary, next>> /\ s \in Switch
        BY <3>1, <3>2, <3>4
      <4> HIDE DEF b, gone, f, r, s
      <4> QED  BY <1>a, <4>1, ApartBuffer
    <3>6. Cardinality(dropped') = Cardinality(dropped) + IF Full(s) THEN 1 ELSE 0
      <4>1. CASE Full(s)
        <5>1. Head(f) \in ToSet(f)
          BY <3>2, <3>3, <4>1, TailHolds
        <5>2. Head(f) \notin dropped /\ dropped' = dropped \cup {Head(f)}
          BY <3>1, <3>2, <4>1, <5>1
        <5>3. Cardinality(dropped \cup {Head(f)}) = Cardinality(dropped) + 1
          BY <1>d, <5>2, FS_AddElement
        <5> QED  BY <4>1, <5>2, <5>3
      <4>2. CASE ~Full(s)
        <5>1. dropped' = dropped
          BY <3>1, <4>2
        <5> QED  BY <1>d, <4>2, <5>1, FS_CardinalityType
      <4> QED  BY <4>1, <4>2
    <3>7. Counting(w)'
      <4>1. fallback'[of'[w]] = Bounded(s, r) /\ before'[w] = Len(f) /\ Cardinality(dropped) = evictions
        BY <2>w, <3>1, <3>2 DEF Counting, TypeOK
      <4>2. Len(f) \in Nat
        BY <3>2
      <4>3. Len(Bounded(s, r)) <= Len(f) <=> Full(s)
        BY <3>3, <4>2
      <4> QED  BY <3>1, <3>6, <4>1, <4>3 DEF Counting
    <3> QED  BY <1>w, <2>w, <3>1, <3>5, <3>7 DEF Fresh
  <2>6. CASE CountSpilled(w)
    <3>1. /\ pc[w] = "count" /\ pc'[w] \in {"head", "idle"}
          /\ evictions' = evictions + IF Len(fallback[of[w]]) <= before[w] THEN 1 ELSE 0
          /\ UNCHANGED <<primary, fallback, dropped, next>>
      BY <2>6 DEF CountSpilled, CountWhen, Goto, store, bounds, TypeOK
    <3>2. Apart'
      BY <1>a, <3>1 DEF Apart
    <3>3. evictions' = Cardinality(dropped) /\ evictions' \in Nat
      BY <1>n, <2>w, <3>1 DEF Counting
    <3> QED  BY <1>w, <2>w, <3>1, <3>2, <3>3 DEF Fresh, Counting
  <2> QED  BY <1>2, <2>1, <2>2, <2>3, <2>4, <2>5, <2>6 DEF AppendStep
<1>3. ASSUME NEW w \in Caller,
             Drain(w) \/ SwitchDone(w) \/ TakeHead(w) \/ Drained(w) \/ Healthy(w)
      PROVE  Tally'
  <2>w. w \in Writer
    BY <1>3, WritersWrite DEF Drainable, RecoverStep
  <2>1. /\ pc[w] # "count" /\ pc'[w] \notin {"try", "degrade", "measure", "spill", "count"}
        /\ UNCHANGED <<primary, fallback, dropped, evictions, next>>
    BY <1>3 DEF Drain, SwitchDone, TakeHead, Drained, Healthy, Goto, store, bounds, TypeOK
  <2>2. Apart'
    BY <1>a, <2>1 DEF Apart
  <2> QED  BY <1>r, <2>w, <2>1, <2>2
<1>4. ASSUME NEW w \in Caller, Move(w) \/ MoveRaises(w) PROVE Tally'
  <2>w. w \in Writer /\ Episode(w)
    BY <1>4, WritersWrite DEF Drainable, RecoverStep
  <2>1. /\ pc[w] = "move" /\ pc'[w] \in {"pop", "idle"}
        /\ UNCHANGED primary \/ Stored(w)
        /\ UNCHANGED <<fallback, dropped, evictions, next>>
    BY <1>4 DEF Move, MoveRaises, RaiseFrom, Goto, bounds, TypeOK
  <2>2. hand[w] \in Record /\ hand[w] \in 1 .. next - 1
    <3>1. fallback[of[w]] \in Seq(Record) /\ fallback[of[w]] # <<>> /\ hand[w] = Head(fallback[of[w]])
      BY <2>w, <2>1 DEF Episode, TypeOK
    <3>2. hand[w] \in ToSet(fallback[of[w]])
      BY <3>1, TailHolds
    <3>3. of[w] \in Switch
      BY DEF TypeOK
    <3> QED  BY <1>a, <2>1, <3>2, <3>3 DEF Apart, InHand
  <2>3. Apart'
    BY <1>a, <2>1, <2>2, ApartStored
  <2> QED  BY <1>r, <2>w, <2>1, <2>3
<1>5. ASSUME NEW w \in Caller, Pop(w) PROVE Tally'
  <2>w. w \in Writer /\ Episode(w)
    BY <1>5, WritersWrite DEF Drainable, RecoverStep
  <2> DEFINE s == of[w]
  <2> DEFINE q == Tail(fallback[s])
  <2>1. /\ pc[w] = "pop" /\ pc'[w] = "head" /\ fallback[s] # <<>>
        /\ fallback' = [fallback EXCEPT ![s] = q] /\ dropped' = dropped \cup {}
        /\ UNCHANGED <<primary, dropped, evictions, next>>
    BY <1>5, <2>w DEF Pop, PopLeaves, Goto, bounds, TypeOK, Episode
  <2>2. s \in Switch /\ fallback[s] \in Seq(Record) /\ IsInjective(fallback[s])
    BY <1>a DEF TypeOK, Apart
  <2>3. IsInjective(q) /\ ToSet(q) \subseteq ToSet(fallback[s]) \cup {}
    BY <2>1, <2>2, TailHolds
  <2> HIDE DEF q, s
  <2>4. Apart'
    <3>1. /\ {} \subseteq 1 .. next - 1 /\ {} \cap dropped = {} /\ {} \subseteq ToSet(fallback[s])
          /\ {} \cap ToSet(q) = {} /\ \A v \in Switch : {} \cap ToSet(fallback[v]) = {}
      OBVIOUS
    <3> QED  BY <1>a, <2>1, <2>2, <2>3, <3>1, ApartBuffer
  <2> QED  BY <1>r, <2>w, <2>1, <2>4
<1>6. ASSUME NEW t \in Caller, Load(t) PROVE Tally'
  <2>1. /\ UNCHANGED <<primary, fallback, evictions, dropped, next>>
        /\ UNCHANGED <<hand, before>>
        /\ Reading(t) /\ Reading(t)'
        /\ \A u \in Caller \ {t} : pc'[u] = pc[u] /\ of'[u] = of[u]
    BY <1>6, LoadsReadOnly
  <2>2. Apart'
    BY <1>a, <2>1 DEF Apart
  <2>3. ASSUME NEW w \in Writer PROVE Fresh(w)' /\ Counting(w)'
    <3>1. w \in Caller /\ Fresh(w) /\ Counting(w)
      BY DEF Writer, Tally
    <3>2. CASE w = t
      BY <2>1, <3>1, <3>2 DEF Fresh, Counting, Reading
    <3>3. CASE w # t
      BY <2>1, <3>1, <3>3 DEF Fresh, Counting
    <3> QED  BY <3>2, <3>3
  <2> QED  BY <2>2, <2>3 DEF Tally
<1>7. CASE UNCHANGED vars
  BY <1>7 DEF vars, Tally, Apart, Fresh, Counting
<1> QED
  BY <1>1, <1>2, <1>3, <1>4, <1>5, <1>6, <1>7 DEF Next, RecoverStep, Load


LEMMA EpisodeInit == Init => Drainable /\ Tally
<1> SUFFICES ASSUME Init PROVE Drainable /\ Tally  OBVIOUS
<1>1. \A s \in Switch : primary[s] = <<>> /\ fallback[s] = <<>>
  BY DEF Init, Nothing
<1>2. Apart
  BY <1>1, EmptyHolds DEF Init, Apart
<1>3. Cardinality(dropped) = 0 /\ evictions = 0
  BY FS_EmptySet DEF Init
<1>4. \A t \in Caller : pc[t] = "idle"
  BY DEF Init
<1>5. Drainable
  BY <1>1, <1>4 DEF Init, Drainable, Episode, Reading, Writer
<1> QED  BY <1>2, <1>3, <1>4, <1>5 DEF Tally, Fresh, Counting, Writer

\* With one writer everything stays in range, a healthy log has nothing left in
\* its fallback, and the eviction counter is the number of records the fallback
\* let go of, whatever fails in the middle of an append or a recovery.
THEOREM SpillKept ==
    ASSUME OneWriter
    PROVE  Spec => []SpillIsKept
<1> DEFINE Inv == TypeOK /\ InHand /\ Drainable /\ Tally
<1>1. Init => Inv
  BY TypeInit, EpisodeInit
<1>2. OneWriter /\ Inv /\ [Next]_vars => Inv'
  BY TypeStep, DrainableStep, TallyStep
<1>3. OneWriter /\ Inv => SpillIsKept
  <2> SUFFICES ASSUME OneWriter, Inv PROVE SpillIsKept
    OBVIOUS
  <2>1. HealthyMeansDrained
    BY DEF Drainable, HealthyMeansDrained
  <2>2. EvictionsCounted
    BY DEF Tally, Counting, EvictionsCounted, TypeOK
  <2> QED  BY <2>1, <2>2 DEF SpillIsKept
<1>4. OneWriter /\ Spec => []Inv
  BY <1>1, <1>2, PTL DEF Spec
<1>5. OneWriter /\ []Inv => []SpillIsKept
  BY <1>3, PTL
<1> QED  BY <1>4, <1>5
-----------------------------------------------------------------------------
(***************************************************************************)
(* One writer: one log.  First, what the abstract steps do to a sequence   *)
(* that is one sequence after another.                                     *)
(***************************************************************************)
LEMMA AppendBehind ==
    ASSUME NEW S, NEW p \in Seq(S), NEW q \in Seq(S), NEW e \in S
    PROVE  Append(p \o q, e) = p \o Append(q, e)
<1>1. p \o q \in Seq(S) /\ Append(q, e) \in Seq(S) /\ <<e>> \in Seq(S)
  OBVIOUS
<1>2. Append(p \o q, e) = (p \o q) \o <<e>> /\ Append(q, e) = q \o <<e>>
  BY <1>1, AppendIsConcat
<1> QED  BY <1>1, <1>2, ConcatAssociative

\* A sequence that reads as h, then r, is h \o r.
LEMMA ReadsAs ==
    ASSUME NEW S, NEW p \in Seq(S), NEW h \in Seq(S), NEW r \in Seq(S),
           Len(p) = Len(h) + Len(r),
           \A i \in 1 .. Len(h) : p[i] = h[i],
           \A i \in 1 .. Len(r) : p[Len(h) + i] = r[i]
    PROVE  h \o r = p
<1> DEFINE c == h \o r
<1>1. /\ c \in Seq(S) /\ Len(c) = Len(h) + Len(r)
      /\ \A i \in 1 .. Len(h) : c[i] = h[i]
      /\ \A i \in 1 .. Len(r) : c[Len(h) + i] = r[i]
  BY ConcatAt
<1> HIDE DEF c
<1>2. Len(h) \in Nat /\ Len(r) \in Nat
  OBVIOUS
<1>3. ASSUME NEW i \in 1 .. Len(c) PROVE c[i] = p[i]
  <2>1. CASE i \in 1 .. Len(h)
    BY <1>1, <2>1
  <2>2. CASE i - Len(h) \in 1 .. Len(r)
    <3> DEFINE k == i - Len(h)
    <3>1. k \in 1 .. Len(r) /\ i = Len(h) + k
      BY <1>2, <2>2
    <3> HIDE DEF k
    <3>2. c[Len(h) + k] = r[k] /\ p[Len(h) + k] = r[k]
      BY <1>1, <3>1
    <3> QED  BY <3>1, <3>2
  <2> QED  BY <1>1, <1>2, <2>1, <2>2
<1>4. c = p
  BY <1>1, <1>3, SeqEqual
<1> QED  BY <1>4 DEF c

\* A sequence is its head and its tail.
LEMMA HeadThenTail ==
    ASSUME NEW S, NEW q \in Seq(S), q # <<>>
    PROVE  /\ <<Head(q)>> \in Seq(S) /\ Tail(q) \in Seq(S)
           /\ q = <<Head(q)>> \o Tail(q)
<1>1. /\ Head(q) \in S /\ Tail(q) \in Seq(S) /\ Len(Tail(q)) = Len(q) - 1
      /\ \A i \in 1 .. Len(Tail(q)) : Tail(q)[i] = q[i + 1]
      /\ Len(q) \in Nat \ {0} /\ Head(q) = q[1]
  BY EmptySeq, HeadTailProperties
<1> DEFINE h == <<Head(q)>>
<1> DEFINE r == Tail(q)
<1>2. h \in Seq(S) /\ Len(h) = 1 /\ h[1] = q[1]
  BY <1>1
<1>3. r \in Seq(S) /\ Len(r) = Len(q) - 1 /\ \A i \in 1 .. Len(r) : r[i] = q[i + 1]
  BY <1>1
<1> HIDE DEF h, r
<1>4. \A i \in 1 .. Len(h) : q[i] = h[i]
  BY <1>2
<1>5. \A i \in 1 .. Len(r) : q[Len(h) + i] = r[i]
  BY <1>1, <1>2, <1>3
<1>6. Len(q) = Len(h) + Len(r)
  BY <1>1, <1>2, <1>3
<1>7. h \o r = q
  BY <1>2, <1>3, <1>4, <1>5, <1>6, ReadsAs
<1> QED  BY <1>2, <1>3, <1>7 DEF h, r

LEMMA MovedIsKept ==
    ASSUME NEW S, NEW p \in Seq(S), NEW q \in Seq(S), q # <<>>
    PROVE  Append(p, Head(q)) \o Tail(q) = p \o q
<1>1. /\ <<Head(q)>> \in Seq(S) /\ Tail(q) \in Seq(S) /\ Head(q) \in S
      /\ q = <<Head(q)>> \o Tail(q)
  BY HeadThenTail, HeadTailProperties
<1>2. Append(p, Head(q)) = p \o <<Head(q)>>
  BY <1>1, AppendIsConcat
<1> QED  BY <1>1, <1>2, ConcatAssociative

\* The parts of p \o q before and after the end of p.
LEMMA Parts ==
    ASSUME NEW S, NEW p \in Seq(S), NEW q \in Seq(S), q # <<>>
    PROVE  /\ p \o q \in Seq(S) /\ Len(p) + 1 \in DOMAIN (p \o q)
           /\ (p \o q)[Len(p) + 1] = Head(q)
           /\ SubSeq(p \o q, 1, Len(p)) = p
           /\ SubSeq(p \o q, Len(p) + 1, Len(p \o q)) = q
           /\ SubSeq(p \o q, Len(p) + 2, Len(p \o q)) = Tail(q)
<1> DEFINE c == p \o q
<1>1. /\ Len(p) \in Nat /\ Len(q) \in Nat \ {0} /\ Head(q) = q[1] /\ Head(q) \in S
      /\ Tail(q) \in Seq(S) /\ Len(Tail(q)) = Len(q) - 1
      /\ \A i \in 1 .. Len(Tail(q)) : Tail(q)[i] = q[i + 1]
  BY EmptySeq, HeadTailProperties
<1>2. /\ c \in Seq(S) /\ Len(c) = Len(p) + Len(q) /\ DOMAIN c = 1 .. Len(p) + Len(q)
      /\ \A i \in 1 .. Len(p) : c[i] = p[i]
      /\ \A i \in 1 .. Len(q) : c[Len(p) + i] = q[i]
  BY ConcatAt
<1> HIDE DEF c
<1>3. \A i \in 1 .. Len(c) : c[i] \in S
  BY <1>2, ElementOfSeq
<1>4. SubSeq(c, 1, Len(p)) = p
  <2> DEFINE b == SubSeq(c, 1, Len(p))
  <2>1. b \in Seq(S) /\ Len(b) = Len(p) /\ \A i \in 1 .. Len(p) : b[i] = c[i]
    BY <1>1, <1>2, <1>3, SubSeqProperties
  <2> HIDE DEF b
  <2>2. \A i \in 1 .. Len(b) : b[i] = p[i]
    BY <1>2, <2>1
  <2>3. b = p
    BY <2>1, <2>2, SeqEqual
  <2> QED  BY <2>3 DEF b
<1>5. SubSeq(c, Len(p) + 1, Len(c)) = q
  <2> DEFINE b == SubSeq(c, Len(p) + 1, Len(c))
  <2>1. b \in Seq(S) /\ Len(b) = Len(q) /\ \A i \in 1 .. Len(q) : b[i] = c[Len(p) + i]
    BY <1>1, <1>2, <1>3, SubSeqProperties
  <2> HIDE DEF b
  <2>2. \A i \in 1 .. Len(b) : b[i] = q[i]
    BY <1>2, <2>1
  <2>3. b = q
    BY <2>1, <2>2, SeqEqual
  <2> QED  BY <2>3 DEF b
<1>6. SubSeq(c, Len(p) + 2, Len(c)) = Tail(q)
  <2> DEFINE b == SubSeq(c, Len(p) + 2, Len(c))
  <2> DEFINE r == Tail(q)
  <2>1. b \in Seq(S) /\ Len(b) = Len(q) - 1 /\ \A i \in 1 .. Len(q) - 1 : b[i] = c[Len(p) + (i + 1)]
    BY <1>1, <1>2, <1>3, SubSeqProperties
  <2>2. r \in Seq(S) /\ Len(r) = Len(q) - 1 /\ \A i \in 1 .. Len(q) - 1 : r[i] = q[i + 1]
    BY <1>1
  <2> HIDE DEF b, r
  <2>3. \A i \in 1 .. Len(q) - 1 : i + 1 \in 1 .. Len(q)
    BY <1>1
  <2>4. \A i \in 1 .. Len(b) : b[i] = r[i]
    BY <1>2, <2>1, <2>2, <2>3
  <2>5. b = r
    BY <2>1, <2>2, <2>4, SeqEqual
  <2> QED  BY <2>5 DEF b, r
<1>7. Len(p) + 1 \in DOMAIN c /\ c[Len(p) + 1] = Head(q)
  BY <1>1, <1>2
<1> QED  BY <1>2, <1>4, <1>5, <1>6, <1>7 DEF c

LEMMA RemovedBehind ==
    ASSUME NEW S, NEW p \in Seq(S), NEW q \in Seq(S), q # <<>>
    PROVE  RemoveAt(p \o q, Len(p) + 1) = p \o Tail(q)
<1>1. (Len(p) + 1) - 1 = Len(p) /\ (Len(p) + 1) + 1 = Len(p) + 2
  OBVIOUS
<1>2. RemoveAt(p \o q, Len(p) + 1)
        = SubSeq(p \o q, 1, Len(p)) \o SubSeq(p \o q, Len(p) + 2, Len(p \o q))
  BY <1>1, Zenon DEF RemoveAt
<1>3. SubSeq(p \o q, 1, Len(p)) = p /\ SubSeq(p \o q, Len(p) + 2, Len(p \o q)) = Tail(q)
  BY Parts
<1> QED  BY <1>2, <1>3, Zenon

LEMMA InsertedBehind ==
    ASSUME NEW S, NEW p \in Seq(S), NEW q \in Seq(S), q # <<>>
    PROVE  InsertAt(p \o q, Len(p) + 1, (p \o q)[Len(p) + 1]) = Append(p, Head(q)) \o q
<1>1. Head(q) \in S
  BY HeadTailProperties
<1>2. (Len(p) + 1) - 1 = Len(p)
  OBVIOUS
<1>3. /\ (p \o q)[Len(p) + 1] = Head(q)
      /\ SubSeq(p \o q, 1, Len(p)) = p /\ SubSeq(p \o q, Len(p) + 1, Len(p \o q)) = q
  BY Parts
<1>4. InsertAt(p \o q, Len(p) + 1, Head(q))
        = (SubSeq(p \o q, 1, Len(p)) \o <<Head(q)>>) \o SubSeq(p \o q, Len(p) + 1, Len(p \o q))
  BY <1>2, Zenon DEF InsertAt
<1>5. Append(p, Head(q)) = p \o <<Head(q)>>
  BY <1>1, AppendIsConcat
<1> QED  BY <1>3, <1>4, <1>5, Zenon

LEMMA LastRepeated ==
    ASSUME NEW S, NEW p \in Seq(S), p # <<>>
    PROVE  /\ Len(p) \in DOMAIN p
           /\ InsertAt(p, Len(p), p[Len(p)]) = Append(p, Last(p))
<1>1. Len(p) \in Nat \ {0} /\ DOMAIN p = 1 .. Len(p) /\ Last(p) \in S /\ Last(p) = p[Len(p)]
  BY EmptySeq, ElementOfSeq DEF Last
<1> DEFINE b == SubSeq(p, 1, Len(p) - 1)
<1> DEFINE e == <<Last(p)>>
<1>2. \A i \in 1 .. Len(p) : p[i] \in S
  BY ElementOfSeq
<1>3. b \in Seq(S) /\ Len(b) = Len(p) - 1 /\ \A i \in 1 .. Len(p) - 1 : b[i] = p[i]
  BY <1>1, <1>2, SubSeqProperties
<1>4. e \in Seq(S) /\ Len(e) = 1 /\ e[1] = p[Len(p)]
  BY <1>1
<1>5. SubSeq(p, Len(p), Len(p)) = e
  <2> DEFINE d == SubSeq(p, Len(p), Len(p))
  <2>1. d \in Seq(S) /\ Len(d) = 1 /\ d[1] = p[Len(p)]
    BY <1>1, <1>2, SubSeqProperties
  <2> HIDE DEF d, e
  <2>2. d = e
    BY <1>4, <2>1, SeqEqual
  <2> QED  BY <2>2 DEF d
<1>6. InsertAt(p, Len(p), p[Len(p)]) = (b \o e) \o e
  BY <1>1, <1>5, Zenon DEF InsertAt
<1>7. Append(p, Last(p)) = p \o e
  BY <1>1, AppendIsConcat
<1>8. b \o e = p
  <2> HIDE DEF b, e
  <2>1. Len(p) = Len(b) + Len(e)
    BY <1>1, <1>3, <1>4
  <2>2. \A i \in 1 .. Len(b) : p[i] = b[i]
    BY <1>3
  <2>3. \A i \in 1 .. Len(e) : p[Len(b) + i] = e[i]
    BY <1>1, <1>3, <1>4
  <2> QED  BY <1>3, <1>4, <2>1, <2>2, <2>3, ReadsAs
<1> HIDE DEF b, e
<1>9. Len(p) \in DOMAIN p
  BY <1>1
<1> QED  BY <1>6, <1>7, <1>8, <1>9, Zenon

-----------------------------------------------------------------------------
(***************************************************************************)
(* One writer: the abstract log.                                           *)
(***************************************************************************)
\* The abstract log is a function of the switch, so a step on one switch is
\* an EXCEPT.
LEMMA HeldOf ==
    \A s \in Switch :
        /\ (\A t \in Caller : ~(pc[t] = "pop" /\ of[t] = s)) => Held[s] = primary[s] \o fallback[s]
        /\ (\E t \in Caller : pc[t] = "pop" /\ of[t] = s) => Held[s] = primary[s] \o Tail(fallback[s])
  BY Zenon DEF Held

LEMMA HeldSame == (\A s \in Switch : Held'[s] = Held[s]) => Held' = Held
  BY DEF Held

LEMMA HeldExcept ==
    ASSUME NEW s \in Switch, NEW x, Held'[s] = x, \A v \in Switch \ {s} : Held'[v] = Held[v]
    PROVE  Held' = [Held EXCEPT ![s] = x]
<1>1. Held = [v \in Switch |-> Held[v]]
  BY DEF Held
<1>2. Held' = [v \in Switch |-> Held'[v]]
  BY DEF Held
<1>3. ASSUME NEW f, NEW g, f = [v \in Switch |-> f[v]], g = [v \in Switch |-> g[v]],
             g[s] = x, \A v \in Switch \ {s} : g[v] = f[v]
      PROVE  g = [f EXCEPT ![s] = x]
  <2>1. DOMAIN [f EXCEPT ![s] = x] = Switch
    BY <1>3
  <2>2. \A v \in Switch : [f EXCEPT ![s] = x][v] = g[v]
    BY <1>3
  <2> QED  BY <1>3, <2>1, <2>2
<1> QED  BY <1>1, <1>2, <1>3

LEMMA HeldAccepts ==
    ASSUME NEW s \in Switch, NEW r \in Record, r \notin ToSet(Held[s]),
           Held'[s] = Append(Held[s], r), \A v \in Switch \ {s} : Held'[v] = Held[v],
           UNCHANGED evictions
    PROVE  Promised!Next
<1>1. Held' = [Held EXCEPT ![s] = Append(Held[s], r)]
  BY HeldExcept
<1>2. Promised!Accept(s, r)
  BY <1>1 DEF Promised!Accept, ToSet, Promised!ToSet
<1> QED  BY <1>2 DEF Promised!Next

LEMMA HeldRepeats ==
    ASSUME NEW s \in Switch, NEW i \in DOMAIN Held[s],
           Held'[s] = InsertAt(Held[s], i, Held[s][i]), \A v \in Switch \ {s} : Held'[v] = Held[v],
           UNCHANGED evictions
    PROVE  Promised!Next
<1>1. Held' = [Held EXCEPT ![s] = InsertAt(Held[s], i, Held[s][i])]
  BY HeldExcept
<1>2. Promised!Repeat(s, i)
  BY <1>1 DEF Promised!Repeat, InsertAt, Promised!InsertAt
<1> QED  BY <1>2 DEF Promised!Next

LEMMA HeldDisplaces ==
    ASSUME NEW s \in Switch, NEW r \in Record, NEW i \in DOMAIN Held[s], r \notin ToSet(Held[s]),
           Held'[s] = Append(RemoveAt(Held[s], i), r), \A v \in Switch \ {s} : Held'[v] = Held[v],
           UNCHANGED evictions
    PROVE  Promised!Next
<1>1. Held' = [Held EXCEPT ![s] = Append(RemoveAt(Held[s], i), r)]
  BY HeldExcept
<1>2. Promised!Displace(s, r, i)
  BY <1>1 DEF Promised!Displace, ToSet, RemoveAt, Promised!ToSet, Promised!RemoveAt
<1> QED  BY <1>2 DEF Promised!Next

\* The writer between a move and its pop stands alone.
LEMMA HeldWhole ==
    ASSUME Drainable, OneWriter, NEW w \in Writer, pc[w] # "pop"
    PROVE  \A s \in Switch : Held[s] = primary[s] \o fallback[s]
<1>1. \A t \in Caller : pc[t] # "pop"
  BY DEF Drainable, Reading, OneWriter
<1> QED  BY <1>1, HeldOf

LEMMA HeldPopping ==
    ASSUME Drainable, OneWriter, NEW w \in Writer, pc[w] = "pop", of[w] \in Switch
    PROVE  /\ Held[of[w]] = primary[of[w]] \o Tail(fallback[of[w]])
           /\ \A s \in Switch \ {of[w]} : Held[s] = primary[s] \o fallback[s]
<1>1. w \in Caller
  BY DEF Writer
<1>2. \A t \in Caller : pc[t] = "pop" => t = w
  BY DEF Drainable, Reading, OneWriter
<1> QED  BY <1>1, <1>2, HeldOf

\* The same of the next state.
LEMMA HeldWholeNext ==
    ASSUME Drainable', OneWriter, NEW w \in Writer, pc'[w] # "pop"
    PROVE  \A s \in Switch : Held'[s] = primary'[s] \o fallback'[s]
<1>1. \A t \in Caller : pc'[t] # "pop"
  BY DEF Drainable, Reading, OneWriter
<1> QED  BY <1>1 DEF Held

LEMMA HeldPoppingNext ==
    ASSUME Drainable', OneWriter, NEW w \in Writer, pc'[w] = "pop", of'[w] \in Switch
    PROVE  /\ Held'[of'[w]] = primary'[of'[w]] \o Tail(fallback'[of'[w]])
           /\ \A s \in Switch \ {of'[w]} : Held'[s] = primary'[s] \o fallback'[s]
<1>1. w \in Caller
  BY DEF Writer
<1>2. \A t \in Caller : pc'[t] = "pop" => t = w
  BY DEF Drainable, Reading, OneWriter
<1> QED  BY <1>1, <1>2 DEF Held

\* A record stored by the writer while nothing is buffered for its switch.
LEMMA StoredIsAccepted ==
    ASSUME OneWriter, TypeOK, Drainable, Drainable', NEW w \in Writer,
           pc[w] # "pop", pc'[w] # "pop", Stored(w), UNCHANGED <<fallback, evictions>>,
           hand[w] \in Record, hand[w] \notin ToSet(primary[of[w]]), fallback = Nothing
    PROVE  Promised!Next
<1> DEFINE s == of[w]
<1>1. s \in Switch /\ primary[s] \in Seq(Record) /\ primary'[s] = Append(primary[s], hand[w])
      /\ \A v \in Switch \ {s} : primary'[v] = primary[v]
  BY StoredType DEF TypeOK, Writer
<1>u. fallback' = fallback
  OBVIOUS
<1>2. \A v \in Switch : fallback[v] = <<>>
  BY EmptyHolds
<1>3. \A v \in Switch : Held[v] = primary[v] \o fallback[v]
  BY HeldWhole
<1>4. \A v \in Switch : Held'[v] = primary'[v] \o fallback'[v]
  BY HeldWholeNext
<1>5. Held[s] = primary[s]
  BY <1>1, <1>2, <1>3, ConcatEmptySeq
<1>6. Held'[s] = Append(primary[s], hand[w])
  <2>1. Held'[s] = Append(primary[s], hand[w]) \o <<>>
    BY <1>1, <1>2, <1>4, <1>u
  <2>2. Append(primary[s], hand[w]) \in Seq(Record)
    BY <1>1
  <2> QED  BY <2>1, <2>2, ConcatEmptySeq
<1>7. \A v \in Switch \ {s} : Held'[v] = Held[v]
  BY <1>1, <1>3, <1>4, <1>u
<1> QED  BY <1>1, <1>5, <1>6, <1>7, HeldAccepts

\* A spill puts the record at the end; a full buffer lets its head go; a
\* record that a raising primary kept is there already, at the end.
LEMMA SpillIsKeptInOrder ==
    ASSUME OneWriter, TypeOK, InHand, Drainable, Drainable', NEW w \in Writer, Fresh(w), Spill(w)
    PROVE  Promised!Next
<1> DEFINE s == of[w]
<1> DEFINE p == primary[s]
<1> DEFINE q == fallback[s]
<1> DEFINE r == hand[w]
<1>1. /\ s \in Switch /\ p \in Seq(Record) /\ q \in Seq(Record) /\ r \in Record
      /\ pc[w] = "spill" /\ pc'[w] = "count" /\ UNCHANGED <<primary, evictions>>
      /\ fallback'[s] = Bounded(s, r) /\ \A v \in Switch \ {s} : fallback'[v] = fallback[v]
  BY DEF Spill, Goto, TypeOK, Writer, InHand
<1>2. \A v \in Switch : Held[v] = primary[v] \o fallback[v]
  BY <1>1, HeldWhole
<1>3. \A v \in Switch : Held'[v] = primary'[v] \o fallback'[v]
  BY <1>1, HeldWholeNext
<1>4. \A v \in Switch \ {s} : Held'[v] = Held[v]
  BY <1>1, <1>2, <1>3
<1>5. Held[s] = p \o q /\ Held'[s] = p \o Bounded(s, r)
  BY <1>1, <1>2, <1>3
<1>6. /\ r \notin ToSet(q)
      /\ r \notin ToSet(p) \/ (fallback = Nothing /\ p # <<>> /\ Last(p) = r)
  <2>1. pc[w] = "spill" /\ s \in Switch
    BY <1>1
  <2>2. pc[w] \in {"try", "degrade", "measure", "spill"}
    BY <2>1
  <2>3. /\ \A v \in Switch : hand[w] \notin ToSet(fallback[v])
        /\ \/ hand[w] \notin ToSet(primary[of[w]])
           \/ /\ fallback = Nothing
              /\ primary[of[w]] # <<>> /\ Last(primary[of[w]]) = hand[w]
    BY <2>2, Zenon DEF Fresh
  <2> QED  BY <2>1, <2>3, Zenon
<1>7. Full(s) => q # <<>>
  BY <1>1, EmptySeq, ResilientAssumption DEF Full
<1> HIDE DEF s, p, q, r
<1>8. CASE r \notin ToSet(p)
  <2>1. r \notin ToSet(Held[s])
    BY <1>1, <1>5, <1>6, <1>8, ConcatHolds
  <2>2. CASE ~Full(s)
    <3>1. Bounded(s, r) = Append(q, r)
      BY <2>2 DEF Bounded, q
    <3>2. Held'[s] = Append(Held[s], r)
      BY <1>1, <1>5, <3>1, AppendBehind
    <3> QED  BY <1>1, <1>4, <2>1, <3>2, HeldAccepts
  <2>3. CASE Full(s)
    <3>1. q # <<>>
      BY <1>7, <2>3
    <3>2. Bounded(s, r) = Append(Tail(q), r)
      BY <2>3 DEF Bounded, q
    <3>3. RemoveAt(Held[s], Len(p) + 1) = p \o Tail(q) /\ Len(p) + 1 \in DOMAIN Held[s]
      BY <1>1, <1>5, <3>1, RemovedBehind, Parts
    <3>4. Tail(q) \in Seq(Record)
      BY <1>1, <3>1, HeadTailProperties
    <3>5. Held'[s] = p \o Append(Tail(q), r)
      BY <1>5, <3>2
    <3>6. Held'[s] = Append(RemoveAt(Held[s], Len(p) + 1), r)
      <4> DEFINE x == Tail(q)
      <4> DEFINE y == RemoveAt(Held[s], Len(p) + 1)
      <4>1. x \in Seq(Record) /\ y = p \o x /\ Held'[s] = p \o Append(x, r)
        BY <3>3, <3>4, <3>5
      <4> HIDE DEF x, y
      <4>2. Held'[s] = Append(y, r)
        BY <1>1, <4>1, AppendBehind, SMTT(30)
      <4> QED  BY <4>2 DEF y
    <3> QED  BY <1>1, <1>4, <2>1, <3>3, <3>6, HeldDisplaces
  <2> QED  BY <2>2, <2>3
<1>9. CASE r \in ToSet(p)
  <2>1. q = <<>> /\ p # <<>> /\ Last(p) = r
    BY <1>1, <1>6, <1>9, EmptyHolds DEF q
  <2>2. Bounded(s, r) = Append(q, r)
    BY <1>7, <2>1 DEF Bounded, q
  <2>3. Held[s] = p
    BY <1>1, <1>5, <2>1, ConcatEmptySeq
  <2>4. Held'[s] = Append(Held[s], r)
    BY <1>1, <1>5, <2>2, AppendBehind
  <2>5. /\ Len(p) \in DOMAIN Held[s]
        /\ Held'[s] = InsertAt(Held[s], Len(p), Held[s][Len(p)])
    BY <1>1, <2>1, <2>3, <2>4, LastRepeated
  <2> QED  BY <1>1, <1>4, <2>5, HeldRepeats
<1> QED  BY <1>8, <1>9

\* The head of a buffer moves to the end of the primary: the log is the same.
LEMMA MoveIsSilent ==
    ASSUME OneWriter, TypeOK, InHand, Drainable, Drainable', NEW w \in Writer, Move(w)
    PROVE  UNCHANGED <<Held, evictions>>
<1> DEFINE s == of[w]
<1> DEFINE p == primary[s]
<1> DEFINE q == fallback[s]
<1>1. /\ s \in Switch /\ p \in Seq(Record) /\ q \in Seq(Record)
      /\ pc[w] = "move" /\ pc'[w] = "pop" /\ of'[w] = s /\ UNCHANGED <<fallback, evictions>>
      /\ primary'[s] = Append(p, hand[w]) /\ \A v \in Switch \ {s} : primary'[v] = primary[v]
  BY StoredType DEF Move, Goto, TypeOK, Writer, InHand, call
<1>2. q # <<>> /\ hand[w] = Head(q)
  BY <1>1 DEF Drainable, Episode
<1>3. \A v \in Switch : Held[v] = primary[v] \o fallback[v]
  BY <1>1, HeldWhole
<1>4. /\ Held'[s] = Append(p, Head(q)) \o Tail(q)
      /\ \A v \in Switch \ {s} : Held'[v] = primary'[v] \o fallback'[v]
  BY <1>1, <1>2, HeldPoppingNext
<1>5. Held'[s] = Held[s]
  <2>1. Append(p, Head(q)) \o Tail(q) = p \o q
    BY <1>1, <1>2, MovedIsKept
  <2>2. Held[s] = p \o q
    BY <1>1, <1>3
  <2> QED  BY <1>4, <2>1, <2>2, Zenon
<1>6. \A v \in Switch \ {s} : Held'[v] = Held[v]
  BY <1>1, <1>3, <1>4
<1> QED  BY <1>1, <1>5, <1>6, HeldSame

\* The primary raised, and kept the record all the same: it is there twice.
LEMMA MoveRepeats ==
    ASSUME OneWriter, TypeOK, InHand, Drainable, Drainable', NEW w \in Writer, MoveRaises(w), Stored(w)
    PROVE  Promised!Next
<1> DEFINE s == of[w]
<1> DEFINE p == primary[s]
<1> DEFINE q == fallback[s]
<1>1. /\ s \in Switch /\ p \in Seq(Record) /\ q \in Seq(Record)
      /\ pc[w] = "move" /\ pc'[w] = "idle" /\ UNCHANGED <<fallback, evictions>>
      /\ primary'[s] = Append(p, hand[w]) /\ \A v \in Switch \ {s} : primary'[v] = primary[v]
  BY StoredType DEF MoveRaises, RaiseFrom, Goto, TypeOK, Writer, InHand
<1>2. q # <<>> /\ hand[w] = Head(q)
  BY <1>1 DEF Drainable, Episode
<1>3. \A v \in Switch : Held[v] = primary[v] \o fallback[v]
  BY <1>1, HeldWhole
<1>4. \A v \in Switch : Held'[v] = primary'[v] \o fallback'[v]
  BY <1>1, HeldWholeNext
<1>5. Held[s] = p \o q /\ Held'[s] = Append(p, Head(q)) \o q
  BY <1>1, <1>2, <1>3, <1>4
<1>6. \A v \in Switch \ {s} : Held'[v] = Held[v]
  BY <1>1, <1>3, <1>4
<1> HIDE DEF s, p, q
<1>7. /\ Len(p) + 1 \in DOMAIN Held[s]
      /\ Held'[s] = InsertAt(Held[s], Len(p) + 1, Held[s][Len(p) + 1])
  <2>1. p \in Seq(Record) /\ q \in Seq(Record) /\ q # <<>>
    BY <1>1, <1>2, Parts
  <2>2. /\ Len(p) + 1 \in DOMAIN (p \o q)
        /\ InsertAt(p \o q, Len(p) + 1, (p \o q)[Len(p) + 1]) = Append(p, Head(q)) \o q
    BY <2>1, InsertedBehind, Parts
  <2> QED  BY <1>5, <2>2, Zenon
<1> QED  BY <1>1, <1>6, <1>7, HeldRepeats

LEMMA PopIsSilent ==
    ASSUME OneWriter, TypeOK, Drainable, Drainable', NEW w \in Writer, Pop(w)
    PROVE  UNCHANGED <<Held, evictions>>
<1> DEFINE s == of[w]
<1>1. /\ s \in Switch /\ pc[w] = "pop" /\ pc'[w] = "head" /\ UNCHANGED <<primary, evictions>>
  BY DEF Pop, PopLeaves, Goto, TypeOK, Writer
<1>2. fallback[s] # <<>>
  BY <1>1 DEF Drainable, Episode
<1>3. fallback'[s] = Tail(fallback[s]) /\ \A v \in Switch \ {s} : fallback'[v] = fallback[v]
  BY <1>1, <1>2 DEF Pop, PopLeaves, TypeOK
<1>4. /\ Held[s] = primary[s] \o Tail(fallback[s])
      /\ \A v \in Switch \ {s} : Held[v] = primary[v] \o fallback[v]
  BY <1>1, HeldPopping
<1>5. \A v \in Switch : Held'[v] = primary'[v] \o fallback'[v]
  BY <1>1, HeldWholeNext
<1>6. \A v \in Switch : Held'[v] = Held[v]
  BY <1>1, <1>3, <1>4, <1>5
<1> QED  BY <1>1, <1>6, HeldSame

\* A step of the writer that stays out of the buffers and of the counter.
LEMMA QuietIsSilent ==
    ASSUME OneWriter, Drainable, Drainable', NEW w \in Writer, pc[w] # "pop", pc'[w] # "pop",
           UNCHANGED <<primary, fallback>>
    PROVE  Held' = Held
<1>u. primary' = primary /\ fallback' = fallback
  OBVIOUS
<1>1. \A v \in Switch : Held[v] = primary[v] \o fallback[v]
  BY HeldWhole
<1>2. \A v \in Switch : Held'[v] = primary'[v] \o fallback'[v]
  BY HeldWholeNext
<1> QED  BY <1>u, <1>1, <1>2, HeldSame

LEMMA RefinementStep ==
    ASSUME OneWriter, TypeOK, InHand, Drainable, Tally, [Next]_vars, TypeOK', Drainable'
    PROVE  [Promised!Next]_<<Held, evictions>>
<1>t. ASSUME NEW w \in Writer PROVE w \in Caller /\ Episode(w) /\ Fresh(w)
  BY DEF Drainable, Tally, Writer
<1>q. ASSUME NEW w \in Writer, pc[w] # "pop", pc'[w] # "pop",
             UNCHANGED <<primary, fallback, evictions>>
      PROVE  UNCHANGED <<Held, evictions>>
  <2>1. Held' = Held
    BY <1>q, QuietIsSilent
  <2> QED  BY <1>q, <2>1
<1>1. ASSUME NEW w \in Caller, NEW s \in Switch, AppendBegin(w, s)
      PROVE  UNCHANGED <<Held, evictions>>
  <2>1. w \in Writer
    BY <1>1, WritersWrite DEF Drainable
  <2>2. pc[w] # "pop" /\ pc'[w] # "pop" /\ UNCHANGED <<primary, fallback, evictions>>
    BY <1>1 DEF AppendBegin, AppendTracking, Goto, store, TypeOK
  <2> QED  BY <1>q, <2>1, <2>2
<1>2. ASSUME NEW w \in Caller, AppendStep(w)
      PROVE  Promised!Next \/ UNCHANGED <<Held, evictions>>
  <2>w. w \in Writer /\ Episode(w) /\ Fresh(w)
    BY <1>2, <1>t, WritersWrite DEF Drainable
  <2>1. CASE PrimaryTakes(w)
    <3>1. /\ pc[w] = "try" /\ pc'[w] = "idle" /\ Stored(w) /\ UNCHANGED <<fallback, evictions>>
      BY <2>1 DEF PrimaryTakes, Goto, TypeOK
    <3>2. hand[w] \in Record /\ hand[w] \notin ToSet(primary[of[w]]) /\ fallback = Nothing
      BY <2>w, <3>1 DEF Episode, Fresh, Drainable, InHand
    <3> QED  BY <2>w, <3>1, <3>2, StoredIsAccepted
  <2>2. CASE PrimaryRaises(w)
    <3>1. /\ pc[w] = "try" /\ pc'[w] # "pop" /\ (UNCHANGED primary \/ Stored(w))
          /\ UNCHANGED <<fallback, evictions>>
      BY <2>2 DEF PrimaryRaises, RaiseFrom, Goto, TypeOK
    <3>2. hand[w] \in Record /\ hand[w] \notin ToSet(primary[of[w]]) /\ fallback = Nothing
      BY <2>w, <3>1 DEF Episode, Fresh, Drainable, InHand
    <3>3. CASE Stored(w)
      BY <2>w, <3>1, <3>2, <3>3, StoredIsAccepted
    <3>4. CASE UNCHANGED primary
      BY <1>q, <2>w, <3>1, <3>4
    <3> QED  BY <3>1, <3>3, <3>4
  <2>3. CASE EnterDegraded(w)
    <3>1. pc[w] # "pop" /\ pc'[w] # "pop" /\ UNCHANGED <<primary, fallback, evictions>>
      BY <2>3 DEF EnterDegraded, Goto, store, TypeOK
    <3> QED  BY <1>q, <2>w, <3>1
  <2>4. CASE Measure(w)
    <3>1. pc[w] # "pop" /\ pc'[w] # "pop" /\ UNCHANGED <<primary, fallback, evictions>>
      BY <2>4 DEF Measure, Goto, store, TypeOK
    <3> QED  BY <1>q, <2>w, <3>1
  <2>5. CASE Spill(w)
    BY <2>w, <2>5, SpillIsKeptInOrder
  <2>6. CASE CountSpilled(w)
    <3>1. /\ pc[w] # "pop" /\ pc'[w] # "pop" /\ UNCHANGED <<primary, fallback>>
          /\ evictions' = evictions + 1 \/ evictions' = evictions
      BY <2>6 DEF CountSpilled, CountWhen, Goto, store, TypeOK
    <3>2. Held' = Held
      BY <2>w, <3>1, QuietIsSilent
    <3> QED  BY <3>1, <3>2 DEF Promised!Next, Promised!Count
  <2> QED  BY <1>2, <2>1, <2>2, <2>3, <2>4, <2>5, <2>6 DEF AppendStep
<1>3. ASSUME NEW w \in Caller, Drain(w)
      PROVE  UNCHANGED <<Held, evictions>>
  <2>1. w \in Writer
    BY <1>3, WritersWrite DEF Drainable
  <2>2. pc[w] # "pop" /\ pc'[w] # "pop" /\ UNCHANGED <<primary, fallback, evictions>>
    BY <1>3 DEF Drain, Goto, store, TypeOK
  <2> QED  BY <1>q, <2>1, <2>2
<1>4. ASSUME NEW w \in Caller, RecoverStep(w)
      PROVE  Promised!Next \/ UNCHANGED <<Held, evictions>>
  <2>w. w \in Writer
    BY <1>4, WritersWrite DEF Drainable
  <2>1. CASE Move(w)
    BY <2>w, <2>1, MoveIsSilent
  <2>2. CASE MoveRaises(w)
    <3>1. /\ pc[w] # "pop" /\ pc'[w] # "pop" /\ (UNCHANGED primary \/ Stored(w))
          /\ UNCHANGED <<fallback, evictions>>
      BY <2>2 DEF MoveRaises, RaiseFrom, Goto, TypeOK
    <3>2. CASE Stored(w)
      BY <2>w, <2>2, <3>2, MoveRepeats
    <3>3. CASE UNCHANGED primary
      BY <1>q, <2>w, <3>1, <3>3
    <3> QED  BY <3>1, <3>2, <3>3
  <2>3. CASE Pop(w)
    BY <2>w, <2>3, PopIsSilent
  <2>4. CASE SwitchDone(w) \/ TakeHead(w) \/ Drained(w) \/ Healthy(w)
    <3>1. pc[w] # "pop" /\ pc'[w] # "pop" /\ UNCHANGED <<primary, fallback, evictions>>
      BY <2>4 DEF SwitchDone, TakeHead, Drained, Healthy, Goto, store, TypeOK
    <3> QED  BY <1>q, <2>w, <3>1
  <2> QED  BY <1>4, <2>1, <2>2, <2>3, <2>4 DEF RecoverStep
<1>5. ASSUME NEW t \in Caller, Load(t) PROVE UNCHANGED <<Held, evictions>>
  <2>1. /\ UNCHANGED <<primary, fallback, evictions>> /\ Reading(t) /\ Reading(t)'
        /\ \A u \in Caller \ {t} : pc'[u] = pc[u] /\ of'[u] = of[u]
    BY <1>5, LoadsReadOnly
  <2>2. \A u \in Caller, s \in Switch : (pc'[u] = "pop" /\ of'[u] = s) <=> (pc[u] = "pop" /\ of[u] = s)
    BY <2>1 DEF Reading
  <2>3. primary' = primary /\ fallback' = fallback
    BY <2>1
  <2>4. \A s \in Switch : Held'[s] = Held[s]
    <3> TAKE s \in Switch
    <3>1. (\E u \in Caller : pc'[u] = "pop" /\ of'[u] = s) <=> (\E u \in Caller : pc[u] = "pop" /\ of[u] = s)
      BY <2>2
    <3>2. /\ Held[s] = primary[s] \o IF \E u \in Caller : pc[u] = "pop" /\ of[u] = s
                                      THEN Tail(fallback[s]) ELSE fallback[s]
          /\ Held'[s] = primary'[s] \o IF \E u \in Caller : pc'[u] = "pop" /\ of'[u] = s
                                        THEN Tail(fallback'[s]) ELSE fallback'[s]
      BY Zenon DEF Held
    <3>3. CASE \E u \in Caller : pc[u] = "pop" /\ of[u] = s
      BY <2>3, <3>1, <3>2, <3>3
    <3>4. CASE ~ \E u \in Caller : pc[u] = "pop" /\ of[u] = s
      BY <2>3, <3>1, <3>2, <3>4
    <3> QED  BY <3>3, <3>4
  <2> QED  BY <2>1, <2>4, HeldSame
<1>6. CASE UNCHANGED vars
  BY <1>6 DEF vars, Held
<1> QED
  BY <1>1, <1>2, <1>3, <1>4, <1>5, <1>6 DEF Next, Load

\* With one writer, ResilientStorage is one ordered log: whatever the primary
\* does, a record leaves it only by a counted eviction, and is repeated only
\* next to itself, when a raising primary had kept it.
THEOREM Refines ==
    ASSUME OneWriter
    PROVE  Spec => ImplementsOutcomeLog
<1> DEFINE Inv == TypeOK /\ InHand /\ Drainable /\ Tally
<1>1. Init => Inv
  BY TypeInit, EpisodeInit
<1>2. OneWriter /\ Inv /\ [Next]_vars => Inv'
  BY TypeStep, DrainableStep, TallyStep
<1>3. Init => Promised!Init
  <2> SUFFICES ASSUME Init PROVE Promised!Init
    OBVIOUS
  <2>1. /\ \A t \in Caller : pc[t] = "idle"
        /\ \A s \in Switch : primary[s] = <<>> /\ fallback[s] = <<>>
        /\ evictions = 0
    BY EmptyHolds DEF Init
  <2>2. \A s \in Switch : Held[s] = primary[s] \o fallback[s]
    BY <2>1, HeldOf
  <2>3. \A s \in Switch : Held[s] = <<>>
    <3>1. <<>> \o <<>> = <<>>
      BY ConcatEmptySeq
    <3> QED  BY <2>1, <2>2, <3>1, Zenon
  <2>4. Held = [s \in Switch |-> Held[s]]
    BY DEF Held
  <2> QED  BY <2>1, <2>3, <2>4 DEF Promised!Init
<1>4. OneWriter /\ Inv /\ Inv' /\ [Next]_vars => [Promised!Next]_<<Held, evictions>>
  BY RefinementStep
<1>5. OneWriter /\ Spec => Promised!Spec
  BY <1>1, <1>2, <1>3, <1>4, PTL DEF Spec, Promised!Spec
<1> QED  BY <1>5 DEF ImplementsOutcomeLog
=============================================================================
