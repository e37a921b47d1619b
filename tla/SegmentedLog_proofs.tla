------------------------- MODULE SegmentedLog_proofs -------------------------
(***************************************************************************)
(* Theorems about SegmentedLog, for any segment size, retention and batch, *)
(* and any number of short writes, failed renames and cut-off appends:     *)
(* typing for any number of processes, and, for one process, that          *)
(* load_records reads the log in order, that rotation drops its oldest     *)
(* records, that the segments stay within their cap, and that no record    *)
(* is lost but those a short write cost.                                   *)
(***************************************************************************)
EXTENDS SegmentedLog, FiniteSetTheorems, TLAPS

\* One FileStorage instance over the directory; no call appends more records
\* than a segment holds.
OneProcess == \A p, q \in Process : p = q
BatchFits  == MaxBatch <= MaxBytes

(***************************************************************************)
(* What is written, whoever writes: a record's number is older than every  *)
(* number given out later, and it is written in one place.                 *)
(***************************************************************************)
Numbered == \A i \in DOMAIN file : \A k \in DOMAIN file[i] : file[i][k].rec < next
Ascending ==
    \A i \in DOMAIN file : \A j, k \in DOMAIN file[i] : j < k => file[i][j].rec < file[i][k].rec
WrittenOnce ==
    \A i, h \in DOMAIN file : \A j \in DOMAIN file[i], k \in DOMAIN file[h] :
        i # h => file[i][j].rec # file[h][k].rec

\* The records whose write was short.
Cut(f)  == {r \in 1 .. MaxRecords :
               \E i \in DOMAIN f : \E k \in DOMAIN f[i] : f[i][k].rec = r /\ f[i][k].shape # "whole"}
Counted == Cardinality(Cut(file)) <= short

\* A full name beyond the last one would be a rotation's.
Beyond == MaxRotated > 0 => slot[MaxRotated + 1] = Nobody

WInv == TypeOK /\ Numbered /\ Ascending /\ WrittenOnce /\ Counted /\ Beyond

(***************************************************************************)
(* One process.                                                            *)
(***************************************************************************)
\* It appends to the active segment only.
Own == \A p \in Process : fd[p] \in {Nobody, slot[0]}

\* An older name holds older records.
Layered(names) ==
    \A m, n \in Name :
        m < n /\ names[m] # Nobody /\ names[n] # Nobody =>
            /\ names[m] # names[n]
            /\ \A j \in DOMAIN file[names[m]], k \in DOMAIN file[names[n]] :
                   file[names[n]][k].rec < file[names[m]][j].rec

\* A piece of record r is where a reader looks under these names.
Found(r, files, names) ==
    \E n \in 0 .. MaxRotated :
        /\ names[n] # Nobody
        /\ \E k \in DOMAIN files[names[n]] : files[names[n]][k].rec = r

\* What is acknowledged has aged or is found, and while no rename failed what
\* has aged is older than what is found.
Kept     == \A r \in acked : r \in aged \/ Found(r, file, slot)
Retained == stuck = 0 => \A a \in aged, r \in 1 .. MaxRecords : Found(r, file, slot) => a < r

\* While no rename failed every segment is within its size.
Sized == stuck = 0 => \A n \in Name : slot[n] # Nobody => Len(file[slot[n]]) <= MaxBytes

OInv == Own /\ Layered(slot) /\ Kept /\ Retained

-----------------------------------------------------------------------------
(***************************************************************************)
(* Names.                                                                  *)
(***************************************************************************)
\* The names are a finite interval, and every name but 0 has one before it.
LEMMA Names ==
    /\ MaxRotated \in Nat /\ 0 \in Name /\ Name \subseteq Nat /\ IsFiniteSet(Name)
    /\ 0 .. MaxRotated \subseteq Name /\ MaxRotated + 1 \in Name
    /\ \A n \in Name : n <= MaxRotated + 1 /\ (n # 0 => n - 1 \in 0 .. MaxRotated)
<1>1. MaxRotated \in Nat
  BY SegmentedLogAssumption DEF SegmentedLogAssumption
<1>2. IsFiniteSet(0 .. MaxRotated + 1)
  BY <1>1, FS_Interval
<1> QED  BY <1>1, <1>2 DEF Name

\* A rotation moves the segment at n - 1 into name n.
Into(n, kept) == (n \in 1 .. MaxRotated \/ n = 1) /\ Moves(n - 1, kept)

LEMMA RotatedAt ==
    ASSUME NEW kept, NEW n \in Name
    PROVE  /\ Into(n, kept) => Rotated(kept)[n] = slot[n - 1]
           /\ ~Into(n, kept) /\ Moves(n, kept) => Rotated(kept)[n] = Nobody
           /\ ~Into(n, kept) /\ ~Moves(n, kept) => Rotated(kept)[n] = slot[n]
  BY DEF Rotated, Into

LEMMA RotatedType ==
    ASSUME TypeOK, NEW kept
    PROVE  /\ Rotated(kept) \in [Name -> 1 .. Len(file) \cup {Nobody}]
           /\ Rotated(kept)[0] \in {Nobody, slot[0]}
<1>1. ASSUME NEW n \in Name
      PROVE  Rotated(kept)[n] \in 1 .. Len(file) \cup {Nobody}
  <2>1. slot \in [Name -> 1 .. Len(file) \cup {Nobody}]
    BY DEF TypeOK
  <2>2. CASE Into(n, kept)
    <3>1. n # 0 /\ n - 1 \in Name
      BY <2>2, Names DEF Into
    <3> QED  BY <2>1, <2>2, <3>1, RotatedAt
  <2>3. CASE ~Into(n, kept)
    BY <2>1, <2>3, RotatedAt
  <2> QED  BY <2>2, <2>3
<1>2. Rotated(kept) = [n \in Name |-> Rotated(kept)[n]]
  BY DEF Rotated
<1>3. ~Into(0, kept)
  BY Names DEF Into
<1> QED  BY <1>1, <1>2, <1>3, RotatedAt, Names

\* A rotation leaves the segments in the order they were in.
LEMMA RotatedLayered ==
    ASSUME TypeOK, Layered(slot), NEW kept
    PROVE  Layered(Rotated(kept))
<1> DEFINE R == Rotated(kept)
<1> SUFFICES ASSUME NEW m \in Name, NEW n \in Name, m < n, R[m] # Nobody, R[n] # Nobody
             PROVE  \E a, b \in Name : a < b /\ R[m] = slot[a] /\ R[n] = slot[b]
  <2> HIDE DEF R
  <2> SUFFICES ASSUME NEW m \in Name, NEW n \in Name, m < n, R[m] # Nobody, R[n] # Nobody
               PROVE  /\ R[m] # R[n]
                      /\ \A j \in DOMAIN file[R[m]], k \in DOMAIN file[R[n]] :
                             file[R[n]][k].rec < file[R[m]][j].rec
    BY Zenon DEF Layered, R
  <2>1. PICK a \in Name, b \in Name : a < b /\ R[m] = slot[a] /\ R[n] = slot[b]
    OBVIOUS
  <2>2. slot[a] # Nobody /\ slot[b] # Nobody
    BY <2>1
  <2>3. /\ slot[a] # slot[b]
        /\ \A j \in DOMAIN file[slot[a]], k \in DOMAIN file[slot[b]] :
               file[slot[b]][k].rec < file[slot[a]][j].rec
    BY <2>1, <2>2, Zenon DEF Layered
  <2> QED  BY <2>1, <2>3, Zenon
<1>1. m \in Nat /\ n \in Nat
  BY Names
<1>2. CASE Into(n, kept)
  <2>1. n - 1 \in Name /\ Rotated(kept)[n] = slot[n - 1]
    BY <1>2, RotatedAt, Names DEF Into
  <2>2. CASE Into(m, kept)
    <3>1. m - 1 \in Name /\ Rotated(kept)[m] = slot[m - 1]
      BY <2>2, RotatedAt, Names DEF Into
    <3>2. m - 1 < n - 1
      BY <1>1
    <3> QED  BY <2>1, <3>1, <3>2, Zenon
  <2>3. CASE ~Into(m, kept)
    <3>1. ~Moves(m, kept) /\ Rotated(kept)[m] = slot[m]
      BY <2>3, RotatedAt
    <3>2. m # n - 1
      BY <1>2, <3>1 DEF Into
    <3>3. m < n - 1
      BY <1>1, <3>2
    <3> QED  BY <2>1, <3>1, <3>3, Zenon
  <2> QED  BY <2>2, <2>3
<1>3. CASE ~Into(n, kept)
  <2>1. Rotated(kept)[n] = slot[n]
    BY <1>3, RotatedAt
  <2>2. CASE Into(m, kept)
    <3>1. m - 1 \in Name /\ Rotated(kept)[m] = slot[m - 1]
      BY <2>2, RotatedAt, Names DEF Into
    <3>2. m - 1 < n
      BY <1>1
    <3> QED  BY <2>1, <3>1, <3>2, Zenon
  <2>3. CASE ~Into(m, kept)
    BY <2>1, <2>3, RotatedAt, Zenon
  <2> QED  BY <2>2, <2>3
<1> QED  BY <1>2, <1>3

\* A rotation that finds every name movable empties the active name, passes
\* every segment but the oldest on, and uses no name beyond the last.
LEMMA RotatedWhole ==
    ASSUME TypeOK, Beyond
    PROVE  /\ Rotated({})[0] = Nobody
           /\ \A n \in 0 .. MaxRotated :
                n < MaxRotated => Rotated({})[n + 1] = slot[n]
<1>1. Rotated({})[0] = Nobody
  <2>1. ~Into(0, {}) /\ 0 \in Name /\ (Moves(0, {}) <=> slot[0] # Nobody)
    BY Names DEF Into, Moves
  <2> QED  BY <2>1, RotatedAt
<1>2. ASSUME NEW n \in 0 .. MaxRotated, n < MaxRotated
      PROVE  Rotated({})[n + 1] = slot[n]
  <2>1. n + 1 \in Name /\ n + 1 \in 1 .. MaxRotated /\ (n + 1) - 1 = n /\ n + 1 # 0
    BY <1>2, Names DEF Name
  <2>2. CASE slot[n] # Nobody
    <3>1. Into(n + 1, {})
      BY <2>1, <2>2 DEF Into, Moves
    <3> QED  BY <2>1, <3>1, RotatedAt
  <2>3. CASE slot[n] = Nobody
    <3>1. ~Into(n + 1, {}) /\ (~Moves(n + 1, {}) => slot[n + 1] = Nobody)
      BY <2>1, <2>3 DEF Into, Moves
    <3> QED  BY <2>1, <2>3, <3>1, RotatedAt
  <2> QED  BY <2>2, <2>3
<1> QED  BY <1>1, <1>2

LEMMA RotatedBeyond ==
    ASSUME Beyond, NEW kept, MaxRotated > 0
    PROVE  Rotated(kept)[MaxRotated + 1] = Nobody
<1>1. ~Into(MaxRotated + 1, kept)
  BY Names DEF Into
<1> QED  BY <1>1, RotatedAt, Names DEF Beyond

-----------------------------------------------------------------------------
(***************************************************************************)
(* What an append writes.                                                  *)
(***************************************************************************)
Old(t) == IF t \in DOMAIN file THEN file[t] ELSE <<>>
Short(w) == {i \in DOMAIN w : w[i] # "whole"}

\* p appends n records, the first m of which reach the disk, as w, in inode t,
\* after a rotation that could not touch the names in kept.
Appends(p, n, m, w, kept, names, t) ==
    /\ n \in 1 .. MaxBatch /\ m \in 0 .. n /\ next + n <= MaxRecords + 1
    /\ w \in Writes(m) /\ kept \in SUBSET Name /\ MayStick(kept)
    /\ names = IF Overflows(n) THEN Rotated(kept) ELSE slot
    /\ ~Overflows(n) => kept = {}
    /\ t = Target(p, Overflows(n), names)
    /\ Retire(names, kept)
    /\ slot' = IF t = Len(file) + 1 THEN [names EXCEPT ![0] = t] ELSE names
    /\ file' = IF t = Len(file) + 1 THEN Append(file, Written(w))
               ELSE [file EXCEPT ![t] = @ \o Written(w)]
    /\ fd' \in {[fd EXCEPT ![p] = t], [fd EXCEPT ![p] = Nobody]}
    /\ next' = next + n
    /\ short' = short + Cardinality(Short(w))

\* Either way of appending is one of these, and acknowledges what it wrote or
\* nothing.
LEMMA AppendCases ==
    ASSUME NEW p \in Process, AppendRecords(p) \/ AppendCutOff(p)
    PROVE  \E n, m, w, kept, names, t :
              /\ Appends(p, n, m, w, kept, names, t)
              /\ \/ m = n /\ acked' = acked \cup next .. next + n - 1 /\ broken' = broken
                 \/ acked' = acked /\ broken < MaxBroken /\ broken' = broken + 1
<1>0. MaxBatch \in Nat
  BY SegmentedLogAssumption DEF SegmentedLogAssumption
<1>1. ASSUME NEW n \in 1 .. MaxBatch, NEW m \in 0 .. n, NEW w \in Writes(m), NEW ok \in BOOLEAN,
             next + n <= MaxRecords + 1, AppendSync(p, n, w, ok)
      PROVE  \E kept, names, t : Appends(p, n, m, w, kept, names, t)
  <2>1. PICK kept \in SUBSET Name :
          LET full   == Overflows(n)
              names  == IF full THEN Rotated(kept) ELSE slot
              target == Target(p, full, names)
          IN  /\ MayStick(kept) /\ (~full => kept = {})
              /\ Retire(names, kept)
              /\ slot' = IF target = Len(file) + 1 THEN [names EXCEPT ![0] = target] ELSE names
              /\ file' = IF target = Len(file) + 1 THEN Append(file, Written(w))
                         ELSE [file EXCEPT ![target] = @ \o Written(w)]
              /\ fd' = [fd EXCEPT ![p] = IF ok THEN target ELSE Nobody]
              /\ next' = next + n
              /\ short' = short + Cardinality({i \in DOMAIN w : w[i] # "whole"})
    BY <1>1, Zenon DEF AppendSync
  <2> DEFINE names == IF Overflows(n) THEN Rotated(kept) ELSE slot
  <2> DEFINE t == Target(p, Overflows(n), names)
  <2>2. Appends(p, n, m, w, kept, names, t)
    <3>1. fd' \in {[fd EXCEPT ![p] = t], [fd EXCEPT ![p] = Nobody]}
      BY <2>1, Zenon
    <3> QED  BY <1>1, <2>1, <3>1, Zenon DEF Appends, Short
  <2> QED  BY <2>2, Zenon
<1>2. CASE AppendRecords(p)
  <2>1. PICK n \in 1 .. MaxBatch :
          /\ next + n <= MaxRecords + 1
          /\ \E w \in Writes(n) : AppendSync(p, n, w, TRUE)
          /\ acked' = acked \cup next .. next + n - 1
          /\ UNCHANGED broken
    BY <1>2, Zenon DEF AppendRecords
  <2>2. PICK w \in Writes(n) : AppendSync(p, n, w, TRUE)
    BY <2>1
  <2>3. n \in 0 .. n
    BY <1>0
  <2> QED  BY <1>1, <2>1, <2>2, <2>3, Zenon
<1>3. CASE AppendCutOff(p)
  <2>1. PICK n \in 1 .. MaxBatch, m \in 0 .. MaxBatch :
          /\ broken < MaxBroken /\ m <= n
          /\ next + n <= MaxRecords + 1
          /\ \E w \in Writes(m) : AppendSync(p, n, w, FALSE)
          /\ broken' = broken + 1
          /\ UNCHANGED acked
    BY <1>3, Zenon DEF AppendCutOff
  <2>2. PICK w \in Writes(m) : AppendSync(p, n, w, FALSE)
    BY <2>1
  <2>3. m \in 0 .. n
    BY <1>0, <2>1
  <2> QED  BY <1>1, <2>1, <2>2, <2>3, Zenon
<1> QED  BY <1>2, <1>3

\* The names after the rotation, and the inode that is written: the active one
\* or a new one.
LEMMA AppendNames ==
    ASSUME TypeOK, NEW p \in Process, NEW n, NEW m, NEW w, NEW kept, NEW names, NEW t,
           Appends(p, n, m, w, kept, names, t)
    PROVE  /\ names \in [Name -> 1 .. Len(file) \cup {Nobody}]
           /\ names[0] \in {Nobody, slot[0]}
           /\ t \in 1 .. Len(file) + 1 /\ Len(file) \in Nat /\ DOMAIN file = 1 .. Len(file)
           /\ Nobody \notin Nat
<1>1. /\ slot \in [Name -> 1 .. Len(file) \cup {Nobody}]
      /\ fd \in [Process -> 1 .. Len(file) \cup {Nobody}]
      /\ Len(file) \in Nat /\ DOMAIN file = 1 .. Len(file)
  BY DEF TypeOK
<1>2. /\ names \in [Name -> 1 .. Len(file) \cup {Nobody}]
      /\ names[0] \in {Nobody, slot[0]}
  BY <1>1, RotatedType, Zenon DEF Appends
<1>3. names[0] # Nobody => names[0] \in 1 .. Len(file)
  BY <1>2, Names
<1>4. fd[p] # Nobody => fd[p] \in 1 .. Len(file)
  BY <1>1
<1>5. t \in {fd[p], names[0], Len(file) + 1} /\ t # Nobody
  <2>1. Nobody # Len(file) + 1
    BY <1>1, SegmentedLogAssumption DEF SegmentedLogAssumption
  <2> QED  BY <2>1 DEF Appends, Target
<1>6. t \in 1 .. Len(file) + 1
  BY <1>1, <1>3, <1>4, <1>5
<1> QED  BY <1>1, <1>2, <1>6, SegmentedLogAssumption DEF SegmentedLogAssumption

LEMMA WrittenType ==
    ASSUME TypeOK, NEW p \in Process, NEW n, NEW m, NEW w, NEW kept, NEW names, NEW t,
           Appends(p, n, m, w, kept, names, t)
    PROVE  /\ n \in Nat /\ m \in Nat /\ m <= n /\ next \in Nat /\ next + n <= MaxRecords + 1
           /\ MaxRecords \in Nat /\ next >= 1
           /\ DOMAIN w = 1 .. m
           /\ Written(w) \in Seq(Piece) /\ Len(Written(w)) = m
           /\ \A i \in 1 .. m : Written(w)[i].rec = next + i - 1 /\ Written(w)[i].shape = w[i]
           /\ Old(t) \in Seq(Piece)
<1>1. /\ n \in Nat /\ m \in Nat /\ m <= n /\ MaxRecords \in Nat
      /\ next \in Nat /\ next >= 1 /\ next + n <= MaxRecords + 1
  BY SegmentedLogAssumption DEF SegmentedLogAssumption, TypeOK, Appends
<1>2. w \in [1 .. m -> Shape]
  BY DEF Appends, Writes
<1>3. \A i \in 1 .. m : next + i - 1 \in 1 .. MaxRecords
  BY <1>1
<1>4. \A i \in 1 .. m : [rec |-> next + i - 1, shape |-> w[i]] \in Piece
  BY <1>2, <1>3 DEF Piece
<1>5. Written(w) = [i \in 1 .. m |-> [rec |-> next + i - 1, shape |-> w[i]]]
  BY <1>2 DEF Written
<1>6. Written(w) \in [1 .. m -> Piece]
  BY <1>4, <1>5
<1>7. Written(w) \in Seq(Piece) /\ Len(Written(w)) = m
  BY <1>1, <1>6
<1>8. Old(t) \in Seq(Piece)
  BY DEF TypeOK, Old
<1> QED  BY <1>1, <1>2, <1>5, <1>7, <1>8

\* The files after it: what was there is there, what was written comes behind
\* it in one file.
Grows(w, t) ==
    /\ file' \in Seq(Seq(Piece)) /\ Len(file') \in Nat
    /\ Len(file) <= Len(file') /\ t <= Len(file')
    /\ DOMAIN file' = DOMAIN file \cup {t}
    /\ \A i \in DOMAIN file \ {t} : file'[i] = file[i]
    /\ file'[t] = Old(t) \o Written(w)

LEMMA AppendGrows ==
    ASSUME TypeOK, NEW p \in Process, NEW n, NEW m, NEW w, NEW kept, NEW names, NEW t,
           Appends(p, n, m, w, kept, names, t)
    PROVE  Grows(w, t)
<1>1. Old(t) \in Seq(Piece) /\ Written(w) \in Seq(Piece)
  BY WrittenType
<1>2. Old(t) \o Written(w) \in Seq(Piece)
  BY <1>1
<1>3. /\ file \in Seq(Seq(Piece)) /\ Len(file) \in Nat /\ DOMAIN file = 1 .. Len(file)
      /\ t \in 1 .. Len(file) + 1
  BY AppendNames DEF TypeOK
<1>4. CASE t = Len(file) + 1
  <2>1. t \notin DOMAIN file /\ Old(t) = <<>>
    BY <1>3, <1>4 DEF Old
  <2>2. <<>> \o Written(w) = Written(w)
    BY <1>1
  <2>3. file' = Append(file, Written(w))
    BY <1>4 DEF Appends
  <2>4. Grows(w, t)
    <3>1. /\ file' \in Seq(Seq(Piece)) /\ Len(file') \in Nat
          /\ Len(file) <= Len(file') /\ t <= Len(file')
          /\ DOMAIN file' = DOMAIN file \cup {t}
          /\ \A i \in DOMAIN file \ {t} : file'[i] = file[i]
          /\ file'[t] = Old(t) \o Written(w)
      BY <1>1, <1>3, <1>4, <2>1, <2>2, <2>3
    <3> QED  BY <3>1, Zenon DEF Grows
  <2> QED  BY <2>4
<1>5. CASE t # Len(file) + 1
  <2>1. t \in DOMAIN file /\ Old(t) = file[t]
    BY <1>3, <1>5 DEF Old
  <2>2. file' = [file EXCEPT ![t] = Old(t) \o Written(w)]
    BY <1>5, <2>1 DEF Appends
  <2>3. file' \in Seq(Seq(Piece)) /\ Len(file') = Len(file) /\ DOMAIN file' = DOMAIN file
    BY <1>2, <1>3, <2>1, <2>2
  <2>4. Grows(w, t)
    <3>1. /\ file' \in Seq(Seq(Piece)) /\ Len(file') \in Nat
          /\ Len(file) <= Len(file') /\ t <= Len(file')
          /\ DOMAIN file' = DOMAIN file \cup {t}
          /\ \A i \in DOMAIN file \ {t} : file'[i] = file[i]
          /\ file'[t] = Old(t) \o Written(w)
      BY <1>3, <2>1, <2>2, <2>3
    <3> QED  BY <3>1, Zenon DEF Grows
  <2> QED  BY <2>4
<1> QED  BY <1>4, <1>5

\* Every piece is an old one in its old place, or was written just now, behind
\* the old ones of the file that was written.
LEMMA AppendPieces ==
    ASSUME TypeOK, NEW p \in Process, NEW n, NEW m, NEW w, NEW kept, NEW names, NEW t,
           Appends(p, n, m, w, kept, names, t)
    PROVE  /\ Len(Old(t)) \in Nat
           /\ \A i \in DOMAIN file : \A k \in DOMAIN file[i] :
                 k \in DOMAIN file'[i] /\ file'[i][k] = file[i][k]
           /\ \A k \in 1 .. m :
                 /\ Len(Old(t)) + k \in DOMAIN file'[t]
                 /\ file'[t][Len(Old(t)) + k] = Written(w)[k]
           /\ \A i \in DOMAIN file' : \A k \in DOMAIN file'[i] :
                 \/ i \in DOMAIN file /\ k \in DOMAIN file[i]
                 \/ i = t /\ k - Len(Old(t)) \in 1 .. m
<1> DEFINE b == Len(Old(t))
<1>1. /\ Old(t) \in Seq(Piece) /\ Written(w) \in Seq(Piece) /\ Len(Written(w)) = m /\ m \in Nat
      /\ b \in Nat
  BY WrittenType
<1>2. /\ DOMAIN file' = DOMAIN file \cup {t}
      /\ \A i \in DOMAIN file \ {t} : file'[i] = file[i]
      /\ file'[t] = Old(t) \o Written(w)
  <2>1. Grows(w, t)
    BY AppendGrows
  <2> QED  BY <2>1, Zenon DEF Grows
<1>3. /\ DOMAIN Old(t) = 1 .. b /\ DOMAIN (Old(t) \o Written(w)) = 1 .. b + m
      /\ \A k \in 1 .. b : (Old(t) \o Written(w))[k] = Old(t)[k]
      /\ \A k \in 1 .. m : (Old(t) \o Written(w))[b + k] = Written(w)[k]
  BY <1>1
<1>4. /\ t \in DOMAIN file => Old(t) = file[t]
      /\ t \notin DOMAIN file => Old(t) = <<>>
  BY DEF Old
<1>5. 1 .. b \subseteq 1 .. b + m /\ \A k \in 1 .. m : b + k \in 1 .. b + m
  BY <1>1
<1>6. \A k \in 1 .. b + m : k \in 1 .. b \/ k - b \in 1 .. m
  BY <1>1
<1> HIDE DEF b
<1>7. ASSUME NEW i \in DOMAIN file, NEW k \in DOMAIN file[i]
      PROVE  k \in DOMAIN file'[i] /\ file'[i][k] = file[i][k]
  <2>1. CASE i = t
    <3>1. Old(t) = file[t] /\ k \in 1 .. b
      BY <1>3, <1>4, <1>7, <2>1, Zenon
    <3>2. k \in 1 .. b + m
      BY <1>5, <3>1, Zenon
    <3> QED  BY <1>2, <1>3, <2>1, <3>1, <3>2, Zenon
  <2>2. CASE i # t
    <3>1. file'[i] = file[i]
      BY <1>2, <2>2, Zenon
    <3> QED  BY <3>1, <1>7, Zenon
  <2> QED  BY <2>1, <2>2
<1>8. ASSUME NEW k \in 1 .. m
      PROVE  b + k \in DOMAIN file'[t] /\ file'[t][b + k] = Written(w)[k]
  BY <1>2, <1>3, <1>5, Zenon
<1>9. ASSUME NEW i \in DOMAIN file', NEW k \in DOMAIN file'[i]
      PROVE  \/ i \in DOMAIN file /\ k \in DOMAIN file[i]
             \/ i = t /\ k - b \in 1 .. m
  <2>1. CASE i = t
    <3>1. k \in 1 .. b + m
      BY <1>2, <1>3, <1>9, <2>1, Zenon
    <3>2. CASE k \in 1 .. b
      <4>1. t \in DOMAIN file
        <5>1. b = 0 => 1 .. b = {}
          BY <1>1
        <5>2. t \notin DOMAIN file => b = 0
          BY <1>4 DEF b
        <5> QED  BY <3>2, <5>1, <5>2, Zenon
      <4>2. DOMAIN file[t] = 1 .. b
        BY <1>3, <1>4, <4>1, Zenon
      <4> QED  BY <2>1, <3>2, <4>1, <4>2, Zenon
    <3> QED  BY <1>6, <2>1, <3>1, <3>2, Zenon
  <2>2. CASE i # t
    <3>1. i \in DOMAIN file /\ file'[i] = file[i]
      BY <1>2, <2>2, <1>9, Zenon
    <3> QED  BY <3>1, <1>9, Zenon
  <2> QED  BY <2>1, <2>2
<1>10. b = Len(Old(t))
  BY DEF b
<1> QED  BY <1>1, <1>7, <1>8, <1>9, <1>10, Zenon

OldAt(i, k) ==
    /\ i \in DOMAIN file /\ k \in DOMAIN file[i] /\ file'[i][k] = file[i][k]
    /\ file'[i][k].rec \in 1 .. next - 1
NewAt(i, k, m, w, t) ==
    /\ i = t /\ k - Len(Old(t)) \in 1 .. m
    /\ file'[i][k].rec = next + (k - Len(Old(t))) - 1
    /\ file'[i][k].shape = w[k - Len(Old(t))]

\* The new pieces carry the numbers from next on, the old ones older numbers.
LEMMA NewPieces ==
    ASSUME TypeOK, Numbered, NEW p \in Process, NEW n, NEW m, NEW w, NEW kept, NEW names, NEW t,
           Appends(p, n, m, w, kept, names, t)
    PROVE  /\ \A i \in DOMAIN file : \A k \in DOMAIN file[i] :
                 /\ file[i][k] \in Piece /\ file[i][k].rec \in 1 .. next - 1
           /\ \A i \in DOMAIN file' : \A k \in DOMAIN file'[i] :
                 OldAt(i, k) \/ NewAt(i, k, m, w, t)
<1>1. ASSUME NEW i \in DOMAIN file, NEW k \in DOMAIN file[i]
      PROVE  file[i][k] \in Piece /\ file[i][k].rec \in 1 .. next - 1
  <2>1. file[i] \in Seq(Piece)
    BY DEF TypeOK
  <2>2. file[i][k] \in Piece
    BY <2>1
  <2>3. file[i][k].rec \in 1 .. MaxRecords /\ file[i][k].rec < next
    BY <2>2 DEF Piece, Numbered
  <2> QED  BY <2>2, <2>3, WrittenType
<1>2. ASSUME NEW i \in DOMAIN file', NEW k \in DOMAIN file'[i],
             ~(i \in DOMAIN file /\ k \in DOMAIN file[i])
      PROVE  /\ i = t /\ k - Len(Old(t)) \in 1 .. m
             /\ file'[i][k].rec = next + (k - Len(Old(t))) - 1
             /\ file'[i][k].shape = w[k - Len(Old(t))]
  <2>1. i = t /\ k - Len(Old(t)) \in 1 .. m
    BY <1>2, AppendPieces, Zenon
  <2>2. DOMAIN file'[t] \subseteq Nat /\ Len(Old(t)) \in Nat
    <3>1. file'[t] \in Seq(Piece)
      <4>1. Grows(w, t)
        BY AppendGrows
      <4>2. file' \in Seq(Seq(Piece)) /\ t \in DOMAIN file'
        BY <4>1, Zenon DEF Grows
      <4> QED  BY <4>2
    <3> QED  BY <3>1, AppendPieces
  <2>3. Len(Old(t)) + (k - Len(Old(t))) = k
    BY <1>2, <2>1, <2>2
  <2>4. file'[t][k] = Written(w)[k - Len(Old(t))]
    <3>1. file'[t][Len(Old(t)) + (k - Len(Old(t)))] = Written(w)[k - Len(Old(t))]
      BY <2>1, AppendPieces
    <3> QED  BY <2>3, <3>1, Zenon
  <2>5. /\ Written(w)[k - Len(Old(t))].rec = next + (k - Len(Old(t))) - 1
        /\ Written(w)[k - Len(Old(t))].shape = w[k - Len(Old(t))]
    BY <2>1, WrittenType
  <2> QED  BY <2>1, <2>4, <2>5, Zenon
<1>3. ASSUME NEW i \in DOMAIN file', NEW k \in DOMAIN file'[i],
             i \in DOMAIN file, k \in DOMAIN file[i]
      PROVE  file'[i][k] = file[i][k] /\ file'[i][k].rec \in 1 .. next - 1
  BY <1>1, <1>3, AppendPieces, Zenon
<1> QED  BY <1>1, <1>2, <1>3, Zenon DEF OldAt, NewAt

\* So numbers keep ascending along a file, and name one place each.
LEMMA AppendOrder ==
    ASSUME TypeOK, Numbered, Ascending, WrittenOnce,
           NEW p \in Process, NEW n, NEW m, NEW w, NEW kept, NEW names, NEW t,
           Appends(p, n, m, w, kept, names, t)
    PROVE  Numbered' /\ Ascending' /\ WrittenOnce'
<1>1. \A i \in DOMAIN file' : \A k \in DOMAIN file'[i] : OldAt(i, k) \/ NewAt(i, k, m, w, t)
  BY NewPieces
<1>2. /\ n \in Nat /\ m \in Nat /\ m <= n /\ next \in Nat /\ next' = next + n
      /\ Len(Old(t)) \in Nat
  <2>1. n \in Nat /\ m \in Nat /\ m <= n /\ next \in Nat
    BY WrittenType
  <2>2. Len(Old(t)) \in Nat
    BY AppendPieces
  <2>3. next' = next + n
    BY DEF Appends
  <2> QED  BY <2>1, <2>2, <2>3
<1>3. ASSUME NEW i, NEW k, NewAt(i, k, m, w, t)
      PROVE  file'[i][k].rec \in next .. next + n - 1 /\ file'[i][k].rec # next - 1
  <2>1. k - Len(Old(t)) \in 1 .. m /\ file'[i][k].rec = next + (k - Len(Old(t))) - 1
    BY <1>3 DEF NewAt
  <2> DEFINE d == k - Len(Old(t))
  <2>2. d \in 1 .. m => next + d - 1 \in next .. next + n - 1 /\ next + d - 1 # next - 1
    <3> HIDE DEF d
    <3> QED  BY <1>2
  <2> QED  BY <2>1, <2>2
<1>4. Numbered'
  <2> SUFFICES ASSUME NEW i \in DOMAIN file', NEW k \in DOMAIN file'[i]
               PROVE  file'[i][k].rec < next'
    BY Zenon DEF Numbered
  <2>1. CASE OldAt(i, k)
    <3>1. file'[i][k].rec \in 1 .. next - 1
      BY <2>1 DEF OldAt
    <3> QED  BY <1>2, <3>1
  <2>2. CASE NewAt(i, k, m, w, t)
    <3>1. file'[i][k].rec \in next .. next + n - 1
      BY <1>3, <2>2
    <3> QED  BY <1>2, <3>1
  <2> QED  BY <1>1, <2>1, <2>2
<1>5. ASSUME NEW i, NEW h, NEW j, NEW k, OldAt(i, j), NewAt(h, k, m, w, t)
      PROVE  file'[i][j].rec < file'[h][k].rec /\ file'[i][j].rec # file'[h][k].rec
  <2>1. file'[i][j].rec \in 1 .. next - 1
    BY <1>5 DEF OldAt
  <2>2. file'[h][k].rec \in next .. next + n - 1
    BY <1>3, <1>5
  <2>3. \A a \in 1 .. next - 1, c \in next .. next + n - 1 : a < c /\ a # c
    BY <1>2
  <2> QED  BY <2>1, <2>2, <2>3, Zenon
<1>6. Ascending'
  <2> SUFFICES ASSUME NEW i \in DOMAIN file', NEW j \in DOMAIN file'[i], NEW k \in DOMAIN file'[i],
                      j < k
               PROVE  file'[i][j].rec < file'[i][k].rec
    BY Zenon DEF Ascending
  <2>0. j \in Nat /\ k \in Nat
    <3>1. Grows(w, t)
      BY AppendGrows
    <3>2. file' \in Seq(Seq(Piece))
      BY <3>1, Zenon DEF Grows
    <3>3. file'[i] \in Seq(Piece)
      BY <3>2
    <3> QED  BY <3>3
  <2>1. CASE OldAt(i, j) /\ OldAt(i, k)
    <3>1. file[i][j].rec < file[i][k].rec
      BY <2>1, Zenon DEF Ascending, OldAt
    <3> QED  BY <2>1, <3>1, Zenon DEF OldAt
  <2>2. CASE OldAt(i, j) /\ NewAt(i, k, m, w, t)
    BY <1>5, <2>2
  <2>3. CASE NewAt(i, j, m, w, t) /\ OldAt(i, k)
    <3>1. i = t /\ j - Len(Old(t)) \in 1 .. m /\ t \in DOMAIN file /\ k \in DOMAIN file[t]
      BY <2>3 DEF NewAt, OldAt
    <3>2. k \in DOMAIN Old(t)
      BY <3>1 DEF Old
    <3>3. Old(t) \in Seq(Piece)
      BY WrittenType
    <3>4. k <= Len(Old(t))
      BY <3>2, <3>3
    <3> QED  BY <1>2, <2>0, <3>1, <3>4
  <2>4. CASE NewAt(i, j, m, w, t) /\ NewAt(i, k, m, w, t)
    <3>1. /\ file'[i][j].rec = next + (j - Len(Old(t))) - 1
          /\ file'[i][k].rec = next + (k - Len(Old(t))) - 1
      BY <2>4 DEF NewAt
    <3> QED  BY <1>2, <2>0, <3>1
  <2> QED  BY <1>1, <2>1, <2>2, <2>3, <2>4, Zenon
<1>7. WrittenOnce'
  <2> SUFFICES ASSUME NEW i \in DOMAIN file', NEW h \in DOMAIN file',
                      NEW j \in DOMAIN file'[i], NEW k \in DOMAIN file'[h], i # h
               PROVE  file'[i][j].rec # file'[h][k].rec
    BY Zenon DEF WrittenOnce
  <2>1. CASE OldAt(i, j) /\ OldAt(h, k)
    <3>1. file[i][j].rec # file[h][k].rec
      BY <2>1, Zenon DEF WrittenOnce, OldAt
    <3> QED  BY <2>1, <3>1, Zenon DEF OldAt
  <2>2. CASE OldAt(i, j) /\ NewAt(h, k, m, w, t)
    BY <1>5, <2>2, Zenon
  <2>3. CASE NewAt(i, j, m, w, t) /\ OldAt(h, k)
    BY <1>5, <2>3, Zenon
  <2>4. ~(NewAt(i, j, m, w, t) /\ NewAt(h, k, m, w, t))
    BY Zenon DEF NewAt
  <2> QED  BY <1>1, <2>1, <2>2, <2>3, <2>4, Zenon
<1> QED  BY <1>4, <1>6, <1>7

LEMMA ShortIsFinite ==
    ASSUME TypeOK, NEW p \in Process, NEW n, NEW m, NEW w, NEW kept, NEW names, NEW t,
           Appends(p, n, m, w, kept, names, t)
    PROVE  /\ IsFiniteSet(Short(w)) /\ Short(w) \subseteq 1 .. m
           /\ Cardinality(Short(w)) \in Nat /\ short + Cardinality(Short(w)) <= MaxShort
<1>1. DOMAIN w = 1 .. m /\ m \in Nat
  BY WrittenType
<1>2. Short(w) \subseteq 1 .. m
  BY <1>1 DEF Short
<1>3. IsFiniteSet(1 .. m)
  BY <1>1, FS_Interval
<1>4. IsFiniteSet(Short(w))
  BY <1>2, <1>3, FS_Subset
<1>5. Cardinality(Short(w)) \in Nat
  BY <1>4, FS_CardinalityType
<1>6. short + Cardinality({i \in 1 .. m : w[i] # "whole"}) <= MaxShort
  BY DEF Appends, Writes
<1>7. {i \in 1 .. m : w[i] # "whole"} = Short(w)
  BY <1>1 DEF Short
<1> QED  BY <1>2, <1>4, <1>5, <1>6, <1>7

CutType(f) == IsFiniteSet(Cut(f)) /\ Cardinality(Cut(f)) \in Nat

LEMMA CutIsFinite ==
    ASSUME NEW f
    PROVE  CutType(f)
<1>1. IsFiniteSet(1 .. MaxRecords)
  BY FS_Interval, SegmentedLogAssumption DEF SegmentedLogAssumption
<1>2. Cut(f) \in SUBSET (1 .. MaxRecords)
  BY DEF Cut
<1>3. IsFiniteSet(Cut(f))
  BY <1>1, <1>2, FS_Subset
<1> QED  BY <1>3, FS_CardinalityType DEF CutType

\* An append adds the records whose writes were short, and no others.
LEMMA AppendCut ==
    ASSUME TypeOK, Numbered,
           NEW p \in Process, NEW n, NEW m, NEW w, NEW kept, NEW names, NEW t,
           Appends(p, n, m, w, kept, names, t)
    PROVE  /\ Cut(file) \subseteq Cut(file')
           /\ \A r \in Cut(file') \ Cut(file) : r - next + 1 \in Short(w)
<1>1. \A i \in DOMAIN file' : \A k \in DOMAIN file'[i] : OldAt(i, k) \/ NewAt(i, k, m, w, t)
  BY NewPieces
<1>2. ASSUME NEW r \in Cut(file)
      PROVE  r \in Cut(file')
  <2>a. PICK i \in DOMAIN file :
          \E k \in DOMAIN file[i] : file[i][k].rec = r /\ file[i][k].shape # "whole"
    BY <1>2, Zenon DEF Cut
  <2>1. PICK k \in DOMAIN file[i] : file[i][k].rec = r /\ file[i][k].shape # "whole"
    BY <2>a, Zenon
  <2>2. k \in DOMAIN file'[i] /\ file'[i][k] = file[i][k]
    BY AppendPieces
  <2>3. i \in DOMAIN file'
    <3>1. Grows(w, t)
      BY AppendGrows
    <3> QED  BY <3>1, Zenon DEF Grows
  <2>4. r \in 1 .. MaxRecords
    BY <1>2 DEF Cut
  <2>5. file'[i][k].rec = r /\ file'[i][k].shape # "whole"
    BY <2>1, <2>2, Zenon
  <2>6. \E j \in DOMAIN file' :
          \E l \in DOMAIN file'[j] : file'[j][l].rec = r /\ file'[j][l].shape # "whole"
    BY <2>2, <2>3, <2>5, Zenon
  <2> QED  BY <2>4, <2>6, Zenon DEF Cut
<1>3. ASSUME NEW r \in Cut(file'), r \notin Cut(file)
      PROVE  r - next + 1 \in Short(w)
  <2>a. PICK i \in DOMAIN file' :
          \E k \in DOMAIN file'[i] : file'[i][k].rec = r /\ file'[i][k].shape # "whole"
    BY <1>3, Zenon DEF Cut
  <2>1. PICK k \in DOMAIN file'[i] : file'[i][k].rec = r /\ file'[i][k].shape # "whole"
    BY <2>a, Zenon
  <2>2. r \in 1 .. MaxRecords
    BY <1>3 DEF Cut
  <2>3. ~OldAt(i, k)
    BY <1>3, <2>1, <2>2, Zenon DEF OldAt, Cut
  <2>4. NewAt(i, k, m, w, t)
    BY <1>1, <2>3, Zenon
  <2> DEFINE d == k - Len(Old(t))
  <2>5. d \in 1 .. m /\ r = next + d - 1 /\ w[d] # "whole"
    BY <2>1, <2>4, Zenon DEF NewAt
  <2> HIDE DEF d
  <2>6. next \in Nat /\ m \in Nat /\ DOMAIN w = 1 .. m
    BY WrittenType
  <2>7. r - next + 1 = d
    BY <2>5, <2>6
  <2> QED  BY <2>5, <2>6, <2>7, Zenon DEF Short
<1> QED  BY <1>2, <1>3, Zenon

LEMMA AppendCounted ==
    ASSUME TypeOK, Numbered, Counted,
           NEW p \in Process, NEW n, NEW m, NEW w, NEW kept, NEW names, NEW t,
           Appends(p, n, m, w, kept, names, t)
    PROVE  Counted'
<1> DEFINE New == Cut(file') \ Cut(file)
<1> DEFINE At == [r \in New |-> r - next + 1]
<1>1. Cut(file) \subseteq Cut(file') /\ \A r \in New : r - next + 1 \in Short(w)
  BY AppendCut
<1>2. CutType(file) /\ CutType(file')
  BY CutIsFinite
<1>3. /\ IsFiniteSet(Short(w)) /\ Cardinality(Short(w)) \in Nat
      /\ next \in Nat /\ short \in Nat /\ short' = short + Cardinality(Short(w))
  <2>1. IsFiniteSet(Short(w)) /\ Cardinality(Short(w)) \in Nat
    BY ShortIsFinite
  <2>2. next \in Nat /\ short \in Nat
    BY SegmentedLogAssumption DEF SegmentedLogAssumption, TypeOK
  <2> QED  BY <2>1, <2>2 DEF Appends
<1>4. New \subseteq Int /\ New \in SUBSET Cut(file')
  BY DEF Cut
<1>5. At \in Injection(New, Short(w))
  <2>1. \A r \in New : At[r] = r - next + 1
    OBVIOUS
  <2>2. At \in [New -> Short(w)]
    BY <1>1
  <2>3. ASSUME NEW x \in New, NEW y \in New, At[x] = At[y]
        PROVE  x = y
    BY <1>3, <1>4, <2>1, <2>3
  <2> HIDE DEF At
  <2> QED  BY <2>2, <2>3 DEF Injection, IsInjective
<1> HIDE DEF At
<1>6. Cardinality(New) <= Cardinality(Short(w)) /\ IsFiniteSet(New) /\ Cardinality(New) \in Nat
  <2>1. IsFiniteSet(New) /\ Cardinality(New) <= Cardinality(Short(w))
    BY <1>3, <1>5, FS_Injection
  <2> QED  BY <2>1, FS_CardinalityType
<1>7. Cut(file') = Cut(file) \cup New /\ Cut(file) \cap New = {}
  BY <1>1
<1> HIDE DEF New
<1>8. Cardinality(Cut(file')) = Cardinality(Cut(file)) + Cardinality(New)
  <2>1. /\ IsFiniteSet(Cut(file)) /\ Cardinality(Cut(file)) \in Nat
        /\ Cardinality(Cut(file) \cup New)
              = Cardinality(Cut(file)) + Cardinality(New) - Cardinality(Cut(file) \cap New)
    BY <1>2, <1>6, FS_Union DEF CutType
  <2>2. Cardinality(Cut(file) \cap New) = 0
    BY <1>7, FS_EmptySet
  <2> QED  BY <1>6, <1>7, <2>1, <2>2
<1> QED  BY <1>2, <1>3, <1>6, <1>8 DEF Counted, CutType

-----------------------------------------------------------------------------
(***************************************************************************)
(* Typing and order, whoever writes.                                       *)
(***************************************************************************)
LEMMA Recorded ==
    ASSUME NEW I, NEW r
    PROVE  r \in RecordsIn(I) <=> \E i \in I : \E k \in DOMAIN file[i] : file[i][k].rec = r
<1>1. ASSUME NEW i \in I
      PROVE  r \in {piece.rec : piece \in Range(file[i])}
                <=> \E k \in DOMAIN file[i] : file[i][k].rec = r
  BY DEF Range
<1>2. r \in RecordsIn(I) <=> \E i \in I : r \in {piece.rec : piece \in Range(file[i])}
  BY DEF RecordsIn
<1> QED  BY <1>1, <1>2, Zenon

LEMMA RecordsNumbered ==
    ASSUME TypeOK, Numbered, NEW I \in SUBSET (1 .. Len(file))
    PROVE  RecordsIn(I) \subseteq 1 .. next - 1
<1> SUFFICES ASSUME NEW r \in RecordsIn(I)
             PROVE  r \in 1 .. next - 1
  OBVIOUS
<1>1. PICK i \in I : \E k \in DOMAIN file[i] : file[i][k].rec = r
  BY Recorded
<1>2. PICK k \in DOMAIN file[i] : file[i][k].rec = r
  BY <1>1
<1>3. i \in DOMAIN file /\ file[i] \in Seq(Piece)
  BY DEF TypeOK
<1>4. file[i][k] \in Piece
  BY <1>3
<1>5. r \in 1 .. MaxRecords /\ r < next
  BY <1>2, <1>3, <1>4 DEF Piece, Numbered
<1>6. MaxRecords \in Nat /\ next \in Nat
  BY SegmentedLogAssumption DEF SegmentedLogAssumption, TypeOK
<1> QED  BY <1>5, <1>6

LEMMA Links ==
    ASSUME NEW names, names \in [Name -> 1 .. Len(file) \cup {Nobody}]
    PROVE  Linked(names) \subseteq 1 .. Len(file)
<1>1. \A n \in 0 .. MaxRotated : names[n] \in 1 .. Len(file) \cup {Nobody}
  BY Names
<1> QED  BY <1>1 DEF Linked

\* A rotation ages records there are, and counts the names it could not touch.
LEMMA Retired ==
    ASSUME TypeOK, Numbered, NEW kept \in SUBSET Name, NEW names, MayStick(kept), Retire(names, kept)
    PROVE  /\ aged' \subseteq 1 .. next - 1 /\ stuck' \in 0 .. MaxStuck
           /\ stuck' = 0 => stuck = 0 /\ kept = {}
<1>1. IsFiniteSet(kept)
  BY Names, FS_Subset
<1>2. Cardinality(kept) \in Nat /\ (Cardinality(kept) = 0 <=> kept = {})
  BY <1>1, FS_CardinalityType, FS_EmptySet
<1>3. stuck \in Nat /\ MaxStuck \in Nat
  BY SegmentedLogAssumption DEF SegmentedLogAssumption, TypeOK
<1>4. stuck + Cardinality(kept) <= MaxStuck /\ stuck' = stuck + Cardinality(kept)
  BY DEF MayStick, Retire
<1>5. aged' = aged \cup RecordsIn(Linked(slot) \ Linked(names))
  BY DEF Retire
<1>6. Linked(slot) \ Linked(names) \in SUBSET (1 .. Len(file))
  BY Links DEF TypeOK
<1>7. RecordsIn(Linked(slot) \ Linked(names)) \subseteq 1 .. next - 1
  BY <1>6, RecordsNumbered
<1>8. aged \subseteq 1 .. next - 1
  BY DEF TypeOK
<1>9. stuck' \in 0 .. MaxStuck /\ (stuck' = 0 => stuck = 0 /\ Cardinality(kept) = 0)
  BY <1>2, <1>3, <1>4
<1>10. aged' \subseteq 1 .. next - 1
  BY <1>5, <1>7, <1>8, Zenon
<1> QED  BY <1>2, <1>9, <1>10, Zenon

LEMMA AppendSlots ==
    ASSUME TypeOK, NEW p \in Process, NEW n, NEW m, NEW w, NEW kept, NEW names, NEW t,
           Appends(p, n, m, w, kept, names, t)
    PROVE  /\ slot' \in [Name -> 1 .. Len(file') \cup {Nobody}]
           /\ fd' \in [Process -> 1 .. Len(file') \cup {Nobody}]
<1>1. /\ names \in [Name -> 1 .. Len(file) \cup {Nobody}]
      /\ t \in 1 .. Len(file) + 1 /\ Len(file) \in Nat
  BY AppendNames
<1>2. Len(file') \in Nat /\ Len(file) <= Len(file') /\ t <= Len(file')
  <2>1. Grows(w, t)
    BY AppendGrows
  <2> QED  BY <2>1, Zenon DEF Grows
<1>3. 1 .. Len(file) \subseteq 1 .. Len(file') /\ t \in 1 .. Len(file')
  BY <1>1, <1>2
<1>4. fd \in [Process -> 1 .. Len(file) \cup {Nobody}]
  BY DEF TypeOK
<1>5. slot' \in [Name -> 1 .. Len(file') \cup {Nobody}]
  <2>1. slot' \in {names, [names EXCEPT ![0] = t]}
    BY DEF Appends
  <2>2. names \in [Name -> 1 .. Len(file') \cup {Nobody}]
    BY <1>1, <1>3
  <2> QED  BY <1>3, <2>1, <2>2
<1>6. fd' \in [Process -> 1 .. Len(file') \cup {Nobody}]
  <2>1. fd' \in {[fd EXCEPT ![p] = t], [fd EXCEPT ![p] = Nobody]}
    BY DEF Appends
  <2>2. fd \in [Process -> 1 .. Len(file') \cup {Nobody}]
    BY <1>3, <1>4
  <2> QED  BY <1>3, <2>1, <2>2
<1> QED  BY <1>5, <1>6

LEMMA AppendWInv ==
    ASSUME WInv, NEW p \in Process, AppendRecords(p) \/ AppendCutOff(p)
    PROVE  WInv'
<1>0. TypeOK /\ Numbered /\ Ascending /\ WrittenOnce /\ Counted /\ Beyond
  BY DEF WInv
<1>1. PICK n, m, w, kept, names, t :
        /\ Appends(p, n, m, w, kept, names, t)
        /\ \/ m = n /\ acked' = acked \cup next .. next + n - 1 /\ broken' = broken
           \/ acked' = acked /\ broken < MaxBroken /\ broken' = broken + 1
  BY AppendCases
<1>2. Numbered' /\ Ascending' /\ WrittenOnce'
  BY <1>0, <1>1, AppendOrder
<1>3. Counted'
  BY <1>0, <1>1, AppendCounted
<1>4. Beyond'
  <2> SUFFICES ASSUME MaxRotated > 0
               PROVE  slot'[MaxRotated + 1] = Nobody
    BY DEF Beyond
  <2>1. names[MaxRotated + 1] = Nobody
    <3>1. names \in {slot, Rotated(kept)}
      BY <1>1 DEF Appends
    <3>2. Rotated(kept)[MaxRotated + 1] = Nobody /\ slot[MaxRotated + 1] = Nobody
      BY <1>0, RotatedBeyond DEF Beyond
    <3> QED  BY <3>1, <3>2
  <2>2. slot' \in {names, [names EXCEPT ![0] = t]} /\ MaxRotated + 1 # 0
    BY <1>1, Names DEF Appends
  <2>3. names \in [Name -> 1 .. Len(file) \cup {Nobody}]
    BY <1>0, <1>1, AppendNames
  <2> QED  BY <2>1, <2>2, <2>3
<1>5. TypeOK'
  <2>1. slot' \in [Name -> 1 .. Len(file') \cup {Nobody}]
        /\ fd' \in [Process -> 1 .. Len(file') \cup {Nobody}]
    BY <1>0, <1>1, AppendSlots
  <2>2. file' \in Seq(Seq(Piece))
    <3>1. Grows(w, t)
      BY <1>0, <1>1, AppendGrows
    <3> QED  BY <3>1, Zenon DEF Grows
  <2>3. /\ n \in Nat /\ next \in Nat /\ next + n <= MaxRecords + 1 /\ MaxRecords \in Nat
        /\ next >= 1 /\ next' = next + n
    <3>1. next' = next + n
      BY <1>1 DEF Appends
    <3> QED  BY <1>0, <1>1, <3>1, WrittenType
  <2>4. next' \in 1 .. MaxRecords + 1 /\ 1 .. next - 1 \subseteq 1 .. next' - 1
        /\ next .. next + n - 1 \subseteq 1 .. next' - 1
    BY <2>3
  <2>5. aged' \subseteq 1 .. next - 1 /\ stuck' \in 0 .. MaxStuck
    <3>1. kept \in SUBSET Name /\ MayStick(kept) /\ Retire(names, kept)
      BY <1>1 DEF Appends
    <3> QED  BY <1>0, <3>1, Retired
  <2>6. acked \subseteq 1 .. next - 1
    BY <1>0 DEF TypeOK
  <2>7. acked' \subseteq 1 .. next' - 1
    BY <1>1, <2>4, <2>6
  <2>8. short' \in 0 .. MaxShort
    <3>1. Cardinality(Short(w)) \in Nat /\ short + Cardinality(Short(w)) <= MaxShort
      BY <1>0, <1>1, ShortIsFinite
    <3>2. short' = short + Cardinality(Short(w))
      BY <1>1 DEF Appends
    <3>3. short \in Nat /\ MaxShort \in Nat
      BY <1>0, SegmentedLogAssumption DEF SegmentedLogAssumption, TypeOK
    <3> QED  BY <3>1, <3>2, <3>3
  <2>9. broken' \in 0 .. MaxBroken
    BY <1>0, <1>1, SegmentedLogAssumption DEF SegmentedLogAssumption, TypeOK
  <2> QED  BY <2>1, <2>2, <2>4, <2>5, <2>7, <2>8, <2>9 DEF TypeOK
<1> QED  BY <1>2, <1>3, <1>4, <1>5 DEF WInv

\* What compaction does is a rotation that drops the descriptor.
Compacts(p, kept) ==
    /\ kept \in SUBSET Name /\ MayStick(kept)
    /\ slot' = Rotated(kept) /\ Retire(Rotated(kept), kept)
    /\ fd' = [fd EXCEPT ![p] = Nobody]
    /\ UNCHANGED <<file, next, acked, short, broken>>

LEMMA CompactWInv ==
    ASSUME WInv, NEW p \in Process, NEW kept, Compacts(p, kept)
    PROVE  WInv'
<1>0. TypeOK /\ Numbered /\ Ascending /\ WrittenOnce /\ Counted /\ Beyond
  BY DEF WInv
<1>1. /\ kept \in SUBSET Name /\ MayStick(kept)
      /\ slot' = Rotated(kept) /\ Retire(Rotated(kept), kept)
      /\ fd' = [fd EXCEPT ![p] = Nobody]
      /\ file' = file /\ next' = next /\ acked' = acked /\ short' = short /\ broken' = broken
  BY DEF Compacts
<1>2. Rotated(kept) \in [Name -> 1 .. Len(file) \cup {Nobody}]
  BY <1>0, RotatedType
<1>3. aged' \subseteq 1 .. next - 1 /\ stuck' \in 0 .. MaxStuck
  BY <1>0, <1>1, Retired
<1>4. TypeOK'
  BY <1>0, <1>1, <1>2, <1>3 DEF TypeOK
<1>5. Beyond'
  BY <1>0, <1>1, RotatedBeyond DEF Beyond
<1>6. Numbered' /\ Ascending' /\ WrittenOnce'
  BY <1>0, <1>1 DEF Numbered, Ascending, WrittenOnce
<1>7. Counted'
  BY <1>0, <1>1 DEF Counted, Cut
<1> QED  BY <1>4, <1>5, <1>6, <1>7 DEF WInv

\* Closing, and a step that changes nothing.
LEMMA RestWInv ==
    ASSUME WInv, (\E p \in Process : Close(p)) \/ UNCHANGED vars
    PROVE  WInv'
<1>0. TypeOK /\ Numbered /\ Ascending /\ WrittenOnce /\ Counted /\ Beyond
  BY DEF WInv
<1>1. /\ file' = file /\ slot' = slot /\ next' = next /\ acked' = acked /\ aged' = aged
      /\ short' = short /\ stuck' = stuck /\ broken' = broken
  BY DEF Close, vars
<1>2. fd' \in [Process -> 1 .. Len(file) \cup {Nobody}]
  <2>1. fd \in [Process -> 1 .. Len(file) \cup {Nobody}]
    BY <1>0 DEF TypeOK
  <2> QED  BY <2>1 DEF Close, vars
<1>3. TypeOK'
  BY <1>0, <1>1, <1>2 DEF TypeOK
<1>4. Numbered' /\ Ascending' /\ WrittenOnce'
  BY <1>0, <1>1 DEF Numbered, Ascending, WrittenOnce
<1>5. Counted' /\ Beyond'
  BY <1>0, <1>1 DEF Counted, Cut, Beyond
<1> QED  BY <1>3, <1>4, <1>5 DEF WInv

\* The four kinds of step.
LEMMA Steps ==
    ASSUME [Next]_vars
    PROVE  \/ \E p \in Process : AppendRecords(p) \/ AppendCutOff(p)
           \/ \E p \in Process : \E kept : Compacts(p, kept)
           \/ (\E p \in Process : Close(p)) \/ UNCHANGED vars
<1>1. ASSUME NEW p \in Process, Compact(p)
      PROVE  \E kept : Compacts(p, kept)
  <2>1. PICK kept \in SUBSET Name :
          /\ MayStick(kept) /\ slot' = Rotated(kept) /\ Retire(Rotated(kept), kept)
          /\ fd' = [fd EXCEPT ![p] = Nobody]
          /\ UNCHANGED <<file, next, acked, short, broken>>
    BY <1>1, Zenon DEF Compact
  <2> QED  BY <2>1, Zenon DEF Compacts
<1> QED  BY <1>1, Zenon DEF Next

LEMMA InitWInv ==
    ASSUME Init
    PROVE  WInv
<1>0. /\ MaxRecords \in Nat /\ MaxShort \in Nat /\ MaxStuck \in Nat /\ MaxBroken \in Nat
      /\ MaxRotated \in Nat
  BY SegmentedLogAssumption DEF SegmentedLogAssumption
<1>1. file = <<>> /\ DOMAIN file = {} /\ next = 1
  BY DEF Init
<1>2. TypeOK
  BY <1>0 DEF Init, TypeOK
<1>3. Numbered /\ Ascending /\ WrittenOnce
  BY <1>1, Zenon DEF Numbered, Ascending, WrittenOnce
<1>4. Counted
  <2>1. Cut(file) = {}
    BY <1>1, Zenon DEF Cut
  <2>2. short = 0
    BY DEF Init
  <2> QED  BY <2>1, <2>2, FS_EmptySet DEF Counted
<1>5. Beyond
  BY Names DEF Init, Beyond
<1> QED  BY <1>2, <1>3, <1>4, <1>5 DEF WInv

\* Records are numbered once, in the order they are written, and every record
\* that is not whole on disk has its short write.
THEOREM WritesInvariant == Spec => []WInv
<1>1. Init => WInv
  BY InitWInv
<1>2. WInv /\ [Next]_vars => WInv'
  BY Steps, AppendWInv, CompactWInv, RestWInv, Zenon
<1> QED  BY <1>1, <1>2, PTL DEF Spec

\* Typing, for any number of processes: names and descriptors refer to inodes
\* there are, and only records that were attempted are acknowledged or aged
\* (storage.py 900-1039).
THEOREM TypeCorrect == Spec => []TypeOK
<1>1. WInv => TypeOK
  BY DEF WInv
<1> QED  BY <1>1, WritesInvariant, PTL

-----------------------------------------------------------------------------
(***************************************************************************)
(* What rotation drops.                                                    *)
(***************************************************************************)
Dropped(r, names) ==
    \E n \in 0 .. MaxRotated :
        /\ slot[n] # Nobody /\ slot[n] \notin Linked(names)
        /\ \E k \in DOMAIN file[slot[n]] : file[slot[n]][k].rec = r

LEMMA AgedCases ==
    ASSUME NEW names, NEW kept, Retire(names, kept), NEW r
    PROVE  r \in aged' <=> r \in aged \/ Dropped(r, names)
<1>1. r \in RecordsIn(Linked(slot) \ Linked(names)) <=>
        \E i \in Linked(slot) \ Linked(names) : \E k \in DOMAIN file[i] : file[i][k].rec = r
  BY Recorded
<1>2. (\E i \in Linked(slot) \ Linked(names) : \E k \in DOMAIN file[i] : file[i][k].rec = r)
        <=> Dropped(r, names)
  <2> DEFINE L == Linked(names)
  <2>1. \A i : i \in Linked(slot) \ L <=> \E n \in 0 .. MaxRotated : i = slot[n] /\ i # Nobody /\ i \notin L
    <3> HIDE DEF L
    <3> QED  BY DEF Linked
  <2> HIDE DEF L
  <2>2. ASSUME NEW i \in Linked(slot) \ L, \E k \in DOMAIN file[i] : file[i][k].rec = r
        PROVE  Dropped(r, names)
    <3>1. PICK n \in 0 .. MaxRotated : i = slot[n] /\ i # Nobody /\ i \notin L
      BY <2>1, <2>2, Zenon
    <3> QED  BY <2>2, <3>1, Zenon DEF Dropped, L
  <2>3. ASSUME Dropped(r, names)
        PROVE  \E i \in Linked(slot) \ L : \E k \in DOMAIN file[i] : file[i][k].rec = r
    <3>1. PICK n \in 0 .. MaxRotated :
            /\ slot[n] # Nobody /\ slot[n] \notin L
            /\ \E k \in DOMAIN file[slot[n]] : file[slot[n]][k].rec = r
      BY <2>3, Zenon DEF Dropped, L
    <3>2. slot[n] \in Linked(slot) \ L
      BY <2>1, <3>1, Zenon
    <3> QED  BY <3>1, <3>2, Zenon
  <2> QED  BY <2>2, <2>3, Zenon DEF L
<1>3. aged' = aged \cup RecordsIn(Linked(slot) \ Linked(names))
  BY DEF Retire
<1> QED  BY <1>1, <1>2, <1>3, Zenon

\* A rotation, whatever it could not touch, loses nothing acknowledged.
LEMMA RetireKept ==
    ASSUME Kept, NEW names, NEW kept, Retire(names, kept), NEW r \in acked
    PROVE  r \in aged' \/ Found(r, file, names)
<1>1. CASE r \in aged
  BY <1>1, AgedCases
<1>2. CASE Found(r, file, slot)
  <2>1. PICK n \in 0 .. MaxRotated :
          slot[n] # Nobody /\ \E k \in DOMAIN file[slot[n]] : file[slot[n]][k].rec = r
    BY <1>2, Zenon DEF Found
  <2>2. CASE slot[n] \in Linked(names)
    <3>1. PICK h \in 0 .. MaxRotated : names[h] = slot[n]
      BY <2>2 DEF Linked
    <3> QED  BY <2>1, <3>1, Zenon DEF Found
  <2>3. CASE slot[n] \notin Linked(names)
    <3>1. Dropped(r, names)
      BY <2>1, <2>3, Zenon DEF Dropped
    <3> QED  BY <3>1, AgedCases
  <2> QED  BY <2>2, <2>3
<1> QED  BY <1>1, <1>2 DEF Kept

\* One that could touch every name drops the oldest segment, and nothing else.
LEMMA RetireRetained ==
    ASSUME WInv, Layered(slot), Retained, stuck = 0, NEW names, Retire(names, {}),
           names = slot \/ names = Rotated({}),
           NEW a \in aged', NEW r \in 1 .. MaxRecords, Found(r, file, names)
    PROVE  a < r
<1>0. TypeOK /\ Beyond
  BY DEF WInv
<1>1. CASE names = slot
  <2>1. ~Dropped(a, slot)
    <3>1. \A n \in 0 .. MaxRotated : slot[n] # Nobody => slot[n] \in Linked(slot)
      BY DEF Linked
    <3> QED  BY <3>1, Zenon DEF Dropped
  <2>2. a \in aged
    BY <1>1, <2>1, AgedCases
  <2> QED  BY <1>1, <2>2, Zenon DEF Retained
<1>2. CASE names = Rotated({})
  <2>1. PICK n \in 0 .. MaxRotated :
          names[n] # Nobody /\ \E k \in DOMAIN file[names[n]] : file[names[n]][k].rec = r
    BY Zenon DEF Found
  <2>2. n # 0 /\ n - 1 \in 0 .. MaxRotated /\ n - 1 < MaxRotated /\ (n - 1) + 1 = n /\ n \in Nat
    <3>1. names[0] = Nobody
      BY <1>0, <1>2, RotatedWhole
    <3>2. n # 0
      BY <2>1, <3>1, Zenon
    <3> QED  BY <3>2, Names
  <2>3. names[n] = slot[n - 1]
    <3>1. \A h \in 0 .. MaxRotated : h < MaxRotated => Rotated({})[h + 1] = slot[h]
      BY <1>0, RotatedWhole
    <3>2. Rotated({})[(n - 1) + 1] = slot[n - 1]
      BY <2>2, <3>1, Zenon
    <3> QED  BY <1>2, <2>2, <3>2, Zenon
  <2>4. slot[n - 1] # Nobody /\ \E k \in DOMAIN file[slot[n - 1]] : file[slot[n - 1]][k].rec = r
    BY <2>1, <2>3, Zenon
  <2>5. Found(r, file, slot)
    BY <2>2, <2>4, Zenon DEF Found
  <2>6. CASE a \in aged
    BY <2>5, <2>6, Zenon DEF Retained
  <2>7. CASE Dropped(a, names)
    <3>1. PICK d \in 0 .. MaxRotated :
            /\ slot[d] # Nobody /\ slot[d] \notin Linked(names)
            /\ \E k \in DOMAIN file[slot[d]] : file[slot[d]][k].rec = a
      BY <2>7, Zenon DEF Dropped
    <3>2. d = MaxRotated
      <4> SUFFICES ASSUME d < MaxRotated
                   PROVE  FALSE
        BY Names
      <4>1. Rotated({})[d + 1] = slot[d]
        BY <1>0, RotatedWhole
      <4>2. d + 1 \in 0 .. MaxRotated
        BY Names
      <4>3. slot[d] \in Linked(names)
        BY <1>2, <3>1, <4>1, <4>2 DEF Linked
      <4> QED  BY <3>1, <4>3
    <3>3. n - 1 \in Name /\ d \in Name /\ n - 1 < d
      BY <2>2, <3>2, Names
    <3>4. \A j \in DOMAIN file[slot[n - 1]], k \in DOMAIN file[slot[d]] :
            file[slot[d]][k].rec < file[slot[n - 1]][j].rec
      BY <2>4, <3>1, <3>3, Zenon DEF Layered
    <3> QED  BY <2>4, <3>1, <3>4, Zenon
  <2> QED  BY <2>6, <2>7, AgedCases
<1> QED  BY <1>1, <1>2

-----------------------------------------------------------------------------
(***************************************************************************)
(* One process: it writes the active segment, found under name 0.          *)
(***************************************************************************)
LEMMA OneTarget ==
    ASSUME TypeOK, OneProcess, Own,
           NEW p \in Process, NEW n, NEW m, NEW w, NEW kept, NEW names, NEW t,
           Appends(p, n, m, w, kept, names, t)
    PROVE  /\ names[0] # Nobody => t = names[0]
           /\ names[0] = Nobody => t = Len(file) + 1
           /\ t # Nobody /\ slot'[0] = t
           /\ \A h \in Name \ {0} : slot'[h] = names[h]
<1>1. /\ names \in [Name -> 1 .. Len(file) \cup {Nobody}] /\ Len(file) \in Nat
      /\ t \in 1 .. Len(file) + 1 /\ Nobody \notin Nat
  BY AppendNames
<1>2. fd[p] \in {Nobody, slot[0]}
  BY DEF Own
<1>3. ~Overflows(n) => names = slot
  BY DEF Appends
<1>4. t = Target(p, Overflows(n), names)
  BY DEF Appends
<1>5. t = IF names[0] # Nobody THEN names[0] ELSE Len(file) + 1
  <2>1. CASE ~Overflows(n) /\ fd[p] # Nobody
    <3>1. t = fd[p]
      BY <1>4, <2>1 DEF Target
    <3> QED  BY <1>2, <1>3, <2>1, <3>1
  <2>2. CASE ~(~Overflows(n) /\ fd[p] # Nobody)
    BY <1>4, <2>2 DEF Target
  <2> QED  BY <2>1, <2>2
<1>6. t # Nobody
  BY <1>1
<1>7. slot' = IF t = Len(file) + 1 THEN [names EXCEPT ![0] = t] ELSE names
  BY DEF Appends
<1>8. names[0] # Nobody => names[0] # Len(file) + 1
  <2>1. names[0] \in 1 .. Len(file) \cup {Nobody}
    BY <1>1, Names
  <2> QED  BY <1>1, <2>1
<1>9. slot'[0] = t /\ \A h \in Name \ {0} : slot'[h] = names[h]
  <2>1. CASE t = Len(file) + 1
    BY <1>1, <1>7, <2>1, Names
  <2>2. CASE t # Len(file) + 1
    BY <1>5, <1>7, <2>2
  <2> QED  BY <2>1, <2>2
<1> QED  BY <1>5, <1>6, <1>9

LEMMA AppendLayered ==
    ASSUME WInv, Layered(slot), OneProcess, Own,
           NEW p \in Process, NEW n, NEW m, NEW w, NEW kept, NEW names, NEW t,
           Appends(p, n, m, w, kept, names, t)
    PROVE  /\ Layered(names)
           /\ \A h \in Name \ {0} : names[h] # Nobody =>
                 names[h] # t /\ names[h] \in DOMAIN file /\ file'[names[h]] = file[names[h]]
           /\ Layered(slot)'
<1>0. TypeOK /\ Numbered
  BY DEF WInv
<1>1. Layered(names)
  <2>1. Layered(Rotated(kept))
    BY <1>0, RotatedLayered
  <2>2. names \in {slot, Rotated(kept)}
    BY DEF Appends
  <2> QED  BY <2>1, <2>2, Zenon
<1>2. /\ names \in [Name -> 1 .. Len(file) \cup {Nobody}] /\ Len(file) \in Nat
      /\ DOMAIN file = 1 .. Len(file)
  BY <1>0, AppendNames
<1>3. /\ names[0] # Nobody => t = names[0]
      /\ names[0] = Nobody => t = Len(file) + 1
      /\ t # Nobody /\ slot'[0] = t
      /\ \A h \in Name \ {0} : slot'[h] = names[h]
  BY <1>0, OneTarget
<1>4. ASSUME NEW h \in Name \ {0}, names[h] # Nobody
      PROVE  names[h] # t /\ names[h] \in DOMAIN file /\ file'[names[h]] = file[names[h]]
  <2>1. names[h] \in 1 .. Len(file)
    BY <1>2, <1>4
  <2>2. names[h] # Len(file) + 1
    BY <1>2, <2>1
  <2>3. 0 < h /\ 0 \in Name
    BY Names
  <2>4. names[0] # Nobody => names[0] # names[h]
    BY <1>1, <1>4, <2>3, Zenon DEF Layered
  <2>5. names[h] # t
    BY <1>3, <2>2, <2>4
  <2>6. \A i \in DOMAIN file \ {t} : file'[i] = file[i]
    <3>1. Grows(w, t)
      BY <1>0, AppendGrows
    <3> QED  BY <3>1, Zenon DEF Grows
  <2> QED  BY <1>2, <2>1, <2>5, <2>6
<1>5. ASSUME NEW g \in Name, NEW h \in Name, g < h, slot'[g] # Nobody, slot'[h] # Nobody
      PROVE  /\ slot'[g] # slot'[h]
             /\ \A j \in DOMAIN file'[slot'[g]], k \in DOMAIN file'[slot'[h]] :
                    file'[slot'[h]][k].rec < file'[slot'[g]][j].rec
  <2>1. h \in Name \ {0}
    BY <1>5, Names
  <2>2. slot'[h] = names[h] /\ names[h] # Nobody
    BY <1>3, <1>5, <2>1, Zenon
  <2>3. names[h] # t /\ names[h] \in DOMAIN file /\ file'[names[h]] = file[names[h]]
    BY <1>4, <2>1, <2>2
  <2>4. CASE g # 0
    <3>1. g \in Name \ {0}
      BY <2>4
    <3>2. slot'[g] = names[g] /\ names[g] # Nobody
      BY <1>3, <1>5, <3>1, Zenon
    <3>3. file'[names[g]] = file[names[g]]
      BY <1>4, <3>1, <3>2
    <3>4. /\ names[g] # names[h]
          /\ \A j \in DOMAIN file[names[g]], k \in DOMAIN file[names[h]] :
                 file[names[h]][k].rec < file[names[g]][j].rec
      BY <1>1, <1>5, <2>2, <3>2, Zenon DEF Layered
    <3> QED  BY <2>2, <2>3, <3>2, <3>3, <3>4, Zenon
  <2>5. CASE g = 0
    <3>1. slot'[g] = t
      BY <1>3, <2>5
    <3>2. ASSUME NEW j \in DOMAIN file'[t], NEW k \in DOMAIN file[names[h]]
          PROVE  file[names[h]][k].rec < file'[t][j].rec
      <4>1. file[names[h]][k].rec \in 1 .. next - 1
        BY <1>0, <2>3, NewPieces
      <4>2. t \in DOMAIN file'
        <5>1. Grows(w, t)
          BY <1>0, AppendGrows
        <5> QED  BY <5>1, Zenon DEF Grows
      <4>3. OldAt(t, j) \/ NewAt(t, j, m, w, t)
        BY <1>0, <4>2, NewPieces
      <4>4. CASE OldAt(t, j)
        <5>1. t \in DOMAIN file /\ j \in DOMAIN file[t] /\ file'[t][j] = file[t][j]
          BY <4>4 DEF OldAt
        <5>2. t # Len(file) + 1
          BY <1>2, <5>1
        <5>3. t = names[0] /\ names[0] # Nobody
          BY <1>3, <5>2
        <5>4. file[names[h]][k].rec < file[names[0]][j].rec
          BY <1>1, <1>5, <2>2, <2>5, <5>1, <5>3, Zenon DEF Layered
        <5> QED  BY <5>1, <5>3, <5>4, Zenon
      <4>5. CASE NewAt(t, j, m, w, t)
        <5> DEFINE d == j - Len(Old(t))
        <5>1. d \in 1 .. m /\ file'[t][j].rec = next + d - 1
          BY <4>5 DEF NewAt
        <5>2. next \in Nat
          BY <1>0 DEF TypeOK
        <5> HIDE DEF d
        <5>3. \A a \in 1 .. next - 1 : a < next + d - 1
          BY <5>1, <5>2
        <5> QED  BY <4>1, <5>1, <5>3, Zenon
      <4> QED  BY <4>3, <4>4, <4>5
    <3> QED  BY <2>2, <2>3, <3>1, <3>2, Zenon
  <2> QED  BY <2>4, <2>5
<1>6. Layered(slot)'
  BY <1>5, Zenon DEF Layered
<1> QED  BY <1>1, <1>4, <1>6, Zenon

LEMMA AppendOInv ==
    ASSUME WInv, OInv, OneProcess, NEW p \in Process, AppendRecords(p) \/ AppendCutOff(p)
    PROVE  OInv'
<1>0. TypeOK /\ Numbered /\ Own /\ Layered(slot) /\ Kept /\ Retained
  BY DEF WInv, OInv
<1>1. PICK n, m, w, kept, names, t :
        /\ Appends(p, n, m, w, kept, names, t)
        /\ \/ m = n /\ acked' = acked \cup next .. next + n - 1 /\ broken' = broken
           \/ acked' = acked /\ broken < MaxBroken /\ broken' = broken + 1
  BY AppendCases
<1>2. /\ names[0] # Nobody => t = names[0]
      /\ names[0] = Nobody => t = Len(file) + 1
      /\ t # Nobody /\ slot'[0] = t
      /\ \A h \in Name \ {0} : slot'[h] = names[h]
  BY <1>0, <1>1, OneTarget
<1>3. /\ \A h \in Name \ {0} : names[h] # Nobody =>
            names[h] # t /\ names[h] \in DOMAIN file /\ file'[names[h]] = file[names[h]]
      /\ Layered(slot)'
  BY <1>0, <1>1, AppendLayered
<1>4. Own'
  <2>1. fd' \in {[fd EXCEPT ![p] = t], [fd EXCEPT ![p] = Nobody]}
    BY <1>1 DEF Appends
  <2>2. \A q \in Process : q = p
    BY DEF OneProcess
  <2>3. fd \in [Process -> 1 .. Len(file) \cup {Nobody}]
    BY <1>0 DEF TypeOK
  <2>4. fd'[p] \in {Nobody, t}
    BY <2>1, <2>3
  <2> QED  BY <1>2, <2>2, <2>4, Zenon DEF Own
<1>5. ASSUME NEW r, Found(r, file, names)
      PROVE  Found(r, file', slot')
  <2>1. PICK h \in 0 .. MaxRotated :
          names[h] # Nobody /\ \E k \in DOMAIN file[names[h]] : file[names[h]][k].rec = r
    BY <1>5, Zenon DEF Found
  <2>2. h \in Name
    BY Names
  <2>3. slot'[h] = names[h]
    BY <1>2, <2>1, <2>2, Zenon
  <2>4. names[h] \in DOMAIN file
    <3>1. names \in [Name -> 1 .. Len(file) \cup {Nobody}] /\ DOMAIN file = 1 .. Len(file)
      BY <1>0, <1>1, AppendNames
    <3> QED  BY <2>1, <2>2, <3>1
  <2>5. PICK k \in DOMAIN file[names[h]] : file[names[h]][k].rec = r
    BY <2>1
  <2>6. k \in DOMAIN file'[names[h]] /\ file'[names[h]][k] = file[names[h]][k]
    BY <1>0, <1>1, <2>4, AppendPieces
  <2> QED  BY <2>1, <2>3, <2>5, <2>6, Zenon DEF Found
<1>6. Retire(names, kept)
  BY <1>1 DEF Appends
<1>7. Kept'
  <2> SUFFICES ASSUME NEW r \in acked'
               PROVE  r \in aged' \/ Found(r, file', slot')
    BY Zenon DEF Kept
  <2>1. CASE r \in acked
    <3>1. r \in aged' \/ Found(r, file, names)
      BY <1>0, <1>6, <2>1, RetireKept
    <3> QED  BY <1>5, <3>1
  <2>2. CASE r \in next .. next + n - 1 /\ m = n
    <3>1. n \in Nat /\ next \in Nat /\ \A k \in 1 .. m : Written(w)[k].rec = next + k - 1
      BY <1>0, <1>1, WrittenType
    <3>2. r - next + 1 \in 1 .. m /\ next + (r - next + 1) - 1 = r
      BY <2>2, <3>1
    <3> DEFINE d == r - next + 1
    <3> HIDE DEF d
    <3>3. d \in 1 .. m /\ Written(w)[d].rec = r
      BY <3>1, <3>2 DEF d
    <3>4. Len(Old(t)) + d \in DOMAIN file'[t] /\ file'[t][Len(Old(t)) + d] = Written(w)[d]
      BY <1>0, <1>1, <3>3, AppendPieces
    <3>5. 0 \in 0 .. MaxRotated
      BY Names
    <3> QED  BY <1>2, <3>3, <3>4, <3>5, Zenon DEF Found
  <2> QED  BY <1>1, <2>1, <2>2
<1>8. Retained'
  <2> SUFFICES ASSUME stuck' = 0, NEW a \in aged', NEW r \in 1 .. MaxRecords, Found(r, file', slot')
               PROVE  a < r
    BY Zenon DEF Retained
  <2>1. aged' \subseteq 1 .. next - 1 /\ stuck = 0 /\ kept = {}
    <3>1. kept \in SUBSET Name /\ MayStick(kept)
      BY <1>1 DEF Appends
    <3> QED  BY <1>0, <1>6, <3>1, Retired
  <2>2. names = slot \/ names = Rotated({})
    BY <1>1, <2>1 DEF Appends
  <2>3. PICK h \in 0 .. MaxRotated :
          slot'[h] # Nobody /\ \E k \in DOMAIN file'[slot'[h]] : file'[slot'[h]][k].rec = r
    BY Zenon DEF Found
  <2>4. PICK k \in DOMAIN file'[slot'[h]] : file'[slot'[h]][k].rec = r
    BY <2>3
  <2>5. h \in Name
    BY Names
  <2>6. CASE Found(r, file, names)
    BY <1>0, <1>6, <2>1, <2>2, <2>6, RetireRetained
  <2>7. CASE ~Found(r, file, names)
    <3>1. h = 0
      <4> SUFFICES ASSUME h \in Name \ {0}
                   PROVE  FALSE
        BY <2>5
      <4>1. slot'[h] = names[h] /\ names[h] # Nobody
        BY <1>2, <2>3, Zenon
      <4>2. file'[names[h]] = file[names[h]]
        BY <1>3, <4>1, Zenon
      <4>3. k \in DOMAIN file[names[h]] /\ file[names[h]][k].rec = r
        BY <2>4, <4>1, <4>2, Zenon
      <4> QED  BY <2>7, <4>1, <4>3, Zenon DEF Found
    <3>2. slot'[h] = t /\ k \in DOMAIN file'[t] /\ file'[t][k].rec = r
      BY <1>2, <2>4, <3>1
    <3>3. t \in DOMAIN file'
      <4>1. Grows(w, t)
        BY <1>0, <1>1, AppendGrows
      <4> QED  BY <4>1, Zenon DEF Grows
    <3>4. OldAt(t, k) \/ NewAt(t, k, m, w, t)
      BY <1>0, <1>1, <3>2, <3>3, NewPieces
    <3>5. ~OldAt(t, k)
      <4> SUFFICES ASSUME OldAt(t, k)
                   PROVE  FALSE
        OBVIOUS
      <4>1. t \in DOMAIN file /\ k \in DOMAIN file[t] /\ file[t][k].rec = r
        BY <3>2, Zenon DEF OldAt
      <4>2. t # Len(file) + 1
        BY <1>0, <1>1, <4>1, AppendNames
      <4>3. t = names[0] /\ names[0] # Nobody
        BY <1>2, <4>2
      <4> QED  BY <2>7, <3>1, <4>1, <4>3, Zenon DEF Found
    <3> DEFINE d == k - Len(Old(t))
    <3>6. d \in 1 .. m /\ r = next + d - 1
      BY <3>2, <3>4, <3>5, Zenon DEF NewAt
    <3>7. next \in Nat
      BY <1>0 DEF TypeOK
    <3> HIDE DEF d
    <3> QED  BY <2>1, <3>6, <3>7
  <2> QED  BY <2>6, <2>7
<1> QED  BY <1>3, <1>4, <1>7, <1>8 DEF OInv

LEMMA CompactOInv ==
    ASSUME WInv, OInv, OneProcess, NEW p \in Process, NEW kept, Compacts(p, kept)
    PROVE  OInv'
<1>0. TypeOK /\ Numbered /\ Own /\ Layered(slot) /\ Kept /\ Retained
  BY DEF WInv, OInv
<1>1. /\ kept \in SUBSET Name /\ MayStick(kept)
      /\ slot' = Rotated(kept) /\ Retire(Rotated(kept), kept)
      /\ fd' = [fd EXCEPT ![p] = Nobody]
      /\ file' = file /\ next' = next /\ acked' = acked /\ short' = short /\ broken' = broken
  BY DEF Compacts
<1>2. Own'
  <2>1. \A q \in Process : q = p
    BY DEF OneProcess
  <2>2. fd \in [Process -> 1 .. Len(file) \cup {Nobody}]
    BY <1>0 DEF TypeOK
  <2>3. fd'[p] = Nobody
    BY <1>1, <2>2
  <2> QED  BY <2>1, <2>3, Zenon DEF Own
<1>3. Layered(slot)'
  <2>1. Layered(Rotated(kept))
    BY <1>0, RotatedLayered
  <2> QED  BY <1>1, <2>1 DEF Layered
<1>4. Kept'
  <2>1. \A r \in acked : r \in aged' \/ Found(r, file, Rotated(kept))
    BY <1>0, <1>1, RetireKept
  <2> QED  BY <1>1, <2>1, Zenon DEF Kept
<1>5. Retained'
  <2> SUFFICES ASSUME stuck' = 0, NEW a \in aged', NEW r \in 1 .. MaxRecords, Found(r, file', slot')
               PROVE  a < r
    BY Zenon DEF Retained
  <2>1. stuck = 0 /\ kept = {}
    BY <1>0, <1>1, Retired
  <2>2. Retire(Rotated({}), {}) /\ Found(r, file, Rotated({}))
    BY <1>1, <2>1
  <2> QED  BY <1>0, <2>1, <2>2, RetireRetained
<1> QED  BY <1>2, <1>3, <1>4, <1>5 DEF OInv

LEMMA RestOInv ==
    ASSUME WInv, OInv, (\E p \in Process : Close(p)) \/ UNCHANGED vars
    PROVE  OInv'
<1>0. TypeOK /\ Own /\ Layered(slot) /\ Kept /\ Retained
  BY DEF WInv, OInv
<1>1. /\ file' = file /\ slot' = slot /\ next' = next /\ acked' = acked /\ aged' = aged
      /\ short' = short /\ stuck' = stuck /\ broken' = broken
  BY DEF Close, vars
<1>2. Own'
  <2>1. fd \in [Process -> 1 .. Len(file) \cup {Nobody}]
    BY <1>0 DEF TypeOK
  <2>2. \A q \in Process : fd'[q] \in {fd[q], Nobody}
    BY <2>1 DEF Close, vars
  <2> QED  BY <1>0, <1>1, <2>2 DEF Own
<1>3. Layered(slot)' /\ Kept' /\ Retained'
  BY <1>0, <1>1 DEF Layered, Kept, Retained, Found
<1> QED  BY <1>2, <1>3 DEF OInv

\* One process appends to the active segment only, older names hold older
\* records, and what is acknowledged is found or has aged (storage.py 845-1007).
THEOREM OneProcessInvariant ==
    ASSUME OneProcess
    PROVE  Spec => []OInv
<1>1. Init => OInv
  <2> SUFFICES ASSUME Init
               PROVE  OInv
    OBVIOUS
  <2>1. /\ \A n \in Name : slot[n] = Nobody
        /\ \A p \in Process : fd[p] = Nobody
        /\ acked = {} /\ aged = {}
    BY DEF Init
  <2>2. Own /\ Layered(slot) /\ Kept /\ Retained
    BY <2>1, Zenon DEF Own, Layered, Kept, Retained
  <2> QED  BY <2>2 DEF OInv
<1>2. WInv /\ OInv /\ [Next]_vars => OInv'
  BY Steps, AppendOInv, CompactOInv, RestOInv, Zenon
<1> QED  BY <1>1, <1>2, WritesInvariant, PTL DEF Spec

-----------------------------------------------------------------------------
(***************************************************************************)
(* What a reader sees.                                                     *)
(***************************************************************************)
\* A line a reader yields is a piece of a file, under a name it visits.
LEMMA LineOnFile ==
    ASSUME TypeOK, NEW a \in LoadRecords
    PROVE  /\ a[1] \in 0 .. MaxRotated /\ a[1] \in Name /\ slot[a[1]] # Nobody
           /\ slot[a[1]] \in DOMAIN file /\ a[2] \in DOMAIN file[slot[a[1]]]
           /\ a[2] \in Nat
<1>1. PICK n \in 0 .. MaxRotated : a \in Content(n)
  BY DEF LoadRecords
<1>2. slot[n] # Nobody /\ \E i \in Parsed(file[slot[n]]) : a = <<n, i>>
  BY <1>1 DEF Content
<1>3. PICK i \in Parsed(file[slot[n]]) : a = <<n, i>>
  BY <1>2
<1>4. a[1] = n /\ a[2] = i
  BY <1>3
<1>5. n \in Name
  BY Names
<1>6. slot[n] \in 1 .. Len(file) /\ DOMAIN file = 1 .. Len(file)
  BY <1>2, <1>5 DEF TypeOK
<1>7. file[slot[n]] \in Seq(Piece)
  BY <1>6 DEF TypeOK
<1>8. i \in DOMAIN file[slot[n]]
  BY DEF Parsed
<1>9. i \in Nat
  BY <1>7, <1>8
<1> QED  BY <1>2, <1>4, <1>5, <1>6, <1>8, <1>9

LEMMA InOrder ==
    ASSUME WInv, OInv
    PROVE  ReadableInOrder
<1>0. TypeOK /\ Ascending /\ Layered(slot)
  BY DEF WInv, OInv
<1> SUFFICES ASSUME NEW a \in LoadRecords, NEW b \in LoadRecords, Before(a, b)
             PROVE  Loaded(a) < Loaded(b)
  BY DEF ReadableInOrder
<1>1. /\ a[1] \in Name /\ slot[a[1]] # Nobody /\ slot[a[1]] \in DOMAIN file
      /\ a[2] \in DOMAIN file[slot[a[1]]]
  BY <1>0, LineOnFile
<1>2. /\ b[1] \in Name /\ slot[b[1]] # Nobody /\ slot[b[1]] \in DOMAIN file
      /\ b[2] \in DOMAIN file[slot[b[1]]]
  BY <1>0, LineOnFile
<1>3. CASE a[1] > b[1]
  <2>1. b[1] < a[1]
    BY <1>1, <1>2, <1>3, Names
  <2> QED  BY <1>0, <1>1, <1>2, <2>1, Zenon DEF Layered, Loaded
<1>4. CASE a[1] = b[1] /\ a[2] < b[2]
  BY <1>0, <1>1, <1>2, <1>4, Zenon DEF Ascending, Loaded
<1> QED  BY <1>3, <1>4 DEF Before

\* What is read is found.
LEMMA ReadableFound ==
    ASSUME TypeOK, NEW r \in Readable
    PROVE  Found(r, file, slot) /\ r \in 1 .. MaxRecords
<1>1. PICK a \in LoadRecords : r = Loaded(a)
  BY DEF Readable
<1>2. /\ a[1] \in 0 .. MaxRotated /\ slot[a[1]] # Nobody
      /\ slot[a[1]] \in DOMAIN file /\ a[2] \in DOMAIN file[slot[a[1]]]
  BY LineOnFile
<1>3. file[slot[a[1]]][a[2]].rec = r
  BY <1>1 DEF Loaded
<1>4. file[slot[a[1]]] \in Seq(Piece)
  BY <1>2 DEF TypeOK
<1>5. file[slot[a[1]]][a[2]] \in Piece
  BY <1>2, <1>4
<1>6. r \in 1 .. MaxRecords
  BY <1>3, <1>5 DEF Piece
<1> QED  BY <1>2, <1>3, <1>6, Zenon DEF Found

LEMMA DropsOldest ==
    ASSUME WInv, OInv
    PROVE  RetentionDropsOldest
<1>1. TypeOK /\ Retained
  BY DEF WInv, OInv
<1>2. \A r \in Readable : Found(r, file, slot) /\ r \in 1 .. MaxRecords
  BY <1>1, ReadableFound
<1> QED  BY <1>1, <1>2, Zenon DEF RetentionDropsOldest, Retained

-----------------------------------------------------------------------------
(***************************************************************************)
(* The cap on the segments.                                                *)
(***************************************************************************)
LEMMA RotatedFrom ==
    ASSUME NEW kept, NEW n \in Name, Rotated(kept)[n] # Nobody
    PROVE  \E h \in Name : Rotated(kept)[n] = slot[h]
<1>1. CASE Into(n, kept)
  <2>1. n - 1 \in Name
    BY <1>1, Names DEF Into
  <2> QED  BY <1>1, <2>1, RotatedAt
<1>2. CASE ~Into(n, kept)
  BY <1>2, RotatedAt
<1> QED  BY <1>1, <1>2

LEMMA AppendSized ==
    ASSUME WInv, OInv, Sized, OneProcess, BatchFits,
           NEW p \in Process, NEW n, NEW m, NEW w, NEW kept, NEW names, NEW t,
           Appends(p, n, m, w, kept, names, t)
    PROVE  Sized'
<1>0. TypeOK /\ Numbered /\ Own /\ Layered(slot) /\ Beyond
  BY DEF WInv, OInv
<1> SUFFICES ASSUME stuck' = 0, NEW h \in Name, slot'[h] # Nobody
             PROVE  Len(file'[slot'[h]]) <= MaxBytes
  BY Zenon DEF Sized
<1>1. kept = {} /\ stuck = 0
  <2>1. kept \in SUBSET Name /\ MayStick(kept) /\ Retire(names, kept)
    BY DEF Appends
  <2> QED  BY <1>0, <2>1, Retired
<1>2. /\ names[0] # Nobody => t = names[0]
      /\ names[0] = Nobody => t = Len(file) + 1
      /\ t # Nobody /\ slot'[0] = t
      /\ \A g \in Name \ {0} : slot'[g] = names[g]
  BY <1>0, OneTarget
<1>3. CASE h # 0
  <2>1. slot'[h] = names[h] /\ names[h] # Nobody
    BY <1>2, <1>3
  <2>2. file'[names[h]] = file[names[h]]
    BY <1>0, <1>3, <2>1, AppendLayered
  <2>3. names = slot \/ names = Rotated(kept)
    BY DEF Appends
  <2>4. PICK g \in Name : names[h] = slot[g]
    BY <2>1, <2>3, RotatedFrom
  <2> QED  BY <1>1, <2>1, <2>2, <2>4, Zenon DEF Sized
<1>4. CASE h = 0
  <2>1. /\ Old(t) \in Seq(Piece) /\ Written(w) \in Seq(Piece) /\ Len(Written(w)) = m
        /\ m \in Nat /\ n \in Nat /\ m <= n
    BY <1>0, WrittenType
  <2>2. Len(Old(t) \o Written(w)) = Len(Old(t)) + m /\ Len(Old(t)) \in Nat
    BY <2>1
  <2>3. Len(file'[t]) = Len(Old(t)) + m
    <3>1. Grows(w, t)
      BY <1>0, AppendGrows
    <3> QED  BY <2>2, <3>1, Zenon DEF Grows
  <2>4. MaxBytes \in Nat /\ n <= MaxBytes
    BY SegmentedLogAssumption DEF SegmentedLogAssumption, BatchFits, Appends
  <2>5. CASE names[0] = Nobody
    <3>1. t \notin DOMAIN file
      BY <1>0, <1>2, <2>5, AppendNames
    <3>2. Len(Old(t)) = 0
      BY <3>1 DEF Old
    <3> QED  BY <1>2, <1>4, <2>1, <2>3, <2>4, <3>2
  <2>6. CASE names[0] # Nobody
    <3>1. ~Overflows(n)
      <4>1. Rotated({})[0] = Nobody
        BY <1>0, RotatedWhole
      <4>2. Overflows(n) => names = Rotated({})
        BY <1>1 DEF Appends
      <4> QED  BY <2>6, <4>1, <4>2
    <3>2. names = slot
      BY <3>1 DEF Appends
    <3>3. t = slot[0] /\ slot[0] # Nobody
      BY <1>2, <2>6, <3>2
    <3>4. slot[0] \in 1 .. Len(file) /\ DOMAIN file = 1 .. Len(file)
      BY <1>0, <3>3, Names DEF TypeOK
    <3>5. Old(t) = file[slot[0]]
      BY <3>3, <3>4 DEF Old
    <3>6. ~(Len(Old(t)) + n > MaxBytes)
      BY <3>1, <3>3, <3>5 DEF Overflows
    <3> QED  BY <1>2, <1>4, <2>1, <2>2, <2>3, <2>4, <3>6
  <2> QED  BY <2>5, <2>6
<1> QED  BY <1>3, <1>4

\* While no rename failed, no segment outgrows max_bytes_per_segment when no
\* batch does (storage.py 810-823, 970-1007).
THEOREM SizeInvariant ==
    ASSUME OneProcess, BatchFits
    PROVE  Spec => []Sized
<1>1. Init => Sized
  BY DEF Init, Sized
<1>2. WInv /\ OInv /\ Sized /\ [Next]_vars => Sized'
  <2> SUFFICES ASSUME WInv, OInv, Sized, [Next]_vars
               PROVE  Sized'
    OBVIOUS
  <2>0. TypeOK /\ Numbered
    BY DEF WInv
  <2>1. ASSUME NEW p \in Process, AppendRecords(p) \/ AppendCutOff(p)
        PROVE  Sized'
    <3>1. PICK n, m, w, kept, names, t : Appends(p, n, m, w, kept, names, t)
      BY <2>1, AppendCases, Zenon
    <3> QED  BY <3>1, AppendSized
  <2>2. ASSUME NEW p \in Process, NEW kept, Compacts(p, kept)
        PROVE  Sized'
    <3>1. /\ kept \in SUBSET Name /\ MayStick(kept)
          /\ slot' = Rotated(kept) /\ Retire(Rotated(kept), kept) /\ file' = file
      BY <2>2 DEF Compacts
    <3> SUFFICES ASSUME stuck' = 0, NEW n \in Name, slot'[n] # Nobody
                 PROVE  Len(file'[slot'[n]]) <= MaxBytes
      BY Zenon DEF Sized
    <3>2. stuck = 0
      BY <2>0, <3>1, Retired
    <3>3. PICK h \in Name : slot'[n] = slot[h]
      BY <3>1, RotatedFrom
    <3> QED  BY <3>1, <3>2, <3>3, Zenon DEF Sized
  <2>3. ASSUME (\E p \in Process : Close(p)) \/ UNCHANGED vars
        PROVE  Sized'
    <3>1. file' = file /\ slot' = slot /\ stuck' = stuck
      BY <2>3 DEF Close, vars
    <3> QED  BY <3>1 DEF Sized
  <2> QED  BY Steps, <2>1, <2>2, <2>3, Zenon
<1> QED  BY <1>1, <1>2, WritesInvariant, OneProcessInvariant, PTL DEF Spec

LEMMA Bounded ==
    ASSUME WInv, Sized
    PROVE  DiskBounded
<1> SUFFICES ASSUME stuck = 0
             PROVE  /\ Cardinality(OnDisk) <= MaxRotated + 1 + (IF MaxRotated = 0 THEN 1 ELSE 0)
                    /\ \A i \in OnDisk : Len(file[i]) <= MaxBytes
  BY DEF DiskBounded
<1>1. TypeOK /\ Beyond
  BY DEF WInv
<1>2. \A i \in OnDisk : Len(file[i]) <= MaxBytes
  BY DEF OnDisk, Sized
<1> DEFINE last == MaxRotated + (IF MaxRotated = 0 THEN 1 ELSE 0)
<1> DEFINE Used == {n \in Name : slot[n] # Nobody}
<1> DEFINE At == [n \in Used |-> slot[n]]
<1>3. last \in Nat /\ last + 1 = MaxRotated + 1 + (IF MaxRotated = 0 THEN 1 ELSE 0)
  BY Names
<1>4. Used \subseteq 0 .. last
  <2>1. ASSUME NEW n \in Used
        PROVE  n \in 0 .. last
    <3>1. n \in Nat /\ n <= MaxRotated + 1
      BY Names
    <3>2. MaxRotated > 0 => n # MaxRotated + 1
      BY <1>1 DEF Beyond
    <3> QED  BY <3>1, <3>2, Names
  <2> QED  BY <2>1
<1>5. OnDisk = {At[n] : n \in Used}
  BY DEF OnDisk
<1>6. At \in Surjection(Used, OnDisk)
  <2>1. At \in [Used -> OnDisk]
    BY <1>5
  <2>2. \A i \in OnDisk : \E n \in Used : At[n] = i
    BY <1>5
  <2> HIDE DEF At, Used
  <2> QED  BY <2>1, <2>2 DEF Surjection
<1> HIDE DEF At, Used, last
<1>7. IsFiniteSet(0 .. last) /\ Cardinality(0 .. last) = last + 1
  <2>1. 0 \in Int /\ last \in Int /\ ~(0 > last) /\ last - 0 + 1 = last + 1
    BY <1>3
  <2> QED  BY <2>1, FS_Interval
<1>8. IsFiniteSet(Used) /\ Cardinality(Used) <= last + 1
  BY <1>4, <1>7, FS_Subset
<1>9. Cardinality(OnDisk) <= Cardinality(Used) /\ IsFiniteSet(OnDisk)
  BY <1>6, <1>8, FS_Surjection
<1>10. Cardinality(OnDisk) \in Nat /\ Cardinality(Used) \in Nat
  BY <1>8, <1>9, FS_CardinalityType
<1>11. Cardinality(OnDisk) <= last + 1
  BY <1>3, <1>8, <1>9, <1>10
<1> QED  BY <1>2, <1>3, <1>11

\* For one process, whatever is cut short, cut off or refused: load_records
\* returns the log in order, retention drops the oldest first, and the segments
\* keep to max_bytes_per_segment and max_rotated_segments (storage.py 95-96,
\* 970-1025).
THEOREM ReadersView ==
    ASSUME OneProcess, BatchFits
    PROVE  Spec => []LogIsKept
<1>1. WInv /\ OInv /\ Sized => LogIsKept
  BY InOrder, DropsOldest, Bounded DEF LogIsKept, WInv
<1> QED  BY <1>1, WritesInvariant, OneProcessInvariant, SizeInvariant, PTL

-----------------------------------------------------------------------------
(***************************************************************************)
(* What a short write costs.                                               *)
(***************************************************************************)
\* In some file, r stands right behind c, whose line was cut short.
Behind(r, c) ==
    \E i \in DOMAIN file : \E k \in DOMAIN file[i] :
        /\ k - 1 \in DOMAIN file[i] /\ file[i][k].rec = r
        /\ file[i][k - 1].rec = c /\ file[i][k - 1].shape # "whole"

LEMMA BehindOne ==
    ASSUME WInv, NEW r, NEW s, NEW c, Behind(r, c), Behind(s, c)
    PROVE  r = s /\ c \in Cut(file)
<1>0. TypeOK /\ Ascending /\ WrittenOnce
  BY DEF WInv
<1>1. PICK i \in DOMAIN file : \E k \in DOMAIN file[i] :
        /\ k - 1 \in DOMAIN file[i] /\ file[i][k].rec = r
        /\ file[i][k - 1].rec = c /\ file[i][k - 1].shape # "whole"
  BY Zenon DEF Behind
<1>2. PICK j \in DOMAIN file[i] :
        /\ j - 1 \in DOMAIN file[i] /\ file[i][j].rec = r
        /\ file[i][j - 1].rec = c /\ file[i][j - 1].shape # "whole"
  BY <1>1
<1>3. PICK h \in DOMAIN file : \E k \in DOMAIN file[h] :
        /\ k - 1 \in DOMAIN file[h] /\ file[h][k].rec = s
        /\ file[h][k - 1].rec = c /\ file[h][k - 1].shape # "whole"
  BY Zenon DEF Behind
<1>4. PICK k \in DOMAIN file[h] :
        /\ k - 1 \in DOMAIN file[h] /\ file[h][k].rec = s
        /\ file[h][k - 1].rec = c /\ file[h][k - 1].shape # "whole"
  BY <1>3
<1>5. i = h
  BY <1>0, <1>2, <1>4, Zenon DEF WrittenOnce
<1>6. file[i] \in Seq(Piece)
  BY <1>0 DEF TypeOK
<1>7. j \in Int /\ k \in Int /\ c \in 1 .. MaxRecords
  <2>1. file[i][j - 1] \in Piece
    BY <1>2, <1>6
  <2>2. c \in 1 .. MaxRecords
    BY <1>2, <2>1 DEF Piece
  <2> QED  BY <1>5, <1>6, <2>2
<1>8. j - 1 = k - 1
  <2>1. ~(c < c)
    BY <1>7
  <2>2. ~(j - 1 < k - 1) /\ ~(k - 1 < j - 1)
    BY <1>0, <1>2, <1>4, <1>5, <2>1, Zenon DEF Ascending
  <2> QED  BY <1>7, <2>2
<1>9. j = k
  BY <1>7, <1>8
<1> QED  BY <1>2, <1>4, <1>5, <1>7, <1>9, Zenon DEF Cut

\* A record that is found and not read was cut short or stands behind one.
LEMMA LostCases ==
    ASSUME TypeOK, NEW r, Found(r, file, slot), r \notin Readable, r \notin Cut(file)
    PROVE  \E c : Behind(r, c)
<1>1. PICK n \in 0 .. MaxRotated :
        slot[n] # Nobody /\ \E k \in DOMAIN file[slot[n]] : file[slot[n]][k].rec = r
  BY Zenon DEF Found
<1>2. PICK k \in DOMAIN file[slot[n]] : file[slot[n]][k].rec = r
  BY <1>1
<1>3. n \in Name
  BY Names
<1>4. slot[n] \in DOMAIN file
  BY <1>1, <1>3 DEF TypeOK
<1>5. file[slot[n]] \in Seq(Piece)
  BY <1>4 DEF TypeOK
<1>6. file[slot[n]][k] \in Piece /\ k \in 1 .. Len(file[slot[n]]) /\ Len(file[slot[n]]) \in Nat
  BY <1>5
<1>7. r \in 1 .. MaxRecords
  BY <1>2, <1>6 DEF Piece
<1>8. file[slot[n]][k].shape = "whole"
  BY <1>2, <1>4, <1>7, Zenon DEF Cut
<1>9. k \notin Parsed(file[slot[n]])
  <2> SUFFICES ASSUME k \in Parsed(file[slot[n]])
               PROVE  r \in Readable
    OBVIOUS
  <2>1. <<n, k>> \in Content(n)
    BY <1>1 DEF Content
  <2>2. <<n, k>> \in LoadRecords
    BY <2>1 DEF LoadRecords
  <2>3. Loaded(<<n, k>>) = r
    BY <1>2 DEF Loaded
  <2> QED  BY <2>2, <2>3, Zenon DEF Readable
<1>10. k > 1 /\ file[slot[n]][k - 1].shape # "whole"
  BY <1>8, <1>9 DEF Parsed
<1>11. k - 1 \in DOMAIN file[slot[n]]
  BY <1>5, <1>6, <1>10
<1> QED  BY <1>2, <1>4, <1>10, <1>11, Zenon DEF Behind

LEMMA Accounted ==
    ASSUME WInv, OInv
    PROVE  LossIsAccounted
<1> DEFINE Lost == acked \ (Readable \cup aged)
<1> DEFINE B == Lost \ Cut(file)
<1> DEFINE C == Lost \cap Cut(file)
<1> DEFINE Mark == [r \in B |-> CHOOSE c : Behind(r, c)]
<1>0. TypeOK /\ Counted /\ Kept
  BY DEF WInv, OInv
<1>1. \A r \in B : Behind(r, Mark[r])
  <2> SUFFICES ASSUME NEW r \in B
               PROVE  \E c : Behind(r, c)
    BY Zenon
  <2>1. Found(r, file, slot)
    BY <1>0 DEF Kept
  <2> QED  BY <1>0, <2>1, LostCases
<1>2. \A r \in B : Mark[r] \in Cut(file)
  BY <1>1, BehindOne
<1>3. Mark \in Injection(B, Cut(file))
  <2>1. Mark \in [B -> Cut(file)]
    <3>1. Mark = [r \in B |-> Mark[r]]
      OBVIOUS
    <3> HIDE DEF Mark
    <3> QED  BY <1>2, <3>1
  <2>2. ASSUME NEW x \in B, NEW y \in B, Mark[x] = Mark[y]
        PROVE  x = y
    <3>1. Behind(x, Mark[x]) /\ Behind(y, Mark[x])
      BY <1>1, <2>2, Zenon
    <3> QED  BY <3>1, BehindOne
  <2> HIDE DEF Mark, B
  <2> QED  BY <2>1, <2>2 DEF Injection, IsInjective
<1>4. CutType(file)
  BY CutIsFinite
<1>5. Lost = C \cup B /\ C \in SUBSET Cut(file) /\ C \cap B = {}
  OBVIOUS
<1> HIDE DEF Mark, B, C
<1>6. IsFiniteSet(B) /\ Cardinality(B) <= Cardinality(Cut(file)) /\ Cardinality(B) \in Nat
  <2>1. IsFiniteSet(B) /\ Cardinality(B) <= Cardinality(Cut(file))
    BY <1>3, <1>4, FS_Injection DEF CutType
  <2> QED  BY <2>1, FS_CardinalityType
<1>7. IsFiniteSet(C) /\ Cardinality(C) <= Cardinality(Cut(file)) /\ Cardinality(C) \in Nat
  <2>1. IsFiniteSet(C) /\ Cardinality(C) <= Cardinality(Cut(file))
    BY <1>4, <1>5, FS_Subset DEF CutType
  <2> QED  BY <2>1, FS_CardinalityType
<1>8. Cardinality(Lost) = Cardinality(C) + Cardinality(B)
  <2>1. Cardinality(C \cup B) = Cardinality(C) + Cardinality(B) - Cardinality(C \cap B)
    BY <1>6, <1>7, FS_Union
  <2>2. Cardinality(C \cap B) = 0
    BY <1>5, FS_EmptySet
  <2> QED  BY <1>5, <1>6, <1>7, <2>1, <2>2
<1>9. short \in Nat
  BY <1>0, SegmentedLogAssumption DEF SegmentedLogAssumption, TypeOK
<1> HIDE DEF Lost
<1>10. Cardinality(Lost) <= 2 * short
  BY <1>0, <1>4, <1>6, <1>7, <1>8, <1>9 DEF Counted, CutType
<1> QED  BY <1>10 DEF LossIsAccounted, Lost

\* For one process, a record whose append returned is read back or has aged out,
\* but for the record a short write cut and the one glued to it, whatever else
\* was cut off, refused or compacted (storage.py 900-1039).
THEOREM NothingElseLost ==
    ASSUME OneProcess
    PROVE  Spec => []LossIsAccounted
<1>1. WInv /\ OInv => LossIsAccounted
  BY Accounted
<1> QED  BY <1>1, WritesInvariant, OneProcessInvariant, PTL
=============================================================================
