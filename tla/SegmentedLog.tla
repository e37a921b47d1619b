---------------------------- MODULE SegmentedLog ----------------------------
(***************************************************************************)
(* FileStorage on disk (storage.py), for one switch: the active segment    *)
(* outcomes.jsonl, the rotated segments .1, .2, ..., the append descriptor *)
(* every process keeps open between calls, rotation, compaction, the read  *)
(* path, and what a failed, a short or an interrupted write leaves behind. *)
(*                                                                         *)
(* A file is an inode: renaming it moves the inode to another name, and a  *)
(* descriptor keeps naming the inode it opened.  The flock on .lock and    *)
(* the thread lock beside it are held over a whole append, rotation or     *)
(* read, so each of those is one step.                                     *)
(***************************************************************************)
EXTENDS Naturals, FiniteSets, SequencesExt

CONSTANTS
    Process,     \* FileStorage instances over the same directory
    MaxBytes,    \* max_bytes_per_segment, in pieces
    MaxRotated,  \* max_rotated_segments
    MaxBatch,    \* bound: records in one _append_sync call
    MaxRecords,  \* bound: records appended in a behaviour
    MaxShort,    \* bound: short writes
    MaxStuck,    \* bound: renames or unlinks that fail
    MaxBroken,   \* bound: appends cut off by an OSError or a crash
    Nobody       \* no inode: the name is free, no descriptor is open

ASSUME SegmentedLogAssumption ==
    /\ MaxBytes \in Nat \ {0}
    /\ MaxRotated \in Nat
    /\ MaxBatch \in Nat \ {0}
    /\ MaxRecords \in Nat /\ MaxShort \in Nat
    /\ MaxStuck \in Nat /\ MaxBroken \in Nat
    /\ Nobody \notin Nat

\* One os.write: the record, and how much of its line reached the disk.  The
\* return value of os.write is ignored, so a line may be cut short ("torn"),
\* or may miss nothing but its newline ("unended").
Shape == {"whole", "unended", "torn"}
Piece == [rec : 1 .. MaxRecords, shape : Shape]

\* Name 0 is outcomes.jsonl, name k is outcomes.jsonl.k.  Only names up to
\* MaxRotated are read; one more can exist when MaxRotated is 0.
Name == 0 .. MaxRotated + 1

VARIABLES
    file,    \* file[i]: the pieces written to inode i
    slot,    \* slot[n]: the inode behind each name
    fd,      \* fd[p]: _fd_cache, the append descriptor of process p
    next,    \* the next record
    acked,   \* history: records whose append_record has returned
    aged,    \* history: records that were in a segment rotation dropped
    short,   \* short writes so far
    stuck,   \* failed renames and unlinks so far
    broken   \* cut-off appends so far

vars == <<file, slot, fd, next, acked, aged, short, stuck, broken>>
-----------------------------------------------------------------------------
(* The read path *)

\* A line is parsed when it starts at a line break, ends at one or at the end
\* of the file, and is all there.
Parsed(pieces) ==
    {i \in DOMAIN pieces :
        /\ pieces[i].shape # "torn"
        /\ i > 1 => pieces[i - 1].shape = "whole"
        /\ i < Len(pieces) => pieces[i].shape = "whole"}

\* The lines a reader finds under one name: the name and the place in it.
Content(n) ==
    {<<n, i>> : i \in IF slot[n] = Nobody THEN {} ELSE Parsed(file[slot[n]])}

\* What load_records returns, rotated segments from the oldest, then active: the
\* lines it yields, and which of two it yields first.
LoadRecords == UNION {Content(n) : n \in 0 .. MaxRotated}
Before(a, b) == a[1] > b[1] \/ (a[1] = b[1] /\ a[2] < b[2])
Loaded(a)    == file[slot[a[1]]][a[2]].rec

Readable == {Loaded(a) : a \in LoadRecords}
-----------------------------------------------------------------------------
(* Rotation *)

\* Names in use that the operating system lets _rotate rename or unlink.
Moves(n, kept) == slot[n] # Nobody /\ n \notin kept

\* Mutant: a rename never overwrites, a segment whose place is taken goes.
RotatedNoOverwrite(kept) ==
    [n \in Name |->
        CASE n = 0 -> Nobody
          [] n = MaxRotated /\ slot[n] # Nobody -> slot[n]
          [] n = MaxRotated + 1 /\ n > 1 -> Nobody
          [] OTHER -> slot[n - 1]]

\* The names after _rotate, when those in kept cannot be touched: every OSError
\* is suppressed, and a crash half way leaves the lower names in place.  It
\* works from the oldest name down: what lies beyond retention is unlinked,
\* name n replaces name n + 1, and the active segment replaces .1, whether or
\* not anything is retained.
Rotated(kept) ==
    [n \in Name |->
        CASE (n \in 1 .. MaxRotated \/ n = 1) /\ Moves(n - 1, kept) -> slot[n - 1]
          [] ~((n \in 1 .. MaxRotated \/ n = 1) /\ Moves(n - 1, kept))
             /\ Moves(n, kept) -> Nobody
          [] OTHER -> slot[n]]

\* Inodes a reader finds under these names, and the records written to them.
Linked(names) == {names[n] : n \in 0 .. MaxRotated} \ {Nobody}
RecordsIn(inodes) == UNION {{piece.rec : piece \in Range(file[i])} : i \in inodes}

\* What one run of _rotate changes besides the descriptor of its process.
Retire(names, kept) ==
    /\ aged' = aged \cup RecordsIn(Linked(slot) \ Linked(names))
    /\ stuck' = stuck + Cardinality(kept)

\* The operating system may refuse any of the names in use, MaxStuck in all.
MayStick(kept) ==
    /\ kept \subseteq {n \in Name : slot[n] # Nobody}
    /\ stuck + Cardinality(kept) <= MaxStuck

\* Mutant: compaction forgets to close the process's own descriptor.
CompactKeepsDescriptor(p) ==
    \E kept \in SUBSET Name :
        /\ MayStick(kept)
        /\ slot' = Rotated(kept)
        /\ Retire(Rotated(kept), kept)
        /\ UNCHANGED <<file, fd, next, acked, short, broken>>

Compact(p) ==
    \E kept \in SUBSET Name :
        /\ MayStick(kept)
        /\ slot' = Rotated(kept)
        /\ Retire(Rotated(kept), kept)
        /\ fd' = [fd EXCEPT ![p] = Nobody]
        /\ UNCHANGED <<file, next, acked, short, broken>>
-----------------------------------------------------------------------------
(* The append path *)

\* _append_sync looks at the size of whatever is called outcomes.jsonl now.
Overflows(n) == slot[0] # Nobody /\ Len(file[slot[0]]) + n > MaxBytes

\* Process p's next write goes to its cached descriptor, which a rotation it
\* performs itself has closed, else to outcomes.jsonl, created when missing.
Target(p, full, names) ==
    IF ~full /\ fd[p] # Nobody THEN fd[p]
    ELSE IF names[0] # Nobody THEN names[0] ELSE Len(file) + 1

\* The shapes of m successive os.write calls.
Writes(m) ==
    {w \in [1 .. m -> Shape] :
        short + Cardinality({i \in 1 .. m : w[i] # "whole"}) <= MaxShort}

Written(w) == [i \in DOMAIN w |-> [rec |-> next + i - 1, shape |-> w[i]]]

\* _append_sync of n records by p up to its write number Len(w): rotate when
\* they would not all fit, find the descriptor, write.  The descriptor is kept
\* when everything went well.  (A stat that fails only puts a rotation off.)
AppendSync(p, n, w, ok) ==
    \E kept \in SUBSET Name :
        LET full   == Overflows(n)
            names  == IF full THEN Rotated(kept) ELSE slot
            target == Target(p, full, names)
        IN  /\ MayStick(kept) /\ (~full => kept = {})
            /\ Retire(names, kept)
            /\ slot' = IF target = Len(file) + 1 THEN [names EXCEPT ![0] = target] ELSE names
            /\ file' = IF target = Len(file) + 1 THEN Append(file, Written(w))
                       ELSE [file EXCEPT ![target] = @ \o Written(w)]
            /\ fd' = [fd EXCEPT ![p] = IF ok THEN target ELSE Nobody]
            /\ next' = next + n
            /\ short' = short + Cardinality({i \in DOMAIN w : w[i] # "whole"})

AppendRecords(p) ==
    \E n \in 1 .. MaxBatch :
        /\ next + n <= MaxRecords + 1
        /\ \E w \in Writes(n) : AppendSync(p, n, w, TRUE)
        /\ acked' = acked \cup next .. next + n - 1
        /\ UNCHANGED broken

\* An os.write raises, or the process dies between two of them, or the final
\* fsync raises: the lines written so far stay, the descriptor is dropped, and
\* nothing is acknowledged.
AppendCutOff(p) ==
    \E n \in 1 .. MaxBatch, m \in 0 .. MaxBatch :
        /\ broken < MaxBroken /\ m <= n
        /\ next + n <= MaxRecords + 1
        /\ \E w \in Writes(m) : AppendSync(p, n, w, FALSE)
        /\ broken' = broken + 1
        /\ UNCHANGED acked

\* close(), or the death of the process between two calls: no descriptor.
Close(p) ==
    /\ fd[p] # Nobody
    /\ fd' = [fd EXCEPT ![p] = Nobody]
    /\ UNCHANGED <<file, slot, next, acked, aged, short, stuck, broken>>
-----------------------------------------------------------------------------
Init ==
    /\ file = <<>>
    /\ slot = [n \in Name |-> Nobody]
    /\ fd = [p \in Process |-> Nobody]
    /\ next = 1
    /\ acked = {} /\ aged = {}
    /\ short = 0 /\ stuck = 0 /\ broken = 0

Next == \E p \in Process : AppendRecords(p) \/ AppendCutOff(p) \/ Compact(p) \/ Close(p)

Spec == Init /\ [][Next]_vars
-----------------------------------------------------------------------------
(* Properties *)

\* Every name and descriptor refers to an existing inode, every piece is a
\* record's, and only records attempted so far are acknowledged or aged.
TypeOK ==
    /\ file \in Seq(Seq(Piece))
    /\ slot \in [Name -> 1 .. Len(file) \cup {Nobody}]
    /\ fd \in [Process -> 1 .. Len(file) \cup {Nobody}]
    /\ next \in 1 .. MaxRecords + 1
    /\ acked \subseteq 1 .. next - 1
    /\ aged \subseteq 1 .. next - 1
    /\ short \in 0 .. MaxShort /\ stuck \in 0 .. MaxStuck /\ broken \in 0 .. MaxBroken

\* load_records returns records in append order, oldest first, each at most
\* once, whatever rotations, compactions, short writes and crashes happened
\* (invariant 1 of the Storage contract).
ReadableInOrder ==
    \A a, b \in LoadRecords : Before(a, b) => Loaded(a) < Loaded(b)

\* A record whose append returned stays readable until its segment ages out:
\* a short write costs at most its own line and the one glued to it.
LossIsAccounted == Cardinality(acked \ (Readable \cup aged)) <= 2 * short

\* Retention drops the oldest outcomes: nothing that was rotated away is newer
\* than anything still readable, unless a rename failed half way.
RetentionDropsOldest ==
    stuck = 0 => \A a \in aged, r \in Readable : a < r

\* The segments of one switch stay within the cap max_bytes_per_segment and
\* max_rotated_segments promise, as long as renames go through and one batch
\* fits in a segment.
OnDisk == {slot[n] : n \in Name} \ {Nobody}
DiskBounded ==
    stuck = 0 =>
        /\ Cardinality(OnDisk) <= MaxRotated + 1 + (IF MaxRotated = 0 THEN 1 ELSE 0)
        /\ \A i \in OnDisk : Len(file[i]) <= MaxBytes

\* What readers and operators count on: everything is in range, load_records
\* returns append order, the segments stay within their cap, and retention
\* drops the oldest (storage.py 95-96, 970-1025).
LogIsKept == TypeOK /\ ReadableInOrder /\ RetentionDropsOldest /\ DiskBounded
=============================================================================
