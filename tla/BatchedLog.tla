----------------------------- MODULE BatchedLog -----------------------------
(***************************************************************************)
(* The batching layer of FileStorage (storage.py, batching=True): callers  *)
(* queue records, and the background flusher, load_records, flush and      *)
(* close move the queue to disk.  One storage object serves several        *)
(* switches.                                                               *)
(*                                                                         *)
(* Taking the queue, putting a batch back and writing one switch's batch   *)
(* each run under a lock and are one step; everything between them is      *)
(* open to the other threads.  The file layer below (SegmentedLog) is seen *)
(* here as one sequence per switch, which a failing append may extend by   *)
(* part of its batch.  The flusher's timed wait may end at any moment, so  *)
(* _flush_event and batch_size, which only end it sooner, are left out.    *)
(***************************************************************************)
EXTENDS Naturals, FiniteSets, SequencesExt

CONSTANTS
    Caller,      \* threads of the program
    Flusher,     \* the flusher thread
    Switch,      \* switch names the storage object is used for
    May,         \* May[t]: the operations thread t calls
    MaxRecords,  \* bound: records appended
    MaxFaults    \* bound: appends to disk that fail

Thread == Caller \cup {Flusher}
Operation == {"append_record", "load_records", "flush", "close"}

ASSUME BatchedLogAssumption ==
    /\ Flusher \notin Caller
    /\ May \in [Caller -> SUBSET Operation]
    /\ Switch # {}
    /\ MaxRecords \in Nat /\ MaxFaults \in Nat

Record == 1 .. MaxRecords

VARIABLES
    queue,       \* _queue
    disk,        \* what load_records would read, per switch
    closed,      \* _closed, and with it _stop_event
    snapshot,    \* snapshot[t]: the local of _drain_once, what is left of it
    pc,          \* where each thread stands
    after,       \* where a drain returns to
    of,          \* of[t]: the switch t's call is about
    accepted,    \* history: records whose append_record has returned
    due,         \* history: due[t] was accepted when t's call began
    overlapped,  \* history: a drain or read began inside another's drain
    next,        \* the next record, numbered as it enters the queue
    faults       \* failed appends so far

vars == <<queue, disk, closed, snapshot, pc, after, of, accepted, due, overlapped, next, faults>>
call == <<of, due>>

Nothing == [s \in Switch |-> <<>>]
Label == {"idle", "enqueue", "take", "drain", "requeue", "read", "join", "closed",
          "loop", "stopped"}

OnDisk(s)   == Range(disk[s])
Queued(s)   == Range(queue[s])
Held(t, s)  == Range(snapshot[t][s])
Draining(t) == pc[t] \in {"drain", "requeue"}
-----------------------------------------------------------------------------
Goto(t, l) == pc' = [pc EXCEPT ![t] = l]

\* A call about switch s begins; history remembers what it should find.
Enter(t, s, l) ==
    /\ Goto(t, l)
    /\ of' = [of EXCEPT ![t] = s]
    /\ due' = [due EXCEPT ![t] = accepted[s]]

(* append_record *)

\* _closed is read outside the queue lock; after close() the call raises.
AppendCheck(t) ==
    /\ pc[t] = "idle" /\ "append_record" \in May[t]
    /\ ~closed
    /\ \E s \in Switch : Enter(t, s, "enqueue")
    /\ UNCHANGED <<queue, disk, closed, snapshot, after, accepted, overlapped, next, faults>>

Enqueue(t) ==
    /\ pc[t] = "enqueue"
    /\ next <= MaxRecords
    /\ queue' = [queue EXCEPT ![of[t]] = Append(@, next)]
    /\ accepted' = [accepted EXCEPT ![of[t]] = @ \cup {next}]
    /\ next' = next + 1
    /\ Goto(t, "idle")
    /\ UNCHANGED <<disk, closed, snapshot, after, call, overlapped, faults>>

(* _drain_once *)

\* Somebody else is between taking the queue and finishing with it.
SomeoneDrains(t) == \E u \in Thread \ {t} : Draining(u)

\* The whole queue, of every switch, is taken at once.
Take(t) ==
    /\ pc[t] = "take"
    /\ IF queue = Nothing THEN Goto(t, after[t]) ELSE Goto(t, "drain")
    /\ snapshot' = [snapshot EXCEPT ![t] = queue]
    /\ queue' = Nothing
    /\ overlapped' = (overlapped \/ SomeoneDrains(t))
    /\ UNCHANGED <<disk, closed, after, call, accepted, next, faults>>

\* One switch's batch reaches the disk; after the last, the drain returns.
Write(t, s) ==
    /\ pc[t] = "drain" /\ snapshot[t][s] # <<>>
    /\ disk' = [disk EXCEPT ![s] = @ \o snapshot[t][s]]
    /\ snapshot' = [snapshot EXCEPT ![t][s] = <<>>]
    /\ Goto(t, IF snapshot'[t] = Nothing THEN after[t] ELSE "drain")
    /\ UNCHANGED <<queue, closed, after, call, accepted, overlapped, next, faults>>

\* What a failing drain still holds when it leaves the loop over its
\* snapshot: the batch that failed.  The switches after it go with the local.
Kept(t, s) == [Nothing EXCEPT ![s] = snapshot[t][s]]

\* _append_sync raises after k of its lines; all of them, when fsync raises.
WriteFails(t, s) ==
    /\ pc[t] = "drain" /\ snapshot[t][s] # <<>>
    /\ faults < MaxFaults
    /\ faults' = faults + 1
    /\ \E k \in 0 .. Len(snapshot[t][s]) :
           disk' = [disk EXCEPT ![s] = @ \o SubSeq(snapshot[t][s], 1, k)]
    /\ snapshot' = [snapshot EXCEPT ![t] = Kept(t, s)]
    /\ Goto(t, "requeue")
    /\ UNCHANGED <<queue, closed, after, call, accepted, overlapped, next>>

\* Requeue, with what becomes of the queue and where the thread goes on.
PutBack(t, refilled, l) ==
    /\ pc[t] = "requeue"
    /\ queue' = refilled
    /\ snapshot' = [snapshot EXCEPT ![t] = Nothing]
    /\ Goto(t, l)
    /\ UNCHANGED <<disk, closed, after, call, accepted, overlapped, next, faults>>

InFront(t) == [s \in Switch |-> snapshot[t][s] \o queue[s]]
Raised(t) == IF after[t] = "read" THEN "idle" ELSE after[t]

\* Mutants: the batch replaces what arrived meanwhile; it goes behind it; the
\* exception ends the flusher thread.
RequeueReplaces(t) ==
    PutBack(t, [s \in Switch |-> IF snapshot[t][s] = <<>> THEN queue[s] ELSE snapshot[t][s]], Raised(t))
RequeueBehind(t) == PutBack(t, [s \in Switch |-> queue[s] \o snapshot[t][s]], Raised(t))
RequeueEndsFlusher(t) == PutBack(t, InFront(t), IF t = Flusher THEN "stopped" ELSE Raised(t))

\* The except branch puts the batch back in front and raises: a caller gets
\* the exception instead of its records, the flusher swallows it.
Requeue(t) == PutBack(t, InFront(t), Raised(t))

(* load_records and flush *)

\* Mutant: load_records reads without draining first.
LoadUnflushed(t) ==
    /\ pc[t] = "idle" /\ "load_records" \in May[t]
    /\ \E s \in Switch : Enter(t, s, "read")
    /\ UNCHANGED <<queue, disk, closed, snapshot, after, accepted, overlapped, next, faults>>

Load(t) ==
    /\ pc[t] = "idle" /\ "load_records" \in May[t]
    /\ \E s \in Switch : Enter(t, s, "take")
    /\ after' = [after EXCEPT ![t] = "read"]
    /\ UNCHANGED <<queue, disk, closed, snapshot, accepted, overlapped, next, faults>>

\* The shared lock is taken and the segments are read: disk is the answer.
Read(t) ==
    /\ pc[t] = "read"
    /\ Goto(t, "idle")
    /\ UNCHANGED <<queue, disk, closed, snapshot, after, call, accepted, overlapped, next, faults>>

Flush(t) ==
    /\ pc[t] = "idle" /\ "flush" \in May[t]
    /\ Goto(t, "take")
    /\ after' = [after EXCEPT ![t] = "idle"]
    /\ UNCHANGED <<queue, disk, closed, snapshot, call, accepted, overlapped, next, faults>>

(* close *)

\* A second close returns at once, whether or not the first is done.
Close(t) ==
    /\ pc[t] = "idle" /\ "close" \in May[t]
    /\ ~closed
    /\ closed' = TRUE
    /\ due' = [due EXCEPT ![t] = UNION {accepted[s] : s \in Switch}]
    /\ Goto(t, "join")
    /\ UNCHANGED <<queue, disk, snapshot, after, of, accepted, overlapped, next, faults>>

\* close() returns once the flusher has ended.  Cached descriptors are closed;
\* the next append on this object would open new ones.
Joined(t) ==
    /\ pc[t] = "join" /\ pc[Flusher] = "stopped"
    /\ Goto(t, "closed")
    /\ UNCHANGED <<queue, disk, closed, snapshot, after, call, accepted, overlapped, next, faults>>

\* join(timeout=2.0) gives up on a flusher that is still writing.
JoinTimesOut(t) ==
    /\ pc[t] = "join" /\ pc[Flusher] # "stopped"
    /\ Goto(t, "idle")
    /\ UNCHANGED <<queue, disk, closed, snapshot, after, call, accepted, overlapped, next, faults>>

(* _flusher_loop *)

\* The loop tests _stop_event, waits, and drains; once stopped it drains a last
\* time and ends.
Wake ==
    /\ pc[Flusher] = "loop"
    /\ after' = [after EXCEPT ![Flusher] = IF closed THEN "stopped" ELSE "loop"]
    /\ Goto(Flusher, "take")
    /\ UNCHANGED <<queue, disk, closed, snapshot, call, accepted, overlapped, next, faults>>
-----------------------------------------------------------------------------
Init ==
    /\ queue = Nothing /\ disk = Nothing
    /\ closed = FALSE
    /\ snapshot = [t \in Thread |-> Nothing]
    /\ pc = [t \in Thread |-> IF t = Flusher THEN "loop" ELSE "idle"]
    /\ after = [t \in Thread |-> "idle"]
    /\ of \in [Thread -> Switch]
    /\ accepted = [s \in Switch |-> {}]
    /\ due = [t \in Thread |-> {}]
    /\ overlapped = FALSE
    /\ next = 1 /\ faults = 0

Call(t) == AppendCheck(t) \/ Load(t) \/ Flush(t) \/ Close(t)
Drain(t) == Take(t) \/ (\E s \in Switch : Write(t, s) \/ WriteFails(t, s)) \/ Requeue(t)
Finish(t) == Enqueue(t) \/ Read(t) \/ Joined(t) \/ JoinTimesOut(t)

Next ==
    \/ Wake
    \/ \E t \in Caller : Call(t) \/ Finish(t)
    \/ \E t \in Thread : Drain(t)

Spec == Init /\ [][Next]_vars

\* A call that has begun goes on, and the flusher's wait has a timeout.
Fairness ==
    /\ WF_vars(Wake)
    /\ \A t \in Thread : WF_vars(Drain(t))
    /\ \A t \in Caller : WF_vars(Finish(t))

FairSpec == Spec /\ Fairness
-----------------------------------------------------------------------------
(* Properties *)

TypeOK ==
    /\ queue \in [Switch -> Seq(Record)]
    /\ disk \in [Switch -> Seq(Record)]
    /\ closed \in BOOLEAN /\ overlapped \in BOOLEAN
    /\ snapshot \in [Thread -> [Switch -> Seq(Record)]]
    /\ pc \in [Thread -> Label]
    /\ after \in [Thread -> {"idle", "read", "loop", "stopped"}]
    /\ of \in [Thread -> Switch]
    /\ accepted \in [Switch -> SUBSET Record]
    /\ due \in [Thread -> SUBSET Record]
    /\ next \in 1 .. MaxRecords + 1
    /\ faults \in 0 .. MaxFaults

\* While the process lives, a record append_record accepted is on disk, in the
\* queue, or in the hands of a drain, however many disk appends fail and
\* however flusher, readers and close interleave.
NothingLost ==
    \A s \in Switch :
        accepted[s] \subseteq OnDisk(s) \cup Queued(s) \cup UNION {Held(t, s) : t \in Thread}

\* The first appearance of each record on disk is in the order append_record
\* queued them, even when a failed batch is put back and written again, as
\* long as no two drains overlap.
AppendOrder ==
    ~overlapped =>
        \A s \in Switch : \A i, j \in DOMAIN disk[s] :
            /\ i < j
            /\ disk[s][j] \notin {disk[s][k] : k \in 1 .. j - 1}
            => disk[s][i] < disk[s][j]

\* A record is on disk twice only after a disk append has failed.
NoDuplicateWithoutFailure ==
    faults = 0 => \A s \in Switch : \A i, j \in DOMAIN disk[s] : disk[s][i] = disk[s][j] => i = j

\* A load_records that no other drain overlaps reads everything accepted
\* before it was called.
ReadSeesAccepted ==
    ~overlapped => \A t \in Caller : pc[t] = "read" => due[t] \subseteq OnDisk(of[t])

\* When close() has waited for the flusher to end and no disk append failed,
\* whatever was accepted before it was called is on disk or in the hands of a
\* caller's own load_records or flush.
CloseDrains ==
    \A t \in Caller : pc[t] = "closed" /\ faults = 0 =>
        due[t] \subseteq UNION {OnDisk(s) \cup UNION {Held(u, s) : u \in Caller} : s \in Switch}

\* An accepted record reaches the disk, unless the storage object is closed
\* first: failed appends are retried, and nobody has to call anything.
EventuallyWritten ==
    \A s \in Switch : \A r \in Record : r \in accepted[s] ~> (r \in OnDisk(s) \/ closed)

\* Records reach the disk in the order they were accepted, and twice only after
\* a failed append (storage.py 898-916).
WrittenInOrder == AppendOrder /\ NoDuplicateWithoutFailure

\* A read and a close() find on disk what was accepted before them, unless a
\* drain overlaps the read or an append failed (storage.py 929-955, 1013-1019).
FlushPointsHold == ReadSeesAccepted /\ CloseDrains
=============================================================================
