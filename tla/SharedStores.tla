---------------------------- MODULE SharedStores ----------------------------
(***************************************************************************)
(* The stores several processes share: the state blobs of FileStorage (and *)
(* of the switch's own files when its storage keeps none), and the tables  *)
(* of SqliteStorage and PostgresStorage.  FileStorage's outcome log is     *)
(* module SegmentedLog.                                                    *)
(*                                                                         *)
(* A blob here is the ledger, to which every lifecycle event adds a line   *)
(* by reading it and putting it back whole, or a head, which is replaced.  *)
(* A writer does one of these at a time: the ledger is written under the   *)
(* switch's _lock, which other processes do not have; the head is written  *)
(* after _head_lock is released, so its writers may be threads as well.    *)
(* What SQLite and Postgres do with a statement is outside the repository: *)
(* a statement is atomic, ids are given in order, SQLite lets one          *)
(* transaction write at a time, and Postgres may show a later id first.    *)
(***************************************************************************)
EXTENDS Naturals

CONSTANTS
  Process,     \* threads or processes writing to the store
  Backends,    \* the stores considered
  Keys,        \* the blobs considered
  MaxEntries,  \* bound: blobs and records written
  MaxFaults    \* bound: processes killed, and calls of the store that fail

\* What the constants may be.
StoresAssumption ==
  /\ Backends \subseteq {"file", "sqlite", "postgres"} /\ Keys \subseteq {"head", "ledger"}
  /\ MaxEntries \in Nat /\ MaxFaults \in Nat

Entry == 1..MaxEntries
Missing == [lines |-> {}, whole |-> TRUE]
Empty == [lines |-> {}, whole |-> FALSE]

VARIABLES
  backend, key,  \* the store, and the blob in it
  stored,      \* what get_state would read
  temp,        \* FileStorage: the temporary file beside it
  table,       \* the committed rows of the outcome log, and their ids
  nextId,      \* the next id the table gives
  pc, hand,    \* per process: its step, and the entry it writes
  read,        \* per process: the blob it will put
  handle,      \* per process: what the file it writes is called by now
  entries,     \* entries begun
  done,        \* entries whose call returned
  faults,      \* processes killed and calls failed so far
  overlap,     \* history: two processes wrote at the same time
  failed       \* history: a write was cut short, or failed and was absorbed

vars == <<backend, key, stored, temp, table, nextId, pc, hand, read, handle,
          entries, done, faults, overlap, failed>>
kind == <<backend, key>>
files == <<stored, temp, handle>>
rows == <<table, nextId>>
past == <<faults, overlap, failed>>

Init ==
  /\ backend \in Backends /\ key \in Keys
  /\ stored = Missing /\ temp = Missing
  /\ table = {} /\ nextId = 1
  /\ pc = [p \in Process |-> "idle"] /\ hand = [p \in Process |-> 0]
  /\ read = [p \in Process |-> Missing] /\ handle = [p \in Process |-> "none"]
  /\ entries = 0 /\ done = {} /\ faults = 0 /\ overlap = FALSE /\ failed = FALSE

Goto(p, l) == pc' = [pc EXCEPT ![p] = l]

\* A call of process p begins, and takes the next entry: in time order.
Start(p, l) ==
  /\ pc[p] = "idle" /\ entries < MaxEntries
  /\ entries' = entries + 1 /\ hand' = [hand EXCEPT ![p] = entries + 1]
  /\ overlap' = (overlap \/ \E q \in Process : pc[q] # "idle")
  /\ Goto(p, l)

Finish(p) == Goto(p, "idle") /\ done' = done \cup {hand[p]}

-----------------------------------------------------------------------------
(***************************************************************************)
(* State blobs.                                                            *)
(***************************************************************************)

\* The lines of the blob p is going to put.
Adds(p, blob) == (IF key = "ledger" THEN blob.lines ELSE {}) \cup {entries + 1}

\* _append_ledger reads what is there; _save_head_state has its bytes.
StartPut(p) ==
  /\ Start(p, IF backend = "file" THEN "open" ELSE "upsert")
  /\ read' = [read EXCEPT ![p] =
       [lines |-> Adds(p, stored), whole |-> key = "head" \/ stored.whole]]
  /\ UNCHANGED <<kind, files, rows, done, faults, failed>>

\* The read fails, which _get_state does not tell from an empty ledger: the
\* put replaces all that was there.
ReadFails(p) ==
  /\ Start(p, IF backend = "file" THEN "open" ELSE "upsert")
  /\ key = "ledger" /\ faults < MaxFaults
  /\ faults' = faults + 1 /\ failed' = TRUE
  /\ read' = [read EXCEPT ![p] = [lines |-> Adds(p, Missing), whole |-> TRUE]]
  /\ UNCHANGED <<kind, files, rows, done>>

\* The bytes of p over what is in a file by now: whole only if that is
\* nothing, or no longer than they are.
Over(p, there) ==
  {read[p]} \cup (IF there.lines # {} THEN {[read[p] EXCEPT !.whole = FALSE]} ELSE {})

\* Mutant: the blob is written under its own name.
OpenInPlace(p) ==
  /\ pc[p] = "open"
  /\ stored' = Empty /\ handle' = [handle EXCEPT ![p] = "blob"]
  /\ Goto(p, "write")
  /\ UNCHANGED <<kind, temp, rows, hand, read, entries, done, past>>

\* tmp.write_bytes opens one temporary name per key, empty.
Open(p) ==
  /\ pc[p] = "open"
  /\ temp' = Empty /\ handle' = [handle EXCEPT ![p] = "temp"]
  /\ Goto(p, "write")
  /\ UNCHANGED <<kind, stored, rows, hand, read, entries, done, past>>

\* The bytes go to the file that was opened: another writer may have renamed
\* it to the blob by now, or another blob may have replaced that.
Write(p) ==
  /\ pc[p] = "write"
  /\ CASE handle[p] = "temp" -> temp' \in Over(p, temp) /\ UNCHANGED stored
       [] handle[p] = "blob" -> stored' \in Over(p, stored) /\ UNCHANGED temp
       [] OTHER -> UNCHANGED <<stored, temp>>
  /\ handle' = [handle EXCEPT ![p] = "none"]
  /\ Goto(p, "replace")
  /\ UNCHANGED <<kind, rows, hand, read, entries, done, past>>

\* tmp.replace(path), by name: it renames whatever temporary file there is,
\* under the writers that have it open.
Renamed ==
  /\ stored' = temp /\ temp' = Missing
  /\ handle' = [q \in Process |->
       IF handle[q] = "temp" THEN "blob" ELSE "none"]

\* Where another writer renamed it already, _put_state absorbs the exception.
Replace(p) ==
  /\ pc[p] = "replace" /\ Finish(p)
  /\ IF temp # Missing THEN Renamed ELSE UNCHANGED files
  /\ UNCHANGED <<kind, rows, hand, read, entries, past>>

\* INSERT ... ON CONFLICT DO UPDATE.
Upsert(p) ==
  /\ pc[p] = "upsert" /\ Finish(p)
  /\ stored' = read[p]
  /\ UNCHANGED <<kind, temp, handle, rows, hand, read, entries, past>>

\* The write fails, and _put_state absorbs the exception.
PutFails(p) ==
  /\ pc[p] \in {"open", "write", "upsert"} /\ faults < MaxFaults /\ Finish(p)
  /\ faults' = faults + 1 /\ failed' = TRUE
  /\ handle' = [handle EXCEPT ![p] = "none"]
  /\ UNCHANGED <<kind, stored, temp, rows, hand, read, entries, overlap>>

\* delete_state, of a quarantined head.
Delete(p) ==
  /\ pc[p] = "idle" /\ key = "head" /\ stored # Missing
  /\ stored' = Missing
  /\ handle' = [q \in Process |-> IF handle[q] = "blob" THEN "none" ELSE handle[q]]
  /\ UNCHANGED <<kind, temp, rows, pc, hand, read, entries, done, past>>

-----------------------------------------------------------------------------
(***************************************************************************)
(* The outcome log in a table.  A record is its entry, which is older the  *)
(* smaller it is: its timestamp.                                           *)
(***************************************************************************)
StartAppend(p) ==
  /\ backend # "file" /\ Start(p, "insert")
  /\ UNCHANGED <<kind, files, rows, read, done, faults, failed>>

\* SQLite: BEGIN IMMEDIATE waits for the one write lock.  Postgres: nothing.
MayInsert == backend = "sqlite" => \A q \in Process : pc[q] # "commit"

Insert(p) ==
  /\ pc[p] = "insert" /\ MayInsert
  /\ nextId' = nextId + 1
  /\ read' = [read EXCEPT ![p] = [lines |-> {nextId}, whole |-> TRUE]]
  /\ Goto(p, "commit")
  /\ UNCHANGED <<kind, files, table, hand, entries, done, past>>

Commit(p) ==
  /\ pc[p] = "commit" /\ Finish(p)
  /\ table' = table \cup {[id |-> i, record |-> hand[p]] : i \in read[p].lines}
  /\ UNCHANGED <<kind, files, nextId, hand, read, entries, past>>

\* A busy timeout, or an error: rolled back, and raised to the caller.
Rollback(p) ==
  /\ pc[p] \in {"insert", "commit"} /\ faults < MaxFaults
  /\ faults' = faults + 1 /\ Goto(p, "idle")
  /\ UNCHANGED <<kind, files, rows, hand, read, entries, done, overlap, failed>>

\* load_records: "ORDER BY id".
Before(r, s) == r.id < s.id

\* The process is killed; SQLite and Postgres roll its transaction back.
Kill(p) ==
  /\ pc[p] # "idle" /\ faults < MaxFaults
  /\ faults' = faults + 1
  /\ failed' = (failed \/ pc[p] \in {"open", "write", "replace", "upsert"})
  /\ Goto(p, "idle") /\ handle' = [handle EXCEPT ![p] = "none"]
  /\ UNCHANGED <<kind, stored, temp, rows, hand, read, entries, done, overlap>>

Next ==
  \E p \in Process :
    \/ StartPut(p) \/ ReadFails(p) \/ Open(p) \/ Write(p) \/ Replace(p) \/ Upsert(p) \/ PutFails(p) \/ Delete(p)
    \/ StartAppend(p) \/ Insert(p) \/ Commit(p) \/ Rollback(p)
    \/ Kill(p)

Spec == Init /\ [][Next]_vars

-----------------------------------------------------------------------------
Blob == [lines : SUBSET Entry, whole : BOOLEAN]

\* Everything stays in range.
TypeOK ==
  /\ backend \in Backends /\ key \in Keys /\ stored \in Blob /\ temp \in Blob
  /\ table \subseteq [id : 1..MaxEntries, record : Entry] /\ nextId \in 1..(MaxEntries + 1)
  /\ pc \in [Process -> {"idle", "open", "write", "replace", "upsert", "insert", "commit"}]
  /\ hand \in [Process -> 0..MaxEntries] /\ read \in [Process -> Blob]
  /\ handle \in [Process -> {"none", "temp", "blob"}]
  /\ entries \in 0..MaxEntries /\ done \subseteq Entry /\ faults \in 0..MaxFaults
  /\ overlap \in BOOLEAN /\ failed \in BOOLEAN

\* A process killed at any step of a put leaves the blob whole: the old one,
\* the new one or none.  The tables keep that promise to overlapping writers
\* too; the files, which share one temporary name, do not.
BlobIsWhole == (backend = "file" => ~overlap) => stored.whole

\* Every lifecycle event that was logged is in the ledger, unless a write
\* failed or two processes logged at the same time, in any of the stores.
LedgerKeepsEvents ==
  (key = "ledger" /\ ~overlap /\ ~failed) =>
    \A e \in done : e \in stored.lines \cup {r.record : r \in table}

\* The outcome log a reader loads only ever grows at its end: what was the
\* newest record stays after all older ones.  (In Postgres a record can come
\* to stand before one that was loaded already.)
GrowsAtItsEnd ==
  backend = "sqlite" =>
    table \subseteq table' /\ \A r \in table, s \in table' \ table : Before(r, s)
=============================================================================
