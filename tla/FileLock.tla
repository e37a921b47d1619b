------------------------------- MODULE FileLock -------------------------------
(***************************************************************************)
(* The lock FileStorage holds over every append, rotation and read of one  *)
(* switch (module SegmentedLog takes it as given): flock on the switch's   *)
(* .lock file keeps other processes out, a thread lock beside the cached   *)
(* descriptor keeps other threads out.  After close(), and where the       *)
(* cached descriptor cannot be had, a fresh descriptor is locked instead.  *)
(*                                                                         *)
(* flock is the operating system's, outside the repository: a lock belongs *)
(* to an open file description, so descriptors opened apart exclude each   *)
(* other and threads sharing one do not; closing it releases the lock.     *)
(* Nothing here duplicates a descriptor: a process and a number name the   *)
(* description.  Numbers are given anew, the least free one first.         *)
(***************************************************************************)
EXTENDS Naturals, FiniteSets

CONSTANTS
  Process,     \* the FileStorage objects on one directory, each in its process
  Thread,      \* their threads
  Of,          \* the process of a thread
  Closing,     \* the objects that may be closed
  Fds,         \* bound: descriptor numbers of a process
  MaxDirs,     \* bound: directories the switch has, one after another
  None         \* no thread

\* What the constants may be.
LockAssumption ==
  /\ Of \in [Thread -> Process] /\ Closing \subseteq Process /\ None \notin Thread
  /\ Fds \in Nat \ {0} /\ MaxDirs \in Nat \ {0}

VARIABLES
  dir,         \* the switch's directory, 0 if there is none; its .lock file
  dirs,        \* directories made so far
  fingerprint, \* per process: the directory it has validated, 0 for none
  file,        \* per process and number: the directory whose .lock is open, or 0
  locks,       \* the flocks held: process, number, and whether it is shared
  closed,      \* per process: _closed, and what close() has still to do
  cached,      \* per process: the number in _lock_fd_cache, 0 for none
  entries,     \* per process: cache entries made, each with a thread lock
  owner,       \* per process and entry: the thread that holds its thread lock
  pc, shared,  \* per thread: its step, and the lock it wants
  fd, entry,   \* per thread: the descriptor it locks, and the cache entry it has
  cut          \* history: a close() ran under a thread that used the lock

vars == <<dir, dirs, fingerprint, file, locks, closed, cached, entries, owner,
          pc, shared, fd, entry, cut>>
place == <<dir, dirs>>
caches == <<closed, cached, entries>>
thread == <<pc, shared, fd, entry>>

Init ==
  /\ dir = 0 /\ dirs = 0 /\ fingerprint = [p \in Process |-> 0]
  /\ file = [p \in Process |-> [n \in 1..Fds |-> 0]] /\ locks = {}
  /\ closed = [p \in Process |-> "no"] /\ cached = [p \in Process |-> 0]
  /\ entries = [p \in Process |-> 0]
  /\ owner = [p \in Process |-> [e \in 1..2 |-> None]]
  /\ pc = [t \in Thread |-> "idle"] /\ shared = [t \in Thread |-> FALSE]
  /\ fd = [t \in Thread |-> 0] /\ entry = [t \in Thread |-> 0]
  /\ cut = FALSE

Goto(t, l) == pc' = [pc EXCEPT ![t] = l]

-----------------------------------------------------------------------------
(***************************************************************************)
(* The directory.                                                          *)
(***************************************************************************)

\* Someone removes it, with everything in it.
Remove ==
  /\ dir # 0 /\ dirs < MaxDirs /\ dir' = 0
  /\ UNCHANGED <<dirs, fingerprint, file, locks, caches, owner, thread, cut>>

\* _switch_dir and _verify_cached_dir: a directory that is not the one
\* validated before is refused, once; a missing one is resolved again.
Begin(t) ==
  /\ pc[t] = "idle"
  /\ LET p == Of[t] swapped == fingerprint[p] # 0 /\ dir \notin {0, fingerprint[p]} IN
       /\ fingerprint' = [fingerprint EXCEPT ![p] = IF swapped THEN 0 ELSE dir]
       /\ IF swapped THEN UNCHANGED <<pc, shared>>
          ELSE Goto(t, "check") /\ \E s \in BOOLEAN : shared' = [shared EXCEPT ![t] = s]
  /\ UNCHANGED <<place, file, locks, caches, owner, fd, entry, cut>>

\* mkdir, and open .lock: the least number free.
Opened(p, n) ==
  /\ n \in 1..Fds /\ file[p][n] = 0 /\ \A m \in 1..(n - 1) : file[p][m] # 0
  /\ dir' = (IF dir = 0 THEN dirs + 1 ELSE dir) /\ dirs' = (IF dir = 0 THEN dirs + 1 ELSE dirs)
  /\ file' = [file EXCEPT ![p][n] = dir']

-----------------------------------------------------------------------------
(***************************************************************************)
(* Taking the lock.                                                        *)
(***************************************************************************)

\* _cached_flock reads _closed.
Check(t) ==
  /\ pc[t] = "check"
  /\ Goto(t, IF closed[Of[t]] = "no" THEN "lookup" ELSE "fresh")
  /\ UNCHANGED <<place, fingerprint, file, locks, caches, owner, shared, fd, entry, cut>>

\* _get_lock_fd: the cached descriptor and its thread lock, or new ones.
Lookup(t) ==
  /\ pc[t] = "lookup"
  /\ LET p == Of[t] IN
       IF cached[p] # 0
       THEN /\ fd' = [fd EXCEPT ![t] = cached[p]] /\ entry' = [entry EXCEPT ![t] = entries[p]]
            /\ UNCHANGED <<place, file, cached, entries>>
       ELSE \E n \in 1..Fds :
              /\ Opened(p, n)
              /\ cached' = [cached EXCEPT ![p] = n] /\ entries' = [entries EXCEPT ![p] = @ + 1]
              /\ fd' = [fd EXCEPT ![t] = n] /\ entry' = [entry EXCEPT ![t] = entries[p] + 1]
  /\ Goto(t, "thread")
  /\ UNCHANGED <<fingerprint, locks, closed, owner, shared, cut>>

\* Mutant: flock alone, which threads sharing the descriptor pass together.
EnterThreadAtOnce(t) ==
  /\ pc[t] = "thread" /\ Goto(t, "flock")
  /\ UNCHANGED <<place, fingerprint, file, locks, caches, owner, shared, fd, entry, cut>>

\* _CachedFLock.__enter__: the thread lock first.
EnterThread(t) ==
  /\ pc[t] = "thread" /\ owner[Of[t]][entry[t]] = None
  /\ owner' = [owner EXCEPT ![Of[t]][entry[t]] = t]
  /\ Goto(t, "flock")
  /\ UNCHANGED <<place, fingerprint, file, locks, caches, shared, fd, entry, cut>>

\* _FileLock.__enter__ opens a descriptor of its own.
OpenFresh(t) ==
  /\ pc[t] = "fresh"
  /\ \E n \in 1..Fds : Opened(Of[t], n) /\ fd' = [fd EXCEPT ![t] = n]
  /\ Goto(t, "flock")
  /\ UNCHANGED <<fingerprint, locks, caches, owner, shared, entry, cut>>

Granted(p, n, s) ==
  \A l \in locks :
    (l.p # p \/ l.fd # n) /\ file[l.p][l.fd] = file[p][n] => s /\ l.shared

\* flock waits for the locks of other descriptions; a lock this one holds
\* already is converted.
Flock(t) ==
  /\ pc[t] = "flock"
  /\ LET p == Of[t] n == fd[t] IN
       /\ file[p][n] # 0 /\ Granted(p, n, shared[t])
       /\ locks' = {l \in locks : l.p # p \/ l.fd # n} \cup {[p |-> p, fd |-> n, shared |-> shared[t]]}
  /\ Goto(t, "held")
  /\ UNCHANGED <<place, fingerprint, file, caches, owner, shared, fd, entry, cut>>

\* "self._thread_lock.release()".
Released(t) ==
  owner' = IF entry[t] = 0 THEN owner ELSE [owner EXCEPT ![Of[t]][entry[t]] = None]

Done(t) ==
  /\ Goto(t, "idle") /\ fd' = [fd EXCEPT ![t] = 0] /\ entry' = [entry EXCEPT ![t] = 0]
  /\ shared' = [shared EXCEPT ![t] = FALSE]
  /\ UNCHANGED <<fingerprint, place, caches, cut>>

\* The descriptor was closed under the thread: flock raises.
FlockFails(t) ==
  /\ pc[t] = "flock" /\ file[Of[t]][fd[t]] = 0
  /\ Released(t) /\ Done(t)
  /\ UNCHANGED <<file, locks>>

-----------------------------------------------------------------------------
(***************************************************************************)
(* Giving it back.                                                         *)
(***************************************************************************)

\* LOCK_UN, errors suppressed, and for a fresh descriptor its close.
Unlock(t) ==
  /\ pc[t] = "held"
  /\ LET p == Of[t] n == fd[t] IN
       /\ locks' = {l \in locks : l.p # p \/ l.fd # n}
       /\ file' = IF entry[t] = 0 THEN [file EXCEPT ![p][n] = 0] ELSE file
  /\ Released(t) /\ Done(t)

Busy(p) == \E t \in Thread : Of[t] = p /\ pc[t] # "idle"

\* close() sets _closed; its threads may be anywhere.
StartClose(p) ==
  /\ closed[p] = "no" /\ closed' = [closed EXCEPT ![p] = "descriptors"]
  /\ cut' = (cut \/ Busy(p))
  /\ UNCHANGED <<place, fingerprint, file, locks, cached, entries, owner, thread>>

\* ... and then closes the cached lock descriptor, whoever holds it.
EndClose(p) ==
  /\ closed[p] = "descriptors" /\ closed' = [closed EXCEPT ![p] = "yes"]
  /\ cached' = [cached EXCEPT ![p] = 0]
  /\ file' = [file EXCEPT ![p] = [n \in 1..Fds |-> IF n = cached[p] THEN 0 ELSE @[n]]]
  /\ locks' = {l \in locks : l.p # p \/ l.fd # cached[p]}
  /\ UNCHANGED <<place, fingerprint, entries, owner, thread, cut>>

Next ==
  \/ Remove
  \/ \E p \in Closing : StartClose(p) \/ EndClose(p)
  \/ \E t \in Thread :
       \/ Begin(t) \/ Check(t) \/ Lookup(t) \/ EnterThread(t) \/ OpenFresh(t)
       \/ Flock(t) \/ FlockFails(t) \/ Unlock(t)

Spec == Init /\ [][Next]_vars

-----------------------------------------------------------------------------
\* Everything stays in range.
TypeOK ==
  /\ dir \in 0..MaxDirs /\ dirs \in 0..MaxDirs /\ fingerprint \in [Process -> 0..MaxDirs]
  /\ file \in [Process -> [1..Fds -> 0..MaxDirs]]
  /\ locks \subseteq [p : Process, fd : 1..Fds, shared : BOOLEAN]
  /\ closed \in [Process -> {"no", "descriptors", "yes"}]
  /\ cached \in [Process -> 0..Fds]
  /\ entries \in [Process -> 0..2] /\ owner \in [Process -> [1..2 -> Thread \cup {None}]]
  /\ pc \in [Thread -> {"idle", "check", "lookup", "thread", "fresh", "flock", "held"}]
  /\ shared \in [Thread -> BOOLEAN] /\ fd \in [Thread -> 0..Fds] /\ entry \in [Thread -> 0..2]
  /\ cut \in BOOLEAN

Holds(t) == pc[t] = "held"

\* Two threads that hold the lock, in one process or in two, are both
\* readers.  The exceptions are a directory that was replaced, after which
\* the old .lock file and the new one are locked apart, and a close() under a
\* thread that was using the lock.  (A storage closed while idle goes on
\* excluding, with fresh descriptors.)
Excludes ==
  (dirs <= 1 /\ ~cut) =>
    \A t, u \in Thread : t # u /\ Holds(t) /\ Holds(u) => shared[t] /\ shared[u]

\* Nothing is left locked: a flock or a thread lock that is held is held by a
\* thread that is on its way to give it back, whatever was closed or removed
\* meanwhile.
NothingLeftLocked ==
  /\ \A l \in locks : \E t \in Thread : Of[t] = l.p /\ fd[t] = l.fd /\ Holds(t)
  /\ \A p \in Process, e \in 1..2 :
       owner[p][e] # None => pc[owner[p][e]] \in {"flock", "held"} /\ entry[owner[p][e]] = e
=============================================================================
