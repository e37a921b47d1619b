------------------------------ MODULE Insights ------------------------------
(***************************************************************************)
(* Postrule Insights on disk (src/postrule/insights/): the enrolment flag, *)
(* the queue of events waiting to be posted, and the cache of the tuned    *)
(* defaults, all files of one home directory shared by every process.      *)
(*                                                                         *)
(* A thread appends an event, or flushes the queue, or refreshes the       *)
(* cache, or enrols; flushes and refreshes run on daemon threads, which    *)
(* die with their process at any step.  Appends take a lock that nothing   *)
(* else takes, so it orders nothing here and is left out.  Path.write_text *)
(* truncates the file and then writes it: two steps, with everyone else's  *)
(* in between.  The command line that calls these functions, and the       *)
(* collector that answers them, are outside the repository.                *)
(***************************************************************************)
EXTENDS Naturals, Sequences, FiniteSets

CONSTANTS
  Thread,      \* threads of all processes using the directory
  BatchSize,   \* FLUSH_BATCH_SIZE
  MaxEvents,   \* bound: events queued
  MaxPosts,    \* bound: requests the collector takes
  MaxKills,    \* bound: threads that die with their process
  MaxPublished \* bound: documents the collector publishes

\* What the constants may be.
InsightsAssumption ==
  /\ BatchSize \in Nat \ {0} /\ MaxEvents \in Nat
  /\ MaxPosts \in Nat /\ MaxKills \in Nat /\ MaxPublished \in Nat \ {0}

Event == 1..MaxEvents
BakedIn == 0                   \* BAKED_IN_DEFAULTS, version 0

VARIABLES
  enrolment,   \* the flag file: "absent", "torn" or "enrolled"
  queue,       \* the lines of the queue file; a missing file has none
  collected,   \* what the collector took, in order
  cache,       \* the tuned defaults on disk: its file, and the version in it
  fresh,       \* the cache file is younger than CACHE_FRESHNESS_HOURS
  published,   \* the newest version the collector serves
  pc,          \* per thread: the step it is at
  linked,      \* per thread: the file its append opened still has its name
  got,         \* per thread: the queue its flush read
  doc,         \* per thread: the document its refresh fetched
  events,      \* events accepted so far; the next one is named after it
  kills,       \* threads killed
  posts,       \* requests taken
  raced,       \* history: another thread touched the queue under a flush
  cut          \* history: a flush died, or lost the reply, after its post

vars == <<enrolment, queue, collected, cache, fresh, published,
          pc, linked, got, doc, events, posts, kills, raced, cut>>
count == <<events, posts, kills, raced, cut>>
home == <<enrolment, cache, fresh, published, doc>>
mail == <<queue, collected, linked, got, events, posts, raced, cut>>

Init ==
  /\ enrolment \in {"absent", "enrolled"}
  /\ queue = <<>> /\ collected = <<>>
  /\ cache = [file |-> "absent", version |-> BakedIn] /\ fresh = FALSE /\ published = 1
  /\ pc = [t \in Thread |-> "idle"]
  /\ linked = [t \in Thread |-> FALSE]
  /\ got = [t \in Thread |-> <<>>]
  /\ doc = [t \in Thread |-> BakedIn]
  /\ events = 0 /\ posts = 0 /\ kills = 0 /\ raced = FALSE /\ cut = FALSE

Go(t, from, to) == pc[t] = from /\ pc' = [pc EXCEPT ![t] = to]

Forget(t) == got' = [got EXCEPT ![t] = <<>>]

Flushing == {t \in Thread : pc[t] \in {"post", "rewrite", "tail"}}

-----------------------------------------------------------------------------
(***************************************************************************)
(* Enrolment.                                                              *)
(***************************************************************************)

\* read_enrollment: a missing, empty or unreadable record is no enrolment.
IsEnrolled == enrolment = "enrolled"

\* write_enrollment.
Enrol(t) ==
  /\ Go(t, "idle", "enrol") /\ enrolment' = "torn"
  /\ linked' = [linked EXCEPT ![t] = TRUE]
  /\ UNCHANGED <<cache, fresh, published, doc, queue, collected, got, count>>

\* The record goes to the file that was opened; a half record over a whole
\* one of the same length is whole.
EnrolWritten(t) ==
  /\ Go(t, "enrol", "idle")
  /\ enrolment' = IF linked[t] THEN "enrolled" ELSE enrolment
  /\ linked' = [linked EXCEPT ![t] = FALSE]
  /\ UNCHANGED <<cache, fresh, published, doc, queue, collected, got, count>>

\* write_unenrollment.
Leave(t) ==
  /\ Go(t, "idle", "idle") /\ enrolment # "absent" /\ enrolment' = "absent"
  /\ linked' = [u \in Thread |-> linked[u] /\ pc[u] # "enrol"]
  /\ UNCHANGED <<cache, fresh, published, doc, queue, collected, got, count>>

-----------------------------------------------------------------------------
(***************************************************************************)
(* The event queue.                                                        *)
(***************************************************************************)

\* queue_event, called by an enrolled command line: the file is opened for
\* appending, and created when there is none.
OpenQueue(t) ==
  /\ Go(t, "idle", "append") /\ IsEnrolled /\ events < MaxEvents
  /\ linked' = [linked EXCEPT ![t] = TRUE]
  /\ UNCHANGED <<home, queue, collected, got, events, posts, kills, raced, cut>>

\* The line reaches the file the thread opened, which may be unlinked by now.
AppendEvent(t) ==
  /\ Go(t, "append", "idle") /\ events < MaxEvents
  /\ linked' = [linked EXCEPT ![t] = FALSE]
  /\ events' = events + 1
  /\ queue' = IF linked[t] THEN Append(queue, events + 1) ELSE queue
  /\ raced' = (raced \/ Flushing # {} \/ ~linked[t])
  /\ UNCHANGED <<home, collected, got, posts, kills, cut>>

Batch(t) ==
  LET n == Len(got[t]) IN SubSeq(got[t], 1, IF n < BatchSize THEN n ELSE BatchSize)
Rest(t) == SubSeq(got[t], BatchSize + 1, Len(got[t]))

\* flush_queue reads the whole queue and stops when it is empty.
ReadQueue(t) ==
  /\ Go(t, "idle", "post") /\ queue # <<>>
  /\ got' = [got EXCEPT ![t] = queue]
  /\ raced' = (raced \/ Flushing # {})
  /\ UNCHANGED <<home, queue, collected, linked, events, posts, kills, cut>>

\* The collector takes the batch of t.
Taken(t) ==
  /\ posts < MaxPosts /\ posts' = posts + 1
  /\ collected' = collected \o Batch(t)

\* The request took the batch, and the reply said so.
Post(t) ==
  /\ Go(t, "post", "rewrite") /\ Taken(t)
  /\ UNCHANGED <<home, queue, linked, got, events, kills, raced, cut>>

\* The request failed, or took the batch and the reply was lost: either way
\* the queue is left alone.
PostFails(t) ==
  /\ Go(t, "post", "idle")
  /\ \/ UNCHANGED <<collected, posts, cut>>
     \/ Taken(t) /\ cut' = TRUE
  /\ Forget(t)
  /\ UNCHANGED <<home, queue, linked, events, kills, raced>>

\* Mutant: the file is unlinked whatever the flush left in it.
RewriteUnlinks(t) ==
  /\ Go(t, "rewrite", "idle") /\ queue' = <<>> /\ Forget(t)
  /\ linked' = [u \in Thread |-> linked[u] /\ pc[u] # "append"]
  /\ UNCHANGED <<home, collected, events, posts, kills, raced, cut>>

\* After a 2xx the queue becomes what the flush read beyond its batch:
\* unlinked when that is nothing, else truncated and then written.
Rewrite(t) ==
  /\ queue' = <<>>
  /\ IF Rest(t) = <<>>
     THEN /\ Go(t, "rewrite", "idle") /\ Forget(t)
          /\ linked' = [u \in Thread |-> linked[u] /\ pc[u] # "append"]
     ELSE Go(t, "rewrite", "tail") /\ UNCHANGED <<linked, got>>
  /\ UNCHANGED <<home, collected, events, posts, kills, raced, cut>>

\* The tail is written from the start of the file: over what was appended
\* since it was truncated, and may leave half a line of that behind, which
\* every reader skips.
WriteTail(t) ==
  /\ Go(t, "tail", "idle")
  /\ \E half \in {0, 1} :
       queue' = Rest(t) \o SubSeq(queue, Len(Rest(t)) + half + 1, Len(queue))
  /\ Forget(t)
  /\ UNCHANGED <<home, collected, linked, events, posts, kills, raced, cut>>

-----------------------------------------------------------------------------
(***************************************************************************)
(* The tuned defaults.                                                     *)
(***************************************************************************)

\* A file that was truncated, or written by two: no JSON document.
Garbage == [file |-> "torn", version |-> MaxPublished + 1]

\* load_cached_or_baked_in over read_cache: a cache that does not parse is
\* none.
Loaded == IF cache.file = "whole" THEN cache.version ELSE BakedIn

\* refresh_if_stale, past cache_is_fresh: the file is missing or a day old.
RefreshIfStale(t) ==
  /\ Go(t, "idle", "fetch") /\ (cache.file = "absent" \/ ~fresh)
  /\ UNCHANGED <<mail, home, kills>>

\* fetch_tuned_defaults: the published document; from_payload makes the
\* baked-in defaults of one that is not an object; a failure changes nothing.
Fetch(t) ==
  /\ \/ /\ Go(t, "fetch", "cache")
        /\ \E v \in {published, BakedIn} : doc' = [doc EXCEPT ![t] = v]
     \/ Go(t, "fetch", "idle") /\ UNCHANGED doc
  /\ UNCHANGED <<mail, enrolment, cache, fresh, published, kills>>

\* write_cache.  The truncated file is young already.
TruncateCache(t) ==
  /\ Go(t, "cache", "document") /\ cache' = Garbage /\ fresh' = TRUE
  /\ UNCHANGED <<mail, enrolment, published, doc, kills>>

\* Over a document another refresh wrote meanwhile, a shorter one leaves a
\* piece of it behind.
WriteCache(t) ==
  /\ Go(t, "document", "idle") /\ fresh' = TRUE
  /\ \/ cache' = [file |-> "whole", version |-> doc[t]]
     \/ cache.file = "whole" /\ cache' = Garbage
  /\ doc' = [doc EXCEPT ![t] = BakedIn]
  /\ UNCHANGED <<mail, enrolment, published, kills>>

\* A day goes by; the collector publishes a new document.
Day ==
  /\ fresh' = FALSE
  /\ published' \in {published, published + 1} /\ published' <= MaxPublished
  /\ UNCHANGED <<mail, enrolment, cache, doc, pc, kills>>

-----------------------------------------------------------------------------
\* The process exits under a daemon thread, or is killed.
Kill(t) ==
  /\ pc[t] # "idle" /\ kills < MaxKills
  /\ kills' = kills + 1
  /\ pc' = [pc EXCEPT ![t] = "idle"]
  /\ cut' = (cut \/ pc[t] \in {"rewrite", "tail"})
  /\ Forget(t) /\ linked' = [linked EXCEPT ![t] = FALSE]
  /\ UNCHANGED <<home, queue, collected, events, posts, raced>>

Step(t) ==
  \/ Enrol(t) \/ EnrolWritten(t) \/ Leave(t)
  \/ OpenQueue(t) \/ AppendEvent(t)
  \/ ReadQueue(t) \/ Post(t) \/ PostFails(t) \/ Rewrite(t) \/ WriteTail(t)
  \/ RefreshIfStale(t) \/ Fetch(t) \/ TruncateCache(t) \/ WriteCache(t)
  \/ Kill(t)

Next == Day \/ \E t \in Thread : Step(t)

Spec == Init /\ [][Next]_vars

-----------------------------------------------------------------------------
EventsOf(s) == {s[n] : n \in DOMAIN s}

\* Everything stays in range.
TypeOK ==
  /\ enrolment \in {"absent", "torn", "enrolled"}
  /\ queue \in Seq(Event) /\ collected \in Seq(Event)
  /\ cache \in [file : {"absent", "torn", "whole"}, version : 0..(MaxPublished + 1)] /\ fresh \in BOOLEAN
  /\ published \in 1..MaxPublished
  /\ pc \in [Thread -> {"idle", "enrol", "append", "post", "rewrite", "tail",
                        "fetch", "cache", "document"}]
  /\ got \in [Thread -> Seq(Event)] /\ doc \in [Thread -> 0..MaxPublished]
  /\ events \in 0..MaxEvents /\ posts \in 0..MaxPosts /\ kills \in 0..MaxKills
  /\ raced \in BOOLEAN /\ cut \in BOOLEAN

\* The rewrite of the queue is the only thing that loses events, and only
\* when another thread appends or flushes while a flush is under way, or
\* the flush dies between truncating and writing: otherwise every event is
\* with the collector, in the file, or in the tail a flush is about to write.
LossNeedsOverlap ==
  (~raced /\ ~cut) =>
    \A e \in 1..events :
      \/ e \in EventsOf(collected) \cup EventsOf(queue)
      \/ \E t \in Thread : pc[t] = "tail" /\ e \in EventsOf(Rest(t))

\* The collector gets an event twice only after a flush lost its reply or
\* died before its rewrite, or when two flushes overlapped; and it gets the
\* events in the order they were queued.
DuplicateNeedsCut ==
  (~raced /\ ~cut) =>
    \A m, n \in DOMAIN collected : m < n => collected[m] < collected[n]

\* Whatever refreshes overlap or die, and whatever the collector sends, the
\* defaults in force are a whole published document or the baked-in ones.
LoadedIsPublished == Loaded \in {BakedIn} \cup 1..published
=============================================================================
