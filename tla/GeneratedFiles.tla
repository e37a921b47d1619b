--------------------------- MODULE GeneratedFiles ---------------------------
(***************************************************************************)
(* A source function and the module generated from it (refresh.py).  The   *)
(* generated file names the version of the source it was made from and the *)
(* hash of what was written below its header; detect_drift compares both   *)
(* with what it finds.                                                     *)
(*                                                                         *)
(* The tools that call it (postrule refresh, the lifters) are outside the  *)
(* repository: as the docstring and the example describe them, they write  *)
(* the file again on drift or when it is missing, and never otherwise.     *)
(* People edit the source and the file meanwhile.  Hashes do not collide.  *)
(***************************************************************************)
EXTENDS Naturals

CONSTANTS
  Tool,        \* the processes that refresh
  MaxSource,   \* bound: versions of the source function's AST
  Commented,   \* versions whose generated body begins with a comment
  MaxHands     \* bound: edits of the file by hand, and writes cut short

\* What the constants may be.
GeneratedAssumption ==
  MaxSource \in Nat \ {0} /\ Commented \subseteq 1..MaxSource /\ MaxHands \in Nat

VARIABLES
  source,      \* the version of the function, Gone, or Broken: no parse
  file,        \* the generated file
  pc,          \* per tool: its step
  seen,        \* per tool: the source it read
  status,      \* per tool: what its last detect_drift returned
  hands,       \* edits by hand and writes cut short so far
  stale,       \* per tool: the file changed since it read it
  lost         \* history: a tool destroyed an edit it could have seen

vars == <<source, file, pc, seen, status, hands, stale, lost>>

Version == 1..MaxSource
Gone == 0
Broken == MaxSource + 1

Missing == [is |-> "missing"]
Torn == [is |-> "torn"]           \* no header, or one cut short
\* of: the source in the header.  edited: the body is not the one hashed.
\* comments: comment lines stand between the header and the body.
Generated(v, edited, comments) ==
  [is |-> "generated", of |-> v, edited |-> edited, comments |-> comments]

File == {Missing, Torn} \cup {Generated(v, e, c) : v \in Version, e \in BOOLEAN, c \in BOOLEAN}

Init ==
  /\ source = 1 /\ file = Missing
  /\ pc = [t \in Tool |-> "idle"] /\ seen = [t \in Tool |-> Gone]
  /\ status = [t \in Tool |-> "none"]
  /\ hands = 0 /\ stale = [t \in Tool |-> FALSE] /\ lost = FALSE

\* Formatting and comments are no part of an AST: such an edit changes nothing.
EditSource ==
  /\ source' \in {Gone, Broken} \cup {v \in Version : v = source + 1 \/ source \in {Gone, Broken}}
  /\ UNCHANGED <<file, pc, seen, status, hands, stale, lost>>

\* Someone edits the file: its body, the comments above the body, the header.
EditFile ==
  /\ file.is = "generated" /\ hands < MaxHands /\ hands' = hands + 1
  /\ file' \in {Generated(file.of, TRUE, file.comments),
                Generated(file.of, file.edited, TRUE), Torn, Missing}
  /\ stale' = [t \in Tool |-> TRUE]
  /\ UNCHANGED <<source, pc, seen, status, lost>>

\* The contiguous run of comment lines at the top counts as the header: what
\* was generated with comments on top is not what is hashed again.
BodyHashDiffers == file.edited \/ file.of \in Commented

\* Mutant: the source is compared first.
StatusSourceFirst(v) ==
  IF v = Broken \/ file.is = "torn" THEN "raises"
  ELSE IF v = Gone THEN "orphaned"
  ELSE IF v # file.of THEN "source_drift"
  ELSE IF BodyHashDiffers THEN "user_edited"
  ELSE "up_to_date"

\* What detect_drift makes of the file, given the source it read.
Status(v) ==
  IF v = Broken THEN "raises"
  ELSE IF v = Gone THEN "orphaned"
  ELSE IF file.is = "torn" THEN "raises"
  ELSE IF BodyHashDiffers THEN "user_edited"
  ELSE IF v # file.of THEN "source_drift"
  ELSE "up_to_date"

\* detect_drift: does the file exist?  Then the source is read.
Detect(t) ==
  /\ pc[t] = "idle"
  /\ IF file = Missing
     THEN /\ status' = [status EXCEPT ![t] = "missing"]
          /\ pc' = [pc EXCEPT ![t] = "advised"] /\ stale' = [stale EXCEPT ![t] = FALSE]
     ELSE pc' = [pc EXCEPT ![t] = "compare"] /\ UNCHANGED <<status, stale>>
  /\ seen' = [seen EXCEPT ![t] = source]
  /\ UNCHANGED <<source, file, hands, lost>>

\* ... and the file after it, which may be gone by now.
Compare(t) ==
  /\ pc[t] = "compare"
  /\ status' = [status EXCEPT ![t] = IF file = Missing THEN "raises" ELSE Status(seen[t])]
  /\ stale' = [stale EXCEPT ![t] = FALSE]
  /\ pc' = [pc EXCEPT ![t] = "advised"]
  /\ UNCHANGED <<source, file, seen, hands, lost>>

\* The tool leaves the file alone.
Leave(t) ==
  /\ pc[t] = "advised" /\ status[t] \notin {"source_drift", "missing"}
  /\ pc' = [pc EXCEPT ![t] = "idle"]
  /\ UNCHANGED <<source, file, seen, status, hands, stale, lost>>

\* The tool reads the source again, to generate from it and to hash it.
Generate(t) ==
  /\ pc[t] = "advised" /\ status[t] \in {"source_drift", "missing"}
  /\ IF source \in Version
     THEN pc' = [pc EXCEPT ![t] = "open"] /\ seen' = [seen EXCEPT ![t] = source]
     ELSE pc' = [pc EXCEPT ![t] = "idle"] /\ UNCHANGED seen
  /\ UNCHANGED <<source, file, status, hands, stale, lost>>

\* write_text opens the file, which empties it, ...
OpenFile(t) ==
  /\ pc[t] = "open"
  /\ lost' = (lost \/ (file.is = "generated" /\ file.edited /\ ~stale[t]))
  /\ file' = Torn
  /\ stale' = [u \in Tool |-> u # t]
  /\ pc' = [pc EXCEPT ![t] = "write"]
  /\ UNCHANGED <<source, seen, status, hands>>

\* ... and writes header and body.
WriteFile(t) ==
  /\ pc[t] = "write"
  /\ file' = Generated(seen[t], FALSE, seen[t] \in Commented)
  /\ stale' = [u \in Tool |-> u # t \/ stale[u]]
  /\ pc' = [pc EXCEPT ![t] = "idle"]
  /\ UNCHANGED <<source, seen, status, hands, lost>>

\* The tool is killed at any step.
Kill(t) ==
  /\ pc[t] # "idle" /\ hands < MaxHands /\ hands' = hands + 1
  /\ pc' = [pc EXCEPT ![t] = "idle"]
  /\ UNCHANGED <<source, file, seen, status, stale, lost>>

Next ==
  \/ EditSource \/ EditFile
  \/ \E t \in Tool :
       \/ Detect(t) \/ Compare(t) \/ Leave(t) \/ Generate(t)
       \/ OpenFile(t) \/ WriteFile(t) \/ Kill(t)

Spec == Init /\ [][Next]_vars

-----------------------------------------------------------------------------
Statuses == {"none", "missing", "orphaned", "raises", "user_edited", "source_drift", "up_to_date"}

\* Everything stays in range.
TypeOK ==
  /\ source \in Version \cup {Gone, Broken} /\ file \in File
  /\ pc \in [Tool -> {"idle", "compare", "advised", "open", "write"}]
  /\ seen \in [Tool -> Version \cup {Gone, Broken}]
  /\ status \in [Tool -> Statuses]
  /\ hands \in 0..MaxHands /\ stale \in [Tool -> BOOLEAN] /\ lost \in BOOLEAN

\* A tool that regenerates only when detect_drift says drift or missing never
\* destroys a hand-edited body, whatever happens to the source, unless the
\* edit came after it had read the file.
EditsSurvive == ~lost

\* When a file is found up to date and nobody wrote it or its source since,
\* it was generated from this very source and nobody changed its body.
UpToDateIsCurrent ==
  \A t \in Tool :
    (pc[t] = "advised" /\ status[t] = "up_to_date" /\ ~stale[t] /\ seen[t] = source) =>
      file.is = "generated" /\ file.of = source /\ ~file.edited
=============================================================================
