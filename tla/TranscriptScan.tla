--------------------------- MODULE TranscriptScan ---------------------------
(***************************************************************************)
(* src/src/transcript.ts: the search for a thread's transcript in two      *)
(* directories, the backward scan for its last record and the forward read *)
(* of its hash, each between two snapshots, while Codex appends to the     *)
(* file, cuts it or moves it to the archive.                               *)
(*                                                                         *)
(* A transcript is a sequence of symbols: "x", the end of a record "}" and  *)
(* the newline "n".                                                        *)
(***************************************************************************)
EXTENDS Naturals, Sequences, FiniteSets, SequencesExt, FiniteSetsExt

CONSTANTS
  FileLength,      \* the longest transcript
  ReadChunkBytes,  \* READ_CHUNK_BYTES
  MaxLastRecord,   \* MAX_LAST_RECORD_BYTES
  MaxChanges       \* changes of the transcript during an inspection

ASSUME TranscriptAssumption ==
  /\ FileLength \in Nat /\ MaxLastRecord \in Nat /\ MaxChanges \in Nat
  /\ ReadChunkBytes \in Nat \ {0}

VARIABLES
  task,       \* "inspect" (inspectTranscriptCandidates) or "hash" (stableFileHash)
  file,       \* the transcript: content, mtime, directory, a twin's directory
  scan,       \* the step, candidates, first snapshot, position and buffer
  inspection  \* the result, or Uninspected

transcriptVars == <<task, file, scan, inspection>>

Uninspected == [status |-> "none", record |-> <<>>, stable |-> FALSE]
Inspected(status, record, stable) ==
  inspection' = [status |-> status, record |-> record, stable |-> stable]
Inspecting == inspection = Uninspected
Directories == {"sessions", "archived_sessions"}

-----------------------------------------------------------------------------
(* Codex (external).                                                       *)

Changes(content, where) ==
  /\ Inspecting /\ file.changes < MaxChanges
  /\ file' = [file EXCEPT !.content = content, !.where = where, !.changes = @ + 1,
                          !.mtime = IF content = file.content THEN @ ELSE @ + 1]
  /\ UNCHANGED <<task, scan, inspection>>

\* It writes a part of a line, cuts the file, or archives it.
Codex ==
  \/ \E symbol \in {"x", "}", "n"} :
       Len(file.content) < FileLength /\ Changes(Append(file.content, symbol), file.where)
  \/ \E part \in Prefixes(file.content) : part # file.content /\ Changes(part, file.where)
  \/ file.where = "sessions" /\ Changes(file.content, "archived_sessions")

-----------------------------------------------------------------------------
(* findTranscriptCandidates: both directories are walked at the same time.  *)

\* Files with the thread's name: the transcript and perhaps a twin.
Files == {<<"file", file.where>>, <<"twin", file.twin>>}

Walk(directory) ==
  /\ Inspecting /\ scan.step = "walk" /\ directory \notin scan.walked
  /\ scan' = [scan EXCEPT !.walked = @ \cup {directory},
       !.candidates = @ \cup {f \in Files : f[2] = directory}]
  /\ UNCHANGED <<task, file, inspection>>

\* inspectTranscriptCandidates: one candidate, or a verdict.
Choose ==
  /\ Inspecting /\ scan.step = "walk" /\ scan.walked = Directories
  /\ IF Cardinality(scan.candidates) = 1
     THEN scan' = [scan EXCEPT !.step = "before"] /\ UNCHANGED inspection
     ELSE /\ Inspected(IF scan.candidates = {} THEN "missing" ELSE "ambiguous", <<>>, FALSE)
          /\ UNCHANGED scan
  /\ UNCHANGED <<task, file>>

-----------------------------------------------------------------------------
(* lstat, publicSnapshot, sameSnapshot.                                     *)

\* The search may have missed the transcript and chosen the twin.
Twin == <<"twin", file.twin>> \in scan.candidates
Content == IF Twin THEN <<"}">> ELSE file.content
Snapshot == [size |-> Len(Content), mtime |-> IF Twin THEN 0 ELSE file.mtime]

SameSnapshot(left, right) == left = right

InPlace == scan.candidates \subseteq Files

\* The file is not where it was found.
Lost(step) ==
  /\ scan.step = step /\ ~InPlace
  /\ Inspected("unreadable", <<>>, FALSE)
  /\ UNCHANGED <<task, file, scan>>

Before ==
  /\ Inspecting
  /\ \/ Lost("before")
     \/ /\ scan.step = "before" /\ InPlace
        /\ scan' = [scan EXCEPT !.step = "read", !.before = Snapshot,
             !.position = IF task = "inspect" THEN Snapshot.size ELSE 0]
        /\ UNCHANGED <<task, file, inspection>>

After ==
  /\ Inspecting
  /\ \/ Lost("after")
     \/ /\ scan.step = "after" /\ InPlace
        /\ LET stable == SameSnapshot(scan.before, Snapshot)
           IN IF task = "inspect" THEN Inspected("found", scan.line, stable)
              ELSE IF stable THEN Inspected("hashed", scan.buffer, TRUE)
              ELSE Inspected("unreadable", <<>>, FALSE)
        /\ UNCHANGED <<task, file, scan>>

-----------------------------------------------------------------------------
(* readLastNonEmptyLine, parseLastRecord.                                   *)

\* A read of what there is up to the end of the file.
Bytes(position, length) ==
  SubSeq(Content, position + 1, Min({Len(Content), position + length}))

\* A faulty search that takes the first line of a buffer for a whole one.
BufferLine(buffer, atStart) ==
  LET end == Max({i \in DOMAIN buffer : buffer[i] # "n"} \cup {0})
      newline == Max({i \in 1..end : buffer[i] = "n"} \cup {0})
  IN IF end = 0 THEN <<>> ELSE SubSeq(buffer, newline + 1, end)

\* The last line of the buffer that is not empty, <<>> if its start is not known.
LastLine(buffer, atStart) ==
  LET end == Max({i \in DOMAIN buffer : buffer[i] # "n"} \cup {0})
      newline == Max({i \in 1..end : buffer[i] = "n"} \cup {0})
  IN IF end = 0 \/ (newline = 0 /\ ~atStart) THEN <<>> ELSE SubSeq(buffer, newline + 1, end)

Unreadable == Inspected("unreadable", <<>>, FALSE) /\ UNCHANGED scan

\* One chunk more in front of the buffer.  An empty file has no record; a line
\* that is no record, or is not found within the limit, is an error.
ReadBackward ==
  /\ Inspecting /\ task = "inspect" /\ scan.step = "read"
  /\ LET length == Min({ReadChunkBytes, scan.position})
         position == scan.position - length
         buffer == Bytes(position, length) \o scan.buffer
         line == LastLine(buffer, position = 0)
     IN CASE scan.before.size = 0 ->
               scan' = [scan EXCEPT !.step = "after"] /\ UNCHANGED inspection
          [] scan.before.size # 0 /\ (scan.position = 0 \/ Len(scan.buffer) >= MaxLastRecord) ->
               Unreadable
          [] OTHER ->
               IF line = <<>>
               THEN /\ scan' = [scan EXCEPT !.position = position, !.buffer = buffer]
                    /\ UNCHANGED inspection
               ELSE IF Last(line) # "}" THEN Unreadable
               ELSE scan' = [scan EXCEPT !.step = "after", !.line = line] /\ UNCHANGED inspection
  /\ UNCHANGED <<task, file>>

\* sha256File: a stream from the start to the end of the file.
ReadForward ==
  /\ Inspecting /\ task = "hash" /\ scan.step = "read"
  /\ LET chunk == Bytes(scan.position, ReadChunkBytes)
     IN scan' = IF chunk = <<>> THEN [scan EXCEPT !.step = "after"]
                ELSE [scan EXCEPT !.buffer = @ \o chunk, !.position = @ + Len(chunk)]
  /\ UNCHANGED <<task, file, inspection>>

TranscriptInit ==
  /\ task \in {"inspect", "hash"}
  /\ \E content \in BoundedSeq({"x", "}", "n"}, FileLength),
        where \in Directories \cup {"none"}, twin \in Directories \cup {"none"} :
       file = [content |-> content, mtime |-> 0, where |-> where, twin |-> twin, changes |-> 0]
  /\ file.twin # "none" => file.where # "none"
  /\ task = "hash" => file.where = "sessions" /\ file.twin = "none"
  /\ scan = [step |-> IF task = "hash" THEN "before" ELSE "walk", walked |-> {},
             candidates |-> IF task = "hash" THEN {<<"file", "sessions">>} ELSE {},
             before |-> [size |-> 0, mtime |-> 0], position |-> 0, buffer |-> <<>>, line |-> <<>>]
  /\ inspection = Uninspected

TranscriptStep ==
  \/ Codex \/ Choose \/ Before \/ ReadBackward \/ ReadForward \/ After
  \/ \E directory \in Directories : Walk(directory)

-----------------------------------------------------------------------------
TranscriptTypeOK ==
  /\ task \in {"inspect", "hash"}
  /\ Len(file.content) <= FileLength /\ file.changes <= MaxChanges
  /\ scan.step \in {"walk", "before", "read", "after"}
  /\ scan.candidates \subseteq {"file", "twin"} \X Directories
  /\ inspection.status \in {"none", "found", "missing", "ambiguous", "unreadable", "hashed"}

\* A stable inspection tells the truth of one moment: its record is the last
\* line of the file that is not empty, whole, however the file was written
\* while it was read backwards, and a hash that is given is of everything that
\* the file has then.  Without a change, the search finds a sole transcript and
\* never chooses between two.
StableIsLast ==
  /\ inspection.status = "found" /\ inspection.stable =>
       LET c == Content
           end == Max({i \in DOMAIN c : c[i] # "n"} \cup {0})
       IN /\ \E start \in 1..(end + 1) :
               /\ inspection.record = SubSeq(c, start, end)
               /\ "n" \notin Range(inspection.record)
               /\ start = 1 \/ c[start - 1] = "n"
          /\ inspection.record = <<>> => c = <<>>
  /\ inspection.status = "hashed" => inspection.record = file.content
  /\ (file.changes = 0 /\ task = "inspect") =>
       /\ inspection.status = "missing" => file.where = "none"
       /\ inspection.status = "ambiguous" <=> (file.twin # "none" /\ ~Inspecting)
=============================================================================
