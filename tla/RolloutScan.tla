---------------------------- MODULE RolloutScan ----------------------------
(***************************************************************************)
(* The bridge's look for the last record of interest in a rollout file: a  *)
(* file of lines that the app-server appends to, read backwards in chunks  *)
(* from its size at the start.  Two scans are alike, for a lifecycle event *)
(* and for the token usage.  A line is some cells of text and a newline;   *)
(* only a whole line can be parsed.                                        *)
(***************************************************************************)
EXTENDS Naturals, Sequences, FiniteSets

CONSTANTS
  MaxLines,  \* bound on the lines of the file
  LineCells, \* cells of text in a line
  ChunkSize  \* READ_CHUNK_SIZE in cells

VARIABLES
  scanLines,  \* kinds of the lines begun
  scanFile,   \* the cells written
  scanPlace,  \* the directory the file is in
  scanReader  \* the scan

scanVars == <<scanLines, scanFile, scanPlace, scanReader>>

Newline == <<0, 0>>
Cells == {Newline} \cup ((1 .. MaxLines) \X (1 .. LineCells))
Kinds == {"active", "complete", "other"}
Nowhere == [at |-> "idle", size |-> 0, position |-> 0, trailing |-> <<>>, found |-> 0]

ScanTypeOK ==
  /\ scanLines \in Seq(Kinds) /\ Len(scanLines) <= MaxLines
  /\ scanFile \in Seq(Cells)
  /\ scanPlace \in {"sessions", "archived_sessions"}
  /\ scanReader \in [at : {"idle", "sessions", "archived_sessions", "reads", "ended", "missed"},
                     size : Nat, position : Nat, trailing : Seq(Cells), found : 0 .. MaxLines]

ScanInit ==
  /\ scanLines = <<>> /\ scanFile = <<>> /\ scanPlace = "sessions" /\ scanReader = Nowhere

-----------------------------------------------------------------------------
(* The app-server                                                          *)

\* The cell that follows a line's text is its newline.
AtLineStart == IF scanFile = <<>> THEN TRUE ELSE scanFile[Len(scanFile)] = Newline
WriteCell ==
  /\ ~AtLineStart
  /\ LET last == scanFile[Len(scanFile)]
     IN  scanFile' = Append(scanFile, IF last[2] = LineCells THEN Newline
                                      ELSE <<last[1], last[2] + 1>>)
  /\ UNCHANGED <<scanLines, scanPlace, scanReader>>

BeginLine(kind) ==
  /\ Len(scanLines) < MaxLines
  /\ AtLineStart
  /\ scanLines' = Append(scanLines, kind)
  /\ scanFile' = Append(scanFile, <<Len(scanLines) + 1, 1>>)
  /\ UNCHANGED <<scanPlace, scanReader>>

Archive ==
  /\ scanPlace' = IF scanPlace = "sessions" THEN "archived_sessions" ELSE "sessions"
  /\ UNCHANGED <<scanLines, scanFile, scanReader>>

-----------------------------------------------------------------------------
(* The scan                                                                *)

Open ==
  scanReader' = [Nowhere EXCEPT !.at = "reads", !.size = Len(scanFile), !.position = Len(scanFile)]

\* Sessions first, then the archive.
FindRolloutPath ==
  /\ scanReader.at \in {"idle", "sessions", "archived_sessions"}
  /\ IF scanReader.at = "idle" THEN scanReader' = [scanReader EXCEPT !.at = "sessions"]
     ELSE IF scanReader.at = scanPlace THEN Open
     ELSE scanReader' = [scanReader EXCEPT !.at =
                           IF @ = "sessions" THEN "archived_sessions" ELSE "missed"]
  /\ UNCHANGED <<scanLines, scanFile, scanPlace>>

\* The path that the app-server gave spares the search, and may be old.
RolloutPathKnown ==
  /\ scanReader.at = "idle"
  /\ Open
  /\ UNCHANGED <<scanLines, scanFile, scanPlace>>

Whole(l) == [k \in 1 .. LineCells |-> <<l, k>>]

\* The line of interest that the cells are, 0 if they are none.
Parse(cells) ==
  LET lines == {l \in 1 .. Len(scanLines) : cells = Whole(l) /\ scanLines[l] # "other"}
  IN  IF lines = {} THEN 0 ELSE CHOOSE l \in lines : TRUE

\* The lines in the cells after the first newline, the last first.
Newlines(cells) == {k \in DOMAIN cells : cells[k] = Newline}
LineFrom(cells, k) ==
  LET later == {j \in Newlines(cells) : j > k}
      end == IF later = {} THEN Len(cells) + 1
             ELSE CHOOSE j \in later : \A i \in later : j <= i
  IN  SubSeq(cells, k + 1, end - 1)

Chunk(r) == SubSeq(scanFile, 1 + (IF r.position > ChunkSize THEN r.position - ChunkSize ELSE 0),
                   r.position)

\* Faulty: the beginning of the chunk before is not joined to this one.
CombinedApart(r) == Chunk(r)

Combined(r) == Chunk(r) \o r.trailing

ReadChunk ==
  /\ scanReader.at = "reads" /\ scanReader.position > 0
  /\ LET combined == Combined(scanReader)
         starts == Newlines(combined)
         hits == {k \in starts : Parse(LineFrom(combined, k)) # 0}
         first == CHOOSE k \in starts : \A i \in starts : k <= i
     IN  scanReader' =
           IF hits # {}
           THEN LET last == CHOOSE k \in hits : \A i \in hits : i <= k
                IN  [scanReader EXCEPT !.at = "ended", !.found = Parse(LineFrom(combined, last))]
           ELSE [scanReader EXCEPT
                   !.position = IF @ > ChunkSize THEN @ - ChunkSize ELSE 0,
                   !.trailing = IF starts = {} THEN combined ELSE SubSeq(combined, 1, first - 1)]
  /\ UNCHANGED <<scanLines, scanFile, scanPlace>>

\* What is left is the first line.
ReadEnds ==
  /\ scanReader.at = "reads" /\ scanReader.position = 0
  /\ scanReader' = [scanReader EXCEPT !.at = "ended", !.found = Parse(scanReader.trailing)]
  /\ UNCHANGED <<scanLines, scanFile, scanPlace>>

ReadFails ==
  /\ scanReader.at = "reads"
  /\ scanReader' = [scanReader EXCEPT !.at = "missed"]
  /\ UNCHANGED <<scanLines, scanFile, scanPlace>>

ScanNext ==
  \/ WriteCell \/ Archive \/ \E kind \in Kinds : BeginLine(kind)
  \/ FindRolloutPath \/ RolloutPathKnown \/ ReadChunk \/ ReadEnds \/ ReadFails

-----------------------------------------------------------------------------
(* Properties                                                              *)

\* However lines lie across the chunks, and whatever is appended meanwhile: a
\* scan that was not cut short finds the last line of interest whose text was
\* all there when the scan began. The comment on findLastLifecycleEventType says
\* that no more than about 64 KB are read from the tail; its loop reads on to the
\* beginning of the file, and so does the scan here.
ScanFindsLast ==
  scanReader.at = "ended" =>
    LET there == {l \in 1 .. Len(scanLines) :
                    /\ scanLines[l] # "other"
                    /\ \E k \in 1 .. scanReader.size : scanFile[k] = <<l, LineCells>>}
    IN  scanReader.found = IF there = {} THEN 0 ELSE CHOOSE l \in there : \A m \in there : m <= l
=============================================================================
