----------------------------- MODULE FollowTail ------------------------------
(***************************************************************************)
(* The live routes (jqf-cli/src/routes/follow.rs, and stream.rs for the    *)
(* records of a piped stdin): a loop that reads what a writer has added,   *)
(* cuts it after the last whole record, and runs the record drive over the *)
(* cut.  The writer, and whoever rotates or truncates its file, act        *)
(* between any two system calls of the loop.                               *)
(*                                                                         *)
(* NDJSON, under the recovering profile; its line and record bases count   *)
(* the same line feeds.  Left out: failing reads, a closed stdout, the     *)
(* ledger's refusal of input bytes.                                        *)
(***************************************************************************)
EXTENDS RecordDrive

CONSTANTS
  Modes,      (* of "file", "pipe" (both --follow) and "stdin" (run_framed)  *)
  Inodes, NIL,
  Texts,      (* the records a writer writes, by mode                        *)
  MaxBytes,   (* bound: bytes written in all                                 *)
  MaxEvents,  (* bound: truncations, and renames                             *)
  Chunk,      (* READ_CHUNK                                                  *)
  HeldCap,    (* held_record_cap()                                           *)
  Governed    (* the RSS governor may find the process above its ceiling     *)

ASSUME FollowAssumption ==
  /\ Modes \subseteq {"file", "pipe", "stdin"}
  /\ Inodes # {} /\ NIL \notin Inodes
  /\ \A m \in Modes : Texts[m] \subseteq Seq(Kinds)
  /\ MaxBytes \in Nat /\ MaxEvents \in Nat /\ Chunk \in Nat \ {0} /\ HeldCap \in Nat
  /\ Governed \in BOOLEAN

VARIABLES
  mode,
  files,      (* by inode: its contents, one for each truncation             *)
  path,       (* the inode the followed path names                           *)
  writer,     (* the inode the writer has open; NIL once it has closed       *)
  pending,    (* what the writer still has to write of its record            *)
  written,    (* bytes written so far                                        *)
  events,     (* truncations and renames so far                              *)
  fd, cursor, (* the follower's descriptor, and its position in the kernel   *)
  offset,     (* FollowSource::File::offset                                  *)
  pc, buffer,
  baseOffset, (* stream_base_offset                                          *)
  baseRecord, (* stream_base_record, and stream_base_line                    *)
  issues,     (* error_issues > 0                                            *)
  lastFailed, (* last_value_error                                            *)
  history,    (* history: what the stream was and what it showed             *)
  ended       (* history: the stream the last rotation ended                 *)

environment == <<mode, files, path, writer, pending, written, events>>
bases == <<baseOffset, baseRecord, issues, lastFailed>>
followVars == <<environment, fd, cursor, offset, pc, buffer, bases, history, ended>>

Content(i) == Last(files[i])

NewRun == [seen |-> <<>>, out |-> <<>>, reports |-> <<>>, torn |-> FALSE,
           refused |-> FALSE, stale |-> FALSE, due |-> <<>>]

FollowInit ==
  /\ mode \in Modes
  /\ files = [i \in Inodes |-> << <<>> >>]
  /\ path = (CHOOSE i \in Inodes : TRUE) /\ writer = path /\ fd = path
  /\ pending = <<>> /\ written = 0 /\ events = 0
  /\ cursor = 0 /\ offset = 0
  /\ pc = "poll" /\ buffer = <<>>
  /\ baseOffset = 0 /\ baseRecord = 0 /\ issues = FALSE /\ lastFailed = FALSE
  /\ history = NewRun /\ ended = NIL

follower == <<fd, cursor, offset, pc, buffer, bases, history, ended>>

-----------------------------------------------------------------------------
(* The writer, and log rotation.                                           *)

\* A record may take several writes.
Write ==
  /\ writer # NIL
  /\ \E text \in IF pending = <<>> THEN Texts[mode] ELSE {pending} :
     \E n \in 1..Len(text) :
       /\ written + n <= MaxBytes /\ written' = written + n
       /\ LET bytes == [i \in 1..n |-> [kind |-> text[i], at |-> written + i]]
              last  == Len(files[writer])
          IN  files' = [files EXCEPT ![writer] = [files[writer] EXCEPT ![last] = @ \o bytes]]
       /\ pending' = SubSeq(text, n + 1, Len(text))
  /\ UNCHANGED <<mode, path, writer, events, follower>>

Event == mode = "file" /\ events < MaxEvents /\ events' = events + 1

\* copytruncate: the writer appends, so it goes on at the new end.
Truncate ==
  /\ Event /\ path # NIL /\ Content(path) # <<>>
  /\ files' = [files EXCEPT ![path] = Append(@, <<>>)]
  /\ UNCHANGED <<mode, path, writer, pending, written, follower>>

Rename ==
  /\ Event /\ path # NIL
  /\ path' = NIL
  /\ UNCHANGED <<mode, files, writer, pending, written, follower>>

Create ==
  /\ path = NIL
  /\ path' \in {i \in Inodes : files[i] = << <<>> >> /\ i \notin {writer, fd}}
  /\ UNCHANGED <<mode, files, writer, pending, written, events, follower>>

\* A logger reopens its path between two records.
Reopen ==
  /\ pending = <<>> /\ path # NIL /\ writer # path /\ mode = "file"
  /\ writer' = path
  /\ UNCHANGED <<mode, files, path, pending, written, events, follower>>

Close ==
  /\ mode # "file" /\ writer # NIL
  /\ writer' = NIL
  /\ UNCHANGED <<mode, files, path, pending, written, events, follower>>

World == Write \/ Truncate \/ Rename \/ Create \/ Reopen \/ Close

-----------------------------------------------------------------------------
(* FollowSource::advance: one system call to a step.                       *)

LineFeeds(bytes) == {i \in DOMAIN bytes : bytes[i].kind = "lf"}

\* complete_span.
CompleteSpan(bytes) == Max(LineFeeds(bytes) \cup {0})
Held(bytes) == Len(bytes) - CompleteSpan(bytes)

\* What is there to read at the descriptor's position.
Unread == SubSeq(Content(fd), cursor + 1, Len(Content(fd)))
NextRead == SubSeq(Unread, 1, Min({Chunk, Len(Unread)}))

Take(bytes) ==
  /\ buffer' = buffer \o bytes
  /\ history' = [history EXCEPT !.seen = @ \o bytes]
  /\ cursor' = cursor + Len(bytes)

\* Mutant: the descriptor is followed, whatever the path names.
PollDescriptor ==
  /\ pc = "poll" /\ mode = "file"
  /\ pc' = "size"
  /\ UNCHANGED <<environment, fd, cursor, offset, buffer, bases, history, ended>>

\* rotated(): a path that is gone for the moment is not a rotation.
PollPath ==
  /\ pc = "poll" /\ mode = "file"
  /\ IF path \notin {NIL, fd}
     THEN /\ pc' = "drain"
          /\ history' = [history EXCEPT !.stale = cursor # offset,
                                        !.due = IF IsPrefix(history.seen, Content(fd)) THEN Content(fd) ELSE <<>>]
     ELSE pc' = "size" /\ UNCHANGED history
  /\ UNCHANGED <<environment, fd, cursor, offset, buffer, bases, ended>>

\* Mutant: the drain is one read.
DrainOnce ==
  /\ pc = "drain"
  /\ Take(NextRead)
  /\ pc' = "reopen"
  /\ UNCHANGED <<environment, fd, offset, bases, ended>>

\* The old file is read from where the descriptor stands, to its end or until the
\* held record passes the cap.
Drain ==
  /\ pc = "drain"
  /\ Take(NextRead)
  /\ pc' = IF NextRead = <<>> \/ Held(buffer') > HeldCap THEN "reopen" ELSE "drain"
  /\ UNCHANGED <<environment, fd, offset, bases, ended>>

\* The path is opened by name: what it names may have changed again, or be gone.
ReopenPath ==
  /\ pc = "reopen"
  /\ IF path = NIL
     THEN pc' = "failed" /\ UNCHANGED <<fd, cursor, offset>>
     ELSE fd' = path /\ cursor' = 0 /\ offset' = 0 /\ pc' = "rotated"
  /\ history' = [history EXCEPT !.due = IF Held(buffer) > HeldCap THEN <<>> ELSE @]
  /\ UNCHANGED <<environment, buffer, bases, ended>>

\* Mutant: the file is read from where the descriptor stands.
SizeWithoutSeek ==
  /\ pc = "size"
  /\ LET len == Len(Content(fd))
     IN  \/ /\ len < offset
            /\ offset' = 0 /\ buffer' = <<>> /\ baseOffset' = 0 /\ baseRecord' = 0
            /\ issues' = FALSE /\ lastFailed' = FALSE
            /\ history' = NewRun
            /\ pc' = "poll" /\ UNCHANGED cursor
         \/ len = offset /\ pc' = "cycle" /\ UNCHANGED <<cursor, offset, buffer, bases, history>>
         \/ len > offset /\ pc' = "read" /\ UNCHANGED <<cursor, offset, buffer, bases, history>>
  /\ UNCHANGED <<environment, fd, ended>>

\* A file shorter than what was read of it begins again, with no seek; otherwise
\* what is new is read from `offset`.
Size ==
  /\ pc = "size"
  /\ LET len == Len(Content(fd))
     IN  \/ /\ len < offset
            /\ offset' = 0 /\ buffer' = <<>> /\ baseOffset' = 0 /\ baseRecord' = 0
            /\ issues' = FALSE /\ lastFailed' = FALSE
            /\ history' = NewRun
            /\ pc' = "poll" /\ UNCHANGED cursor
         \/ len = offset /\ pc' = "cycle" /\ UNCHANGED <<cursor, offset, buffer, bases, history>>
         \/ len > offset /\ cursor' = offset /\ pc' = "read"
            /\ UNCHANGED <<offset, buffer, bases, history>>
  /\ UNCHANGED <<environment, fd, ended>>

Read ==
  /\ pc = "read"
  /\ Take(NextRead)
  /\ IF NextRead = <<>> \/ Held(buffer') > HeldCap
     THEN offset' = cursor' /\ pc' = "cycle"
     ELSE UNCHANGED <<offset, pc>>
  /\ UNCHANGED <<environment, fd, bases, ended>>

\* read_pipe_loop: a read blocks until there is something, or every writer is gone.
ReadPipe ==
  /\ pc = "poll" /\ mode # "file"
  /\ \/ /\ Unread # <<>>
        /\ \E n \in 1..Len(NextRead) : Take(SubSeq(NextRead, 1, n))
        /\ pc' = "cycle"
     \/ Unread = <<>> /\ writer = NIL /\ pc' = "eof" /\ UNCHANGED <<cursor, buffer, history>>
  /\ UNCHANGED <<environment, fd, offset, bases, ended>>

-----------------------------------------------------------------------------
(* The loop's body.                                                        *)

RecordsIn(bytes) == Cardinality(Ends(bytes))

\* What drive_range may get through: all of a range, or, when the governor finds the
\* process above its ceiling, some of its records and then a refusal.
Through(range) ==
  {range} \cup (IF Governed THEN {SubSeq(range, 1, n) : n \in {0} \cup LineFeeds(range)} ELSE {})
Drives(range) ==
  {[refused |-> part # range, did |-> Drive("recovering", part, ItemsPerValue * Len(part))] :
     part \in Through(range)}

\* CycleTranslateSink.
Absolute(report) ==
  IF report.code = "raised" THEN report
  ELSE [report EXCEPT !.offset = @ + baseOffset, !.ordinal = @ + baseRecord]

\* What a drive publishes and reports.
ShownBy(d) ==
  [history EXCEPT !.out = @ \o d.did.out,
                  !.reports = @ \o [i \in DOMAIN d.did.reports |-> Absolute(d.did.reports[i])],
                  !.refused = @ \/ d.refused]
Malformed(d) == \E i \in DOMAIN d.did.reports : d.did.reports[i].code = "malformed"

\* A drive whose last record failed is an error: its report, with the issues it
\* counted, is not returned.  A refused one says nothing.
Verdict(d) ==
  /\ issues' = (issues \/ (~d.refused /\ ~d.did.failed /\ Malformed(d)))
  /\ lastFailed' = IF d.refused THEN lastFailed ELSE d.did.failed

\* Mutant: a refused range leaves, and the bases stay.
DrivePrefixUnmoved(left) ==
  LET cut == CompleteSpan(buffer)
  IN  IF cut = 0
      THEN buffer' = left /\ UNCHANGED bases /\ history' = [history EXCEPT !.torn = @ \/ left # buffer]
      ELSE \E d \in Drives(SubSeq(buffer, 1, cut)) :
             /\ d.refused => mode # "stdin"
             /\ history' = [ShownBy(d) EXCEPT !.torn = @ \/ Len(left) < Held(buffer)]
             /\ Verdict(d)
             /\ baseOffset' = IF d.refused THEN baseOffset ELSE baseOffset + cut
             /\ baseRecord' = IF d.refused THEN baseRecord
                              ELSE baseRecord + RecordsIn(SubSeq(buffer, 1, cut))
             /\ buffer' = left

\* The whole records are driven, and leave with their positions; `left` is what
\* stays.
DrivePrefix(left) ==
  LET cut == CompleteSpan(buffer)
  IN  IF cut = 0
      THEN buffer' = left /\ UNCHANGED bases /\ history' = [history EXCEPT !.torn = @ \/ left # buffer]
      ELSE \E d \in Drives(SubSeq(buffer, 1, cut)) :
             /\ d.refused => mode # "stdin"
             /\ history' = [ShownBy(d) EXCEPT !.torn = @ \/ Len(left) < Held(buffer)]
             /\ Verdict(d)
             /\ baseOffset' = baseOffset + cut
             /\ baseRecord' = baseRecord + RecordsIn(SubSeq(buffer, 1, cut))
             /\ buffer' = left

\* Mutant: the held bytes are not looked at.
CycleUngoverned ==
  /\ pc = "cycle"
  /\ DrivePrefix(SubSeq(buffer, CompleteSpan(buffer) + 1, Len(buffer)))
  /\ pc' = "poll"
  /\ UNCHANGED <<environment, fd, cursor, offset, ended>>

Cycle ==
  /\ pc = "cycle" /\ Held(buffer) <= HeldCap
  /\ DrivePrefix(SubSeq(buffer, CompleteSpan(buffer) + 1, Len(buffer)))
  /\ pc' = "poll"
  /\ UNCHANGED <<environment, fd, cursor, offset, ended>>

\* govern_held_partial refuses: --follow drops the held record and goes on.
RefuseHeld ==
  /\ pc = "cycle" /\ mode # "stdin"
  /\ Held(buffer) > HeldCap \/ Governed
  /\ DrivePrefix(<<>>)
  /\ pc' = "poll"
  /\ UNCHANGED <<environment, fd, cursor, offset, ended>>

\* A piped stdin ends at its first refusal, before or within the drive.
StdinRefused ==
  /\ pc = "cycle" /\ mode = "stdin"
  /\ \/ /\ Held(buffer) > HeldCap \/ Governed
        /\ UNCHANGED history
     \/ \E d \in Drives(SubSeq(buffer, 1, CompleteSpan(buffer))) :
          /\ Held(buffer) <= HeldCap /\ CompleteSpan(buffer) > 0 /\ d.refused
          /\ history' = ShownBy(d)
  /\ pc' = "failed"
  /\ UNCHANGED <<environment, fd, cursor, offset, buffer, bases, ended>>

\* The old stream ends with what was drained, whole or not; the new one is fresh.
Rotated ==
  /\ pc = "rotated"
  /\ \E d \in Drives(buffer) : ended' = ShownBy(d)
  /\ history' = NewRun
  /\ buffer' = <<>> /\ baseOffset' = 0 /\ baseRecord' = 0 /\ issues' = FALSE /\ lastFailed' = FALSE
  /\ pc' = "poll"
  /\ UNCHANGED <<environment, fd, cursor, offset>>

\* The end of a pipe: its held tail is driven, and the exit class chosen.
Eof ==
  /\ pc = "eof"
  /\ \E d \in Drives(buffer) :
       LET finalized == ~d.refused /\ d.did.failed
           counted   == issues \/ (~d.refused /\ ~d.did.failed /\ Malformed(d))
       IN  /\ history' = ShownBy(d)
           /\ pc' = IF d.refused /\ mode = "stdin" THEN "failed"
                    ELSE IF counted \/ finalized \/ (buffer = <<>> /\ lastFailed)
                    THEN "reported" ELSE "served"
  /\ UNCHANGED <<environment, fd, cursor, offset, buffer, bases, ended>>

Follow == PollPath \/ Drain \/ ReopenPath \/ Size \/ Read \/ ReadPipe
          \/ Cycle \/ RefuseHeld \/ StdinRefused \/ Rotated \/ Eof

FollowNext == World \/ Follow

FollowSpec == FollowInit /\ [][FollowNext]_followVars

\* The loop sleeps for a bounded time and no lock stands between it and the file;
\* nothing makes a writer write.
FollowFair == FollowSpec /\ WF_followVars(Follow)

-----------------------------------------------------------------------------
(* Properties.                                                             *)

Over == pc \in {"failed", "reported", "served"}

WholeRun(bytes) == Drive("recovering", bytes, ItemsPerValue * Len(bytes))

SubsequenceOf(s, t) ==
  \E at \in [DOMAIN s -> DOMAIN t] :
    /\ \A i, j \in DOMAIN s : i < j => at[i] < at[j]
    /\ \A i \in DOMAIN s : s[i] = t[at[i]]

\* What is shown is what one drive over these bytes shows; the records of a refused
\* cycle may be missing.
Shows(r, bytes) ==
  LET whole == WholeRun(bytes)
  IN  IF r.refused
      THEN SubsequenceOf(r.out, whole.out) /\ SubsequenceOf(r.reports, whole.reports)
      ELSE r.out = whole.out /\ r.reports = whole.reports

\* A mark only begins the stream: each drive looks for one, and takes one that begins
\* a later cycle for the stream's own.
MarkedOnce(bytes) == \A i \in 2..Len(bytes) : bytes[i].kind # "bom"

\* So it is, unless a held record was dropped, as what follows it has no place then,
\* or a later mark was read.
ShowsWhole(r, bytes) == ~r.torn /\ MarkedOnce(r.seen) => Shows(r, bytes)

\* "--follow is an INPUT-path change, not a route change": however the bytes came
\* in, the values and the absolute positions are those of one run over the file;
\* a refused cycle costs its own records and moves no later one.
ShownIsWholeRun ==
  /\ ShowsWhole(history, IF pc \in {"reported", "served"} \/ (pc = "failed" /\ history.refused)
                         THEN history.seen ELSE SubSeq(history.seen, 1, baseOffset))
  /\ ended # NIL => ShowsWhole(ended, ended.seen)

Generations == UNION {Range(files[i]) : i \in Inodes}
OneGeneration(bytes) == \E g \in Generations : Range(bytes) \subseteq Range(g)

\* What was read is a file from its beginning: nothing skipped, repeated, or of
\* another file, through truncations the loop notices and rotations.  Exempt is a
\* drain after a truncation was noticed: the offset is reset, the descriptor is not
\* moved, and the drain reads on from where it stood (`stale`).
SeenIsFile ==
  \A r \in {history} \cup (IF ended = NIL THEN {} ELSE {ended}) :
    OneGeneration(r.seen) /\ ~r.stale => \E g \in Generations : IsPrefix(r.seen, g)

\* "Drain the old fd's ENTIRE remaining tail": what was in a file when the loop
\* found it renamed has been read when the loop leaves it.  Exempt, as above, is the
\* drain of a descriptor that a noticed truncation left where it stood.
DrainIsWhole == ended # NIL /\ ~ended.stale => IsPrefix(ended.due, ended.seen)

\* "Memory is bounded by the one partial record" (docs/streaming.md): what is held
\* never passes the cap by more than a read, nor outlives its cycle.
HeldIsBounded ==
  /\ Held(buffer) <= HeldCap + Chunk
  /\ pc \in {"poll", "size"} => LineFeeds(buffer) = {} /\ Len(buffer) <= HeldCap

\* Once the writer is still, the loop comes to the end of the file the path names,
\* with no whole record left undriven.  A file cut and grown again between two
\* looks is not seen to be another.
Current ==
  /\ path \in {NIL, fd}
  /\ history.seen = Content(fd) /\ LineFeeds(buffer) = {}
CatchesUp == <>[](Over \/ ~IsPrefix(history.seen, Content(fd)) \/ Current)

\* "a stream that had a malformed record cannot exit clean" (docs/streaming.md).
MalformedIsTold ==
  pc = "served" /\ ~history.refused /\ ~history.torn =>
    \A i \in DOMAIN history.reports : history.reports[i].code # "malformed"

=============================================================================
