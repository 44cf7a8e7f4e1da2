---------------------------- MODULE ResidentFeed ----------------------------
(***************************************************************************)
(* The resident record feed (jqf-runtime/src/feed.rs) behind its C         *)
(* interface (jqf-sdk-ffi/src/lib.rs).  The host pushes a stream in pieces *)
(* and polls batches into buffers of its own; whatever the pieces and the  *)
(* buffers, it must get what one drive over the whole stream gives.        *)
(*                                                                         *)
(* One thread calls the feed; a call is one step.  The route and cost rows *)
(* of the diagnostics are left out.                                        *)
(***************************************************************************)
EXTENDS RecordDrive, DiagnosticBuffer

CONSTANTS
  NONE, FAILED,
  Profiles,      (* the profiles a feed may be opened with                   *)
  Streams,       (* the streams a host may send                              *)
  MaxPiece,      (* bound: bytes of one push                                 *)
  MaxRetained,   (* max_retained_bytes                                       *)
  Rooms,         (* bound: sizes of the host's buffer                        *)
  BatchEntries,  (* RECORD_BATCH_ENTRIES                                     *)
  BatchBytes,    (* RECORD_BATCH_TARGET_BYTES                                *)
  DiagnosticCap  (* records a buffer holds, 4096                             *)

ASSUME FeedAssumption ==
  /\ Profiles \subseteq {"strict", "recovering"}
  /\ MaxPiece \in Nat /\ MaxRetained \in Nat /\ Rooms \subseteq Nat
  /\ BatchEntries \in Nat \ {0} /\ BatchBytes \in Nat \ {0} /\ DiagnosticCap \in Nat \ {0}
  /\ NONE \notin Seq(Nat)

\* A mark only ever begins a stream: where a later line began with one, a batch
\* would take it for the stream's own.
ASSUME StreamAssumption ==
  \A kinds \in Streams : kinds \in Seq(Kinds) /\ \A i \in DOMAIN kinds : kinds[i] = "bom" => i = 1

VARIABLES
  stream,       (* what the host sends                                       *)
  profile,      (* ResidentFeed: NdjsonProfile                               *)
  retained,     (* the bytes the feed holds                                  *)
  complete,     (* complete_end                                              *)
  published,    (* published_end                                             *)
  finishing, staged, terminal,
  base,         (* stream_base                                               *)
  ordinals,     (* stream_records                                            *)
  diagnostics,  (* the handle's buffer                                       *)
  program,      (* the compiled program is still on the handle               *)
  answer,       (* what the last poll returned                               *)
  received,     (* history: the batches the host got whole                   *)
  reports,      (* history: every issue and raised error recorded            *)
  cause         (* history: what the feed died of                            *)

feed == <<retained, complete, published, finishing, staged, terminal, base, ordinals>>
vars == <<stream, profile, feed, diagnostics, program, answer, received, reports, cause>>

Stamped(kinds) == [i \in DOMAIN kinds |-> [kind |-> kinds[i], at |-> i]]

Records == [code : {"blank", "malformed", "mark", "raised", "death", "refused push", "no program"},
            ordinal : Nat, offset : Nat]

TypeOK ==
  /\ stream \in Seq(Bytes) /\ retained \in Seq(Bytes) /\ Len(retained) <= MaxRetained
  /\ published \in 0..complete /\ complete \in 0..Len(retained)
  /\ profile \in {"strict", "recovering"}
  /\ finishing \in BOOLEAN /\ terminal \in BOOLEAN /\ program \in BOOLEAN
  /\ staged # NONE => (staged \in Seq(Nat) /\ Len(staged) <= MaxRetained)
  /\ base \in Nat /\ ordinals \in Nat
  /\ diagnostics.records \in Seq(Records) /\ Len(diagnostics.records) <= DiagnosticCap
  /\ diagnostics.terminal \in 0..Len(diagnostics.records)
  /\ answer \in Nat \cup {NONE, FAILED}
  /\ received \in Seq(Nat) /\ reports \in Seq(Reports)
  /\ cause \in {"none", "fault", "sink"}

Init ==
  /\ stream \in {Stamped(kinds) : kinds \in Streams}
  /\ profile \in Profiles
  /\ retained = <<>> /\ complete = 0 /\ published = 0
  /\ finishing = FALSE /\ staged = NONE /\ terminal = FALSE
  /\ base = 0 /\ ordinals = 0
  /\ diagnostics = Cleared
  /\ program = TRUE
  /\ answer = NONE
  /\ received = <<>> /\ reports = <<>> /\ cause = "none"

Note(b, failure) == RecordedTerminal(b, Report(failure, 0, 0), DiagnosticCap)

-----------------------------------------------------------------------------
(* jqf_feed_push, jqf_feed_finish, jqf_program_free.                       *)

Accepted == base + Len(retained)

\* Mutant: the line feed itself is left out.
CutShort(piece) == LET feeds == {i \in DOMAIN piece : piece[i].kind = "lf"}
                   IN  IF feeds = {} THEN complete ELSE Len(retained) + Max(feeds) - 1

\* The last line feed of the piece is the new cut.
Cut(piece) == LET feeds == {i \in DOMAIN piece : piece[i].kind = "lf"}
              IN  IF feeds = {} THEN complete ELSE Len(retained) + Max(feeds)

\* The host sends again what was refused.
Push(n) ==
  /\ ~finishing /\ Accepted + n <= Len(stream)
  /\ LET piece == SubSeq(stream, Accepted + 1, Accepted + n)
     IN  IF Len(retained) + n <= MaxRetained
         THEN /\ retained' = retained \o piece
              /\ complete' = Cut(piece)
              /\ UNCHANGED diagnostics
         ELSE /\ diagnostics' = Note(diagnostics, "refused push")
              /\ UNCHANGED <<retained, complete>>
  /\ UNCHANGED <<stream, profile, published, finishing, staged, terminal, base, ordinals,
                 program, answer, received, reports, cause>>

\* A dead feed does not finish; a finished one takes no more.
Finish ==
  /\ ~terminal /\ ~finishing
  /\ finishing' = TRUE
  /\ complete' = Len(retained)
  /\ UNCHANGED <<stream, profile, retained, published, staged, terminal, base, ordinals,
                 diagnostics, program, answer, received, reports, cause>>

FreeProgram ==
  /\ program
  /\ program' = FALSE
  /\ UNCHANGED <<stream, profile, feed, diagnostics, answer, received, reports, cause>>

-----------------------------------------------------------------------------
(* jqf_feed_poll.                                                          *)

\* Mutant: what follows the last line feed of a finished stream is held for ever.
NextBatchHeld ==
  LET feeds == {i \in published + 1..complete : retained[i].kind = "lf"}
      count(i) == Cardinality({j \in feeds : j <= i})
      full == {i \in feeds : count(i) >= BatchEntries \/ i - published >= BatchBytes}
      end == IF full # {} THEN Min(full) ELSE Max(feeds)
  IN  IF feeds # {} THEN [end |-> end, records |-> count(end)] ELSE NONE

\* The first line feed past a bound ends the batch; the end of a finished stream
\* is a record of its own.
NextBatch ==
  LET feeds == {i \in published + 1..complete : retained[i].kind = "lf"}
      count(i) == Cardinality({j \in feeds : j <= i})
      full == {i \in feeds : count(i) >= BatchEntries \/ i - published >= BatchBytes}
      end == IF full # {} THEN Min(full) ELSE Max(feeds)
  IN  CASE feeds # {} -> [end |-> end, records |-> count(end)]
        [] feeds = {} /\ finishing /\ published < complete -> [end |-> complete, records |-> 1]
        [] OTHER -> NONE

\* A stream the poll will not touch keeps its diagnostics.
Fresh == IF staged = NONE /\ ~terminal THEN Cleared ELSE diagnostics

PollNoProgram ==
  /\ ~program
  /\ diagnostics' = Note(Fresh, "no program")
  /\ answer' = FAILED
  /\ UNCHANGED <<stream, profile, feed, program, received, reports, cause>>

\* Mutant: what a buffer has no room for is lost.
DeliverOnce(batch, end, dead, room) ==
  /\ answer' = Len(batch)
  /\ staged' = NONE
  /\ received' = IF Len(batch) > room THEN received ELSE received \o batch
  /\ IF dead
     THEN UNCHANGED <<retained, complete, published, base>>
     ELSE /\ retained' = SubSeq(retained, end + 1, Len(retained))
          /\ complete' = complete - end
          /\ base' = base + end
          /\ published' = 0

\* deliver_pending and compact: a batch that does not fit stays; one that does is
\* dropped, and its input with it.  A dead feed keeps its input.
Deliver(batch, end, dead, room) ==
  /\ answer' = Len(batch)
  /\ IF Len(batch) > room
     THEN staged' = batch /\ UNCHANGED received
     ELSE staged' = NONE /\ received' = received \o batch
  /\ IF dead \/ Len(batch) > room
     THEN /\ published' = IF dead THEN published ELSE end
          /\ UNCHANGED <<retained, complete, base>>
     ELSE /\ retained' = SubSeq(retained, end + 1, Len(retained))
          /\ complete' = complete - end
          /\ base' = base + end
          /\ published' = 0

Redeliver(room) ==
  /\ program /\ staged # NONE
  /\ Deliver(staged, published, terminal, room)
  /\ UNCHANGED <<stream, profile, finishing, terminal, ordinals, diagnostics, program, reports, cause>>

PollDead ==
  /\ program /\ staged = NONE /\ terminal
  /\ answer' = FAILED
  /\ UNCHANGED <<stream, profile, feed, diagnostics, program, received, reports, cause>>

PollEmpty ==
  /\ program /\ staged = NONE /\ ~terminal /\ NextBatch = NONE
  /\ diagnostics' = Cleared
  /\ answer' = 0
  /\ UNCHANGED <<stream, profile, feed, program, received, reports, cause>>

\* record_issue; record_value_error has no place to rebase.
Rebased(report) ==
  IF report.code = "raised" THEN report
  ELSE [report EXCEPT !.ordinal = @ + ordinals, !.offset = @ + base + published]

\* A failure is terminal, and told by the poll after its batch's last.
PollBatch(room) ==
  /\ program /\ staged = NONE /\ ~terminal /\ NextBatch # NONE
  /\ \E batch \in {NextBatch} :
     \E run \in {Drive(profile, SubSeq(retained, published + 1, batch.end), MaxRetained)} :
     LET told  == [i \in DOMAIN run.reports |-> Rebased(run.reports[i])]
         noted == RecordedAll(Cleared, told, DiagnosticCap)
     IN  /\ reports' = reports \o told
         /\ IF run.stop = "none"
            THEN /\ diagnostics' = noted
                 /\ ordinals' = ordinals + batch.records
                 /\ Deliver(run.out, batch.end, FALSE, room)
                 /\ UNCHANGED <<terminal, cause>>
            ELSE /\ terminal' = TRUE /\ cause' = run.stop
                 /\ diagnostics' = Note(noted, "death")
                 /\ IF run.out = <<>>
                    THEN answer' = FAILED /\ UNCHANGED <<retained, complete, published, base, staged, received>>
                    ELSE Deliver(run.out, batch.end, TRUE, room)
                 /\ UNCHANGED ordinals
  /\ UNCHANGED <<stream, profile, finishing, program>>

Poll(room) == PollNoProgram \/ Redeliver(room) \/ PollDead \/ PollEmpty \/ PollBatch(room)

Next ==
  \/ \E n \in 1..MaxPiece : Push(n)
  \/ Finish
  \/ FreeProgram
  \/ \E room \in Rooms : Poll(room)

Spec == Init /\ [][Next]_vars

\* A host that keeps polling, with a buffer any batch fits.
FairSpec == Spec /\ WF_vars(Poll(MaxRetained))

-----------------------------------------------------------------------------
(* Properties.                                                             *)

Drained == staged = NONE /\ published = complete

\* The one drive over all that the feed may look at.
Route == Drive(profile, SubSeq(stream, 1, base + complete), ItemsPerValue * Len(stream))

Shown == received \o (IF staged = NONE THEN <<>> ELSE staged)

\* "A stream's output is byte-identical to the whole-input record route over the
\* same records" (lib.rs, jqf_feed_poll): nothing lost, repeated or out of order
\* across batches, retries and the end; a held record is never framed; a fault
\* takes nothing before it along.  Every report has the ordinal and the offset it
\* has in the stream, whatever batch it was found in.
FeedIsRoute ==
  /\ IsPrefix(Shown, Route.out) /\ IsPrefix(reports, Route.reports)
  /\ ~terminal /\ Drained =>
       Shown = Route.out /\ reports = Route.reports /\ Route.stop = "none"
  /\ cause = "fault" => Shown = Route.out /\ Route.stop = "fault"

\* The buffer is the stream's bytes from `base` on, cut after a record, and as
\* many ordinals are behind it as there are records.  "The faulting record stays in
\* the retained input" (feed.rs, the failure law).
WindowExact ==
  /\ cause = "fault" => base + published <= Route.offset /\ Route.offset < Accepted
  /\ retained = SubSeq(stream, base + 1, Accepted)
  /\ ordinals = Cardinality(Ends(SubSeq(stream, 1, base + published)))
  /\ \A at \in {base + published, base + complete} :
       at > 0 /\ stream[at].kind # "lf" => finishing /\ at = Accepted

\* Once the host has finished and keeps polling, the stream is delivered to its
\* end, or the feed tells it is dead.
EndIsReached == finishing ~> (Drained \/ answer = FAILED)

=============================================================================
