---------------------------- MODULE RecordDrive -----------------------------
(***************************************************************************)
(* One drive of the NDJSON record route over one range of bytes: the       *)
(* framer (jqf-codec/json/src/ndjson/stream.rs) and the per-record loop    *)
(* (jqf-sdk/src/drive/records.rs), as a function of the range.             *)
(*                                                                         *)
(* A byte is its role and its place in the stream; the place stands for    *)
(* its content.  "open" "close" is a value, on which the program publishes *)
(* ItemsPerValue items of one byte; "raise" is one it raises an error on;  *)
(* any other text is malformed.                                            *)
(***************************************************************************)
EXTENDS Naturals, Sequences, SequencesExt, FiniteSetsExt

CONSTANT ItemsPerValue

ASSUME DriveAssumption == ItemsPerValue \in Nat

Kinds == {"lf", "bom", "open", "close", "raise"}
Bytes == [kind : Kinds, at : Nat]

\* A record ends after each line feed, and at the end of the range.
IsEnd(bytes, i) == bytes[i].kind = "lf" \/ i = Len(bytes)
Ends(bytes) == {i \in DOMAIN bytes : IsEnd(bytes, i)}

\* The mark is prefix, not payload, and has no ordinal.
StartsWithMark(bytes) == bytes # <<>> /\ bytes[1].kind = "bom"

\* The record from the session's cursor, run.from, to its end.
Framed(bytes, run, end) ==
  LET closed == bytes[end].kind = "lf"
  IN  [ordinal |-> run.ordinal, offset |-> run.from, closed |-> closed,
       payload |-> SubSeq(bytes, run.from + 1, IF closed THEN end - 1 ELSE end)]

Text(record) == [i \in DOMAIN record.payload |-> record.payload[i].kind]

Reports == [code : {"blank", "malformed", "mark", "raised"}, ordinal : Nat, offset : Nat]
Report(code, ordinal, offset) == [code |-> code, ordinal |-> ordinal, offset |-> offset]

\* A fault is an ordered issue, or the end of the drive at the record's offset.
Fault(run, code, record) ==
  IF run.profile = "recovering"
  THEN [run EXCEPT !.reports = Append(@, Report(code, record.ordinal, record.offset))]
  ELSE [run EXCEPT !.stop = "fault", !.offset = record.offset]

\* The sink takes items until the next would pass its cap.
Written(run, record, cap) ==
  LET all  == run.out \o [i \in 1..ItemsPerValue |-> record.payload[1].at]
  IN  IF Len(all) <= cap THEN [run EXCEPT !.out = all, !.failed = FALSE]
      ELSE [run EXCEPT !.out = SubSeq(all, 1, cap), !.stop = "sink", !.offset = record.offset]

\* An error the program raises is reported without a place, and the drive goes on;
\* it fails at its end if no later record succeeded (last_error).
Run(run, record, cap) ==
  CASE Text(record) = <<>> /\ ~record.closed -> run
    [] Text(record) = <<>> /\ record.closed -> Fault(run, "blank", record)
    [] Text(record) = <<"open", "close">> -> Written(run, record, cap)
    [] Text(record) = <<"raise">> ->
         [run EXCEPT !.reports = Append(@, Report("raised", 0, 0)), !.failed = TRUE]
    [] OTHER -> Fault(run, "malformed", record)

Started(profile, bytes) ==
  LET run(from) == [profile |-> profile, from |-> from, ordinal |-> 0, out |-> <<>>,
                    reports |-> <<>>, failed |-> FALSE, stop |-> "none", offset |-> 0]
  IN  IF StartsWithMark(bytes) THEN Fault(run(1), "mark", [ordinal |-> 0, offset |-> 0]) ELSE run(0)

\* At the end of a record it is framed, then run; nothing is after a stop.
Advance(bytes, run, i, cap) ==
  IF IsEnd(bytes, i) /\ run.stop = "none"
  THEN [Run(run, Framed(bytes, run, i), cap) EXCEPT !.from = i, !.ordinal = @ + 1]
  ELSE run

\* Everything before a stop is published.
Drive(profile, bytes, cap) ==
  FoldLeftDomain(LAMBDA run, i : Advance(bytes, run, i, cap), Started(profile, bytes), bytes)

=============================================================================
