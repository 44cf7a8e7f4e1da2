-------------------------- MODULE DiagnosticBuffer --------------------------
(***************************************************************************)
(* The capped buffer of diagnostic records (jqf-resource/src/diag.rs).     *)
(* The newest record wins, over the oldest that is not marked terminal.    *)
(***************************************************************************)
EXTENDS Naturals, Sequences, SequencesExt, FiniteSetsExt

\* `terminal` is the place of the marked record, 0 if there is none.
Cleared == [records |-> <<>>, terminal |-> 0]

\* Mutant: one record more than the cap.
RecordedOver(b, record, cap) ==
  LET victims == DOMAIN b.records \ {b.terminal}
  IN  CASE Len(b.records) <= cap -> [b EXCEPT !.records = Append(@, record)]
        [] Len(b.records) > cap /\ victims # {} ->
             [records  |-> Append(RemoveAt(b.records, Min(victims)), record),
              terminal |-> IF b.terminal > Min(victims) THEN b.terminal - 1 ELSE b.terminal]
        [] OTHER -> b

\* With a cap of one and a marked record, the new record is refused.
Recorded(b, record, cap) ==
  LET victims == DOMAIN b.records \ {b.terminal}
  IN  CASE Len(b.records) < cap -> [b EXCEPT !.records = Append(@, record)]
        [] Len(b.records) >= cap /\ victims # {} ->
             [records  |-> Append(RemoveAt(b.records, Min(victims)), record),
              terminal |-> IF b.terminal > Min(victims) THEN b.terminal - 1 ELSE b.terminal]
        [] OTHER -> b

RecordedAll(b, records, cap) == FoldLeft(LAMBDA acc, r : Recorded(acc, r, cap), b, records)

\* record_failure and record_setup_failure mark what they have just recorded.
RecordedTerminal(b, record, cap) ==
  LET next == Recorded(b, record, cap)
  IN  [next EXCEPT !.terminal = Len(next.records)]

=============================================================================
