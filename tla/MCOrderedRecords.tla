-------------------------- MODULE MCOrderedRecords --------------------------
(* The ordered coordinator under an arbitrary client, for TLC: three ring    *)
(* slots and two permits, so that the ring wraps, a permit runs out before   *)
(* the window, and a result waits behind a slower predecessor.               *)
EXTENDS OrderedRecords

MCOutcomes == {Clean} \cup Terminals \cup Faults

\* A clean unit, one with a diagnostic, and one whose worker may fail.
MCUnits == {"clean", "dirty", "flaky"}
MCCanEnd == [clean |-> {Clean}, dirty |-> {"diagnostics"},
             flaky |-> {Clean, "memory", "panicked"}]
MCInputBytes == [clean |-> 1, dirty |-> 1, flaky |-> 2]
MCResultBytes == [clean |-> 2, dirty |-> 0, flaky |-> 1]

\* Another resident makes the second envelope unaffordable now and then.
MCOwnBytes == {0, 4}

=============================================================================
