--------------------------- MODULE MCMorselRelay ---------------------------
(* One parallel request for TLC: two workers, so four ring slots, and up to  *)
(* five morsels, so that the ring wraps behind a slow first morsel.          *)
EXTENDS MorselRelay

MCOutcomes == {Clean} \cup Terminals \cup Faults

\* wide: two bytes a sink may split; empty: a morsel that publishes nothing;
\* dirty: a reported value error; fatal: serial itself fails in it; flaky: its
\* worker may panic or be refused; huge: longer than the whole window.
MCKinds == {"wide", "empty", "dirty", "fatal", "flaky", "huge"}
MCUnits == (1..MaxOrdinal) \X MCKinds
MCCanEnd == [u \in MCUnits |->
  CASE u[2] \in {"wide", "empty"} -> {Clean}
    [] u[2] = "dirty" -> {"diagnostics"}
    [] u[2] = "fatal" -> {"drive_failed"}
    [] u[2] = "flaky" -> {Clean, "memory", "panicked"}
    [] u[2] = "huge"  -> {Clean}]
MCSerialBytes == [k \in MCKinds |-> CASE k = "wide" -> 2 [] k = "empty" -> 0 [] OTHER -> 1]
MCSerialStops == {"fatal"}
MCInputBytes == [u \in MCUnits |-> IF u[2] = "huge" THEN 9 ELSE 2]
MCResultBytes == [u \in MCUnits |->
  IF u[2] \in {"dirty", "fatal"} THEN 0 ELSE MCSerialBytes[u[2]]]

MCSources == { <<>>,
               <<"wide", "empty", "wide", "empty", "flaky">>,
               <<"flaky", "dirty", "flaky", "wide">>,
               <<"wide", "flaky", "fatal", "wide">>,
               <<"wide", "huge", "wide">> }

\* The coordinator's own residency: nothing, or enough for one or both grants.
MCOwnBytes == {0, 4, 8}

=============================================================================
