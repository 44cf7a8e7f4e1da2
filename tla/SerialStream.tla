---------------------------- MODULE SerialStream ----------------------------
(***************************************************************************)
(* What a request promises its caller, whatever lane it takes              *)
(* (jqf-runtime/CONTRACTS.md, Ordering): bytes appear on the sink in the   *)
(* order the serial drive writes them, and the request ends either with    *)
(* all of them or with a typed stop after a prefix.                        *)
(***************************************************************************)
EXTENDS Sequences, SequencesExt

VARIABLES
  serial,   (* the bytes the serial drive writes for this request           *)
  sent,     (* the bytes the caller's sink has taken                        *)
  verdict   (* "open", "served", or the typed stop                          *)

streamVars == <<serial, sent, verdict>>

Stops == {"refused", "control", "sink_failed"}

StreamInit == sent = <<>> /\ verdict = "open"

\* More of the same stream.
Publish ==
  /\ verdict = "open"
  /\ IsPrefix(sent, sent') /\ IsPrefix(sent', serial)
  /\ UNCHANGED <<serial, verdict>>

\* The whole stream, never part of it.
Serve ==
  /\ verdict = "open" /\ sent = serial
  /\ verdict' = "served"
  /\ UNCHANGED <<serial, sent>>

Stop ==
  /\ verdict = "open"
  /\ verdict' \in Stops
  /\ UNCHANGED <<serial, sent>>

StreamNext == Publish \/ Serve \/ Stop

StreamSpec == StreamInit /\ [][StreamNext]_streamVars

=============================================================================
