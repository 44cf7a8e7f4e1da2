---------------------------- MODULE MorselRelay ----------------------------
(***************************************************************************)
(* One parallel request: the dispatch-and-relay loop of                    *)
(* jqf-runtime/src/parallel/relay.rs as the coordinator's client, and the  *)
(* two routes around it (records/mod.rs, values/mod.rs), which re-run the  *)
(* whole request serially when the relay yields, discarding the prefix it  *)
(* has published.                                                          *)
(*                                                                         *)
(* A byte is the pair of its morsel and its place in what the serial drive *)
(* publishes over that morsel's range.  What a drive computes is not       *)
(* modelled; that a worker ending cleanly has staged exactly the serial    *)
(* bytes of its range is the law a clean morsel rests on, and is the       *)
(* assumption CleanMorselLaw.                                              *)
(***************************************************************************)
EXTENDS OrderedRecords, SequencesExt

CONSTANTS
  Kinds,        (* kinds of morsel                                          *)
  Sources,      (* the inputs considered, each a sequence of kinds          *)
  SerialBytes,  (* [Kinds -> Nat]: what serial publishes over a morsel      *)
  SerialStops,  (* kinds on which the serial drive fails and stops          *)
  Tails         (* how the source ends: "exhausted" or "malformed"          *)

\* Morsel i of a request is the pair of its index and its kind.
Indices == 1..MaxOrdinal

ASSUME RelayAssumption ==
  /\ Units = Indices \X Kinds
  /\ Sources \subseteq Seq(Kinds) /\ \A src \in Sources : Len(src) <= MaxOrdinal
  /\ SerialBytes \in [Kinds -> Nat] /\ SerialStops \subseteq Kinds
  /\ Tails \subseteq {"exhausted", "malformed"}
  /\ Permits >= 1 /\ GrantBytes >= 1

ASSUME CleanMorselLaw ==
  \A u \in Units : Clean \in CanEnd[u] =>
    ResultBytes[u] = SerialBytes[u[2]] /\ u[2] \notin SerialStops

\* concurrency_window: one reorder slot per worker beyond the workers.
ASSUME ConcurrencyWindow ==
  /\ Cap = 2 * Permits
  /\ MaxResults = Cap * OutputBytes

VARIABLES
  source,           (* the request's morsels                                *)
  tail,             (* how its source ends                                  *)
  pc,               (* where the relay loop, then the route, is             *)
  pulled,           (* morsels taken from the source                        *)
  held,             (* the morsel that did not fit, or NONE                 *)
  source_done,
  published_bytes,
  written,          (* bytes of the offered morsel the sink has taken       *)
  out,              (* what the caller's sink has accepted                  *)
  result,           (* what relay_morsels returns, then the route           *)
  remaining,        (* SkippingSink.remaining                               *)
  redriven          (* bytes the serial redrive has handed to SkippingSink  *)

relayVars == <<source, tail, pc, pulled, held, source_done, published_bytes,
               written, out, result, remaining, redriven>>
allVars == <<vars, relayVars>>

Results == {"none", "complete", "yield", "refused", "control", "sink_failed"}
Places == {"control", "fill", "poll", "polling", "parked", "offer", "write",
           "flush", "ack", "giveup", "stopping", "route", "redrive", "end"}

-----------------------------------------------------------------------------
(* Serial's own answer: the bytes of each morsel up to the one it stops on, *)
(* and one byte of a malformed remainder before its diagnostic.             *)

Bytes(i, n) == [k \in 1..n |-> <<i, k>>]

SerialLast ==
  LET stops == {i \in 1..Len(source) : source[i] \in SerialStops}
  IN IF stops = {} THEN Len(source) ELSE Min(stops)

SerialOutput ==
  FlattenSeq([i \in 1..SerialLast |-> Bytes(i, SerialBytes[source[i]])])
  \o (IF tail = "malformed" /\ SerialLast = Len(source)
         /\ (source = <<>> \/ source[Len(source)] \notin SerialStops)
      THEN Bytes(Len(source) + 1, 1) ELSE <<>>)

-----------------------------------------------------------------------------

\* Admission: as many workers as the parent's headroom affords.
AffordableWorkers(own) ==
  LET headroom == IF Headroom >= own THEN Headroom - own ELSE 0
  IN Min({headroom \div GrantBytes, Permits})

RelayInit ==
  /\ \E own \in OwnBytes :
       /\ InitWith(AffordableWorkers(own))
       /\ IF AffordableWorkers(own) = 0
          THEN pc = "route" /\ result = "yield"
          ELSE pc = "control" /\ result = "none"
  /\ source \in Sources
  /\ tail \in Tails
  /\ pulled = 0
  /\ held = NONE
  /\ source_done = FALSE
  /\ published_bytes = 0
  /\ written = 0
  /\ out = <<>>
  /\ remaining = 0
  /\ redriven = 0

Goto(place) == pc' = place /\ UNCHANGED result
Leave(r) == pc' = "giveup" /\ result' = r

sourceVars == <<source, tail, pulled, held, source_done>>
sinkVars == <<published_bytes, written, out>>
redriveVars == <<remaining, redriven>>

\* check_control: the host lets the loop go on, or stops the request.
CheckControl ==
  /\ pc \in {"control", "offer"}
  /\ \/ Goto(IF pc = "control" THEN "fill" ELSE "write")
     \/ Leave("control")
  /\ UNCHANGED <<vars, sourceVars, sinkVars, redriveVars>>

\* The next morsel: the held one, or one more pulled from the source.
Candidate == IF held # NONE THEN held ELSE pulled + 1

Unit(i) == <<i, source[i]>>

SourceEnds ==
  /\ pc = "fill" /\ ~source_done /\ held = NONE /\ pulled = Len(source)
  /\ IF tail = "exhausted"
     THEN Goto("fill") /\ source_done' = TRUE
     ELSE Leave("yield") /\ UNCHANGED source_done
  /\ UNCHANGED <<vars, source, tail, pulled, held, sinkVars, redriveVars>>

\* A morsel no window could ever hold goes to serial at once.
Oversized ==
  /\ pc = "fill" /\ ~source_done /\ Candidate <= Len(source)
  /\ InputBytes[Unit(Candidate)] > MaxInput
  /\ Leave("yield")
  /\ pulled' = Candidate /\ held' = NONE
  /\ UNCHANGED <<vars, source, tail, source_done, sinkVars, redriveVars>>

\* Mutant: a full window always waits.
SomebodyWakes == FALSE

\* With nothing in flight a park would never be woken.
NobodyToWake == in_flight_records = 0

\* Dispatch until something is full; then yield if nobody would wake the loop.
Fill ==
  /\ pc = "fill" /\ ~source_done /\ Candidate <= Len(source)
  /\ InputBytes[Unit(Candidate)] <= MaxInput
  /\ \E own \in OwnBytes : Dispatch(Unit(Candidate), own)
  /\ pulled' = Candidate
  /\ held' = IF at' = "client" /\ answer' # "started" THEN Candidate ELSE NONE
  /\ CASE at' = "drain" -> Leave("yield")
       [] at' = "client" /\ answer' = "started" -> Goto("fill")
       [] at' = "client" /\ answer' \in {"window_full", "no_permit"}
          /\ NobodyToWake -> Leave("yield")
       [] OTHER -> Goto("poll")
  /\ UNCHANGED <<source, tail, source_done, sinkVars, redriveVars>>

FillEnds ==
  /\ pc = "fill" /\ source_done
  /\ FinishDispatch
  /\ Goto("poll")
  /\ UNCHANGED <<sourceVars, sinkVars, redriveVars>>

CallPoll ==
  /\ pc = "poll"
  /\ Poll
  /\ Goto("polling")
  /\ UNCHANGED <<sourceVars, sinkVars, redriveVars>>

\* What poll_next answered once it has returned.
Answered ==
  /\ pc = "polling" /\ at = "client" /\ answer # "pending"
  /\ CASE answer = "ready" -> Goto("offer")
       [] answer = "complete" -> pc' = "route" /\ result' = "complete"
       [] answer \in Terminals -> pc' = "route" /\ result' = "yield"
       [] answer = "memory" -> pc' = "route" /\ result' = "refused"
       [] answer = "control" -> pc' = "route" /\ result' = "control"
       [] OTHER -> Leave("yield")
  /\ UNCHANGED <<vars, sourceVars, sinkVars, redriveVars>>

WaitForFrontier ==
  /\ pc = "polling" /\ answer = "pending"
  /\ Park
  /\ Goto("parked")
  /\ UNCHANGED <<sourceVars, sinkVars, redriveVars>>

Woken ==
  /\ pc = "parked"
  /\ Unpark
  /\ Goto("control")
  /\ UNCHANGED <<sourceVars, sinkVars, redriveVars>>

-----------------------------------------------------------------------------
(* Publication of the offered morsel.                                      *)

Offered == ready[offered_slot]
OfferedUnit == JobOf(Offered.ordinal)

\* write_all: the sink takes some of what is left, takes nothing, or fails.
Write ==
  /\ pc = "write" /\ written < ResultBytes[OfferedUnit]
  /\ \/ \E n \in 1..(ResultBytes[OfferedUnit] - written) :
          /\ out' = out \o SubSeq(Bytes(OfferedUnit[1], ResultBytes[OfferedUnit]),
                                  written + 1, written + n)
          /\ written' = written + n
          /\ UNCHANGED <<pc, result, published_bytes>>
     \/ /\ published_bytes' = published_bytes + written
        /\ Leave("yield")
        /\ UNCHANGED <<out, written>>
     \/ Leave("sink_failed") /\ UNCHANGED <<out, written, published_bytes>>
  /\ UNCHANGED <<vars, sourceVars, redriveVars>>

Written ==
  /\ pc = "write" /\ written = ResultBytes[OfferedUnit]
  /\ published_bytes' = published_bytes + written
  /\ written' = 0
  /\ Goto("flush")
  /\ UNCHANGED <<vars, sourceVars, out, redriveVars>>

Flush ==
  /\ pc = "flush"
  /\ Goto("ack") \/ Leave("sink_failed")
  /\ UNCHANGED <<vars, sourceVars, sinkVars, redriveVars>>

Release ==
  /\ pc = "ack"
  /\ Acknowledge
  /\ IF at' = "client" THEN Goto("control") ELSE Leave("yield")
  /\ UNCHANGED <<sourceVars, sinkVars, redriveVars>>

\* Mutant: the lane is left as it stands.
GiveUpAtOnce ==
  /\ pc = "giveup" /\ at = "client"
  /\ Goto("stopping")
  /\ UNCHANGED <<vars, sourceVars, sinkVars, redriveVars>>

\* Every early return cancels and drains first, by call or by drop.
GiveUp ==
  /\ pc = "giveup" /\ at = "client"
  /\ CancelAndDrain
  /\ Goto("stopping")
  /\ UNCHANGED <<sourceVars, sinkVars, redriveVars>>

Stopped ==
  /\ pc = "stopping" /\ at = "client"
  /\ Goto("route")
  /\ UNCHANGED <<vars, sourceVars, sinkVars, redriveVars>>

-----------------------------------------------------------------------------
(* execute_record_request, execute_value_request.                          *)

\* Mutant: the redrive publishes the prefix again.
RouteAfresh ==
  /\ pc = "route"
  /\ IF result = "yield" THEN Goto("redrive") ELSE Goto("end")
  /\ UNCHANGED <<vars, sourceVars, sinkVars, redriveVars>>

Route ==
  /\ pc = "route"
  /\ IF result = "yield"
     THEN Goto("redrive") /\ remaining' = published_bytes
     ELSE Goto("end") /\ UNCHANGED remaining
  /\ UNCHANGED <<vars, sourceVars, sinkVars, redriven>>

\* The serial drive writes some of what is left through SkippingSink: a prefix
\* is discarded, the sink takes some or none of the rest, or fails.
Redrive ==
  /\ pc = "redrive" /\ redriven < Len(SerialOutput)
  /\ \E n \in 1..(Len(SerialOutput) - redriven) :
       LET skipped == Min({remaining, n}) IN
       /\ remaining' = remaining - skipped
       /\ \/ \E w \in 0..(n - skipped) :
               /\ skipped + w > 0
               /\ out' = out \o SubSeq(SerialOutput, redriven + skipped + 1,
                                       redriven + skipped + w)
               /\ redriven' = redriven + skipped + w
               /\ UNCHANGED <<pc, result>>
          \/ /\ skipped < n
             /\ pc' = "end" /\ result' = "sink_failed"
             /\ UNCHANGED <<out, redriven>>
  /\ UNCHANGED <<vars, sourceVars, published_bytes, written>>

\* The redrive is a drive of its own: the host or the ledger may stop it too.
RedriveEnds ==
  /\ pc = "redrive"
  /\ \/ redriven = Len(SerialOutput) /\ pc' = "end" /\ UNCHANGED result
     \/ pc' = "end" /\ result' \in {"control", "refused"}
  /\ UNCHANGED <<vars, sourceVars, sinkVars, redriveVars>>

-----------------------------------------------------------------------------

\* Steps of a coordinator call in progress, and of the workers.
Inside == (PollSteps \/ DrainSteps \/ Worker) /\ UNCHANGED relayVars

Loop ==
  \/ CheckControl \/ SourceEnds \/ Oversized \/ Fill \/ FillEnds
  \/ CallPoll \/ Answered \/ WaitForFrontier \/ Woken
  \/ Write \/ Written \/ Flush \/ Release \/ GiveUp \/ Stopped
  \/ Route \/ Redrive \/ RedriveEnds

RelayNext == Loop \/ Inside

RelaySpec == RelayInit /\ [][RelayNext]_allVars

\* The loop is the request's own thread; a worker's body ends.
RelayFairness ==
  /\ WF_allVars(Loop)
  /\ WF_allVars((PollSteps \/ DrainSteps) /\ UNCHANGED relayVars)
  /\ \A s \in Slots : WF_allVars(WorkerEnds(s) /\ UNCHANGED relayVars)
                      /\ WF_allVars(WorkerWakes(s) /\ UNCHANGED relayVars)

FairRelaySpec == RelaySpec /\ RelayFairness

-----------------------------------------------------------------------------
(* Properties.                                                             *)

Served == pc = "end" /\ result \in {"complete", "yield"}

Stream == INSTANCE SerialStream WITH
  serial <- SerialOutput, sent <- out,
  verdict <- IF pc # "end" THEN "open" ELSE IF Served THEN "served" ELSE result

\* A parallel answer is byte-identical to a serial one: the relay, its yields at
\* any point of a write and the redrive behind a skipped prefix together write
\* what serial writes, in order, once, and all of it unless a typed stop says
\* otherwise (execute_record_request, relay_morsels, SkippingSink).
ImplementsSerialStream == Stream!StreamSpec

\* However the lane is left (completion, terminal, refusal, host stop, failed
\* sink, short write, failed spawn), the serial redrive starts with no worker
\* alive, no permit out and no byte of the lane on the parent's ledger.
LaneLeavesNothing ==
  pc \in {"route", "redrive", "end"} =>
    /\ \A s \in Slots : thread[s] = "none"
    /\ permitsInFlight = 0 /\ charged = 0

\* Every request ends: no full window, park, drain or redrive is for ever.
RequestEnds == <>(pc = "end")

=============================================================================
