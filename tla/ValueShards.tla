----------------------------- MODULE ValueShards -----------------------------
(***************************************************************************)
(* Where the adjacent-value lane cuts its input into shards                *)
(* (jqf-runtime/src/values/boundary.rs), as its two callers drive it:      *)
(* partition_request pulls two cuts to prove that there is something to    *)
(* share, then the relay pulls the rest while workers run.                 *)
(*                                                                         *)
(* One step is one round of the scan's loop, or one answer taken.  What    *)
(* workers do with a shard is AdjacentReader's: a shard the drive cannot   *)
(* read to its end sends the request to serial.                            *)
(***************************************************************************)
EXTENDS AdjacentReader

CONSTANTS
  Inputs,       (* the inputs considered                                    *)
  FirstTarget,  (* FIRST_SHARD_TTFB_BYTES.min(target)                       *)
  Target,       (* bytes of a later shard                                   *)
  Probe         (* FIRST_VALUE_PROBE_BYTES                                  *)

ASSUME ShardAssumption ==
  /\ Inputs \subseteq Seq(Bytes)
  /\ Target \in Nat \ {0} /\ FirstTarget \in 1..Target
  /\ Probe \in Nat \ {0}

VARIABLES
  input,
  start,           (* where the open shard begins                           *)
  depth,
  offset,          (* bytes scanned                                         *)
  closed_a_value,
  emitted,
  done,
  step,            (* "none", "scanning", or the ShardStep answered         *)
  cut,             (* the shard of a "shard" answer                         *)
  pending,         (* ValueMorsels.pending                                  *)
  pulled,          (* shards the relay has taken                            *)
  phase            (* who pulls, or how the request was routed              *)

scanVars == <<start, depth, offset, closed_a_value, emitted, done>>
vars == <<input, scanVars, step, cut, pending, pulled, phase>>

Steps == {"none", "scanning", "shard", "decline", "malformed", "exhausted"}
Phases == {"prove", "pull", "serial", "complete", "yield"}
Size == Len(input)
Shard == [start : Nat, end : Nat]
NoCut == [start |-> 0, end |-> 0]

TypeOK ==
  /\ input \in Seq(Bytes)
  /\ start \in 0..Size /\ offset \in start..Size
  /\ depth \in Nat /\ emitted \in Nat
  /\ closed_a_value \in BOOLEAN /\ done \in BOOLEAN
  /\ step \in Steps /\ phase \in Phases
  /\ cut \in Shard
  /\ pending \in Seq(Shard) /\ pulled \in Seq(Shard)

Init ==
  /\ input \in Inputs
  /\ start = 0 /\ depth = 0 /\ offset = 0
  /\ closed_a_value = FALSE /\ emitted = 0 /\ done = FALSE
  /\ step = "none" /\ cut = NoCut
  /\ pending = <<>> /\ pulled = <<>>
  /\ phase = "prove"

-----------------------------------------------------------------------------
(* The scan.                                                               *)

\* Mutant: an unreadable input always declines.
FailDeclines ==
  /\ done' = TRUE
  /\ step' = "decline"
  /\ UNCHANGED <<start, depth, offset, closed_a_value, emitted, cut>>

\* `fail`: nothing to share, or, after a first shard, serial's to report.
Fail ==
  /\ done' = TRUE
  /\ step' = IF emitted = 0 THEN "decline" ELSE "malformed"
  /\ UNCHANGED <<start, depth, offset, closed_a_value, emitted, cut>>

\* Mutant: the next shard begins where this one did.
EmitAgain(end) ==
  /\ cut' = [start |-> start, end |-> end]
  /\ UNCHANGED start
  /\ emitted' = emitted + 1
  /\ step' = "shard"

\* `emit`, and the start of the next shard.
Emit(end) ==
  /\ cut' = [start |-> start, end |-> end]
  /\ start' = end
  /\ emitted' = emitted + 1
  /\ step' = "shard"

Byte == input[offset + 1]

\* Inside the loop, with the probe limit respected.
Scanning ==
  /\ step = "scanning" /\ offset < Size
  /\ closed_a_value \/ offset < Probe

ProbeFails ==
  /\ step = "scanning" /\ offset < Size
  /\ ~closed_a_value /\ offset >= Probe
  /\ Fail

\* The quote at q is not itself escaped: an even run of backslashes before it.
Unescaped(q) ==
  \E n \in 0..Size :
    /\ 2 * n <= q - offset - 2
    /\ \A k \in (q - 2 * n)..(q - 1) : input[k] = "escape"
    /\ input[q - 2 * n - 1] # "escape"

\* Places of the quotes that may close the string opened at `offset`.
Closers == {q \in (offset + 2)..Size : input[q] = "quote" /\ Unescaped(q)}

\* skip_string.
ReadString ==
  /\ Scanning /\ Byte = "quote"
  /\ \E q \in Closers : (\A r \in Closers : q <= r) /\ offset' = q
  /\ UNCHANGED <<start, depth, closed_a_value, emitted, done, step, cut>>

StringUnclosed ==
  /\ Scanning /\ Byte = "quote"
  /\ Closers = {}
  /\ Fail

ReadOpen ==
  /\ Scanning /\ Byte = "open"
  /\ depth' = depth + 1
  /\ offset' = offset + 1
  /\ UNCHANGED <<start, closed_a_value, emitted, done, step, cut>>

CloseUnopened ==
  /\ Scanning /\ Byte = "close" /\ depth = 0
  /\ Fail

ShardTarget == IF start = 0 THEN FirstTarget ELSE Target

\* A cut is worth making: the shard is long enough and something follows it.
Reaches(end) == end - start >= ShardTarget /\ end < Size

ReadClose ==
  /\ Scanning /\ Byte = "close" /\ depth > 0
  /\ depth' = depth - 1
  /\ offset' = offset + 1
  /\ closed_a_value' = (closed_a_value \/ depth = 1)
  /\ IF depth = 1 /\ Reaches(offset + 1)
     THEN Emit(offset + 1)
     ELSE UNCHANGED <<start, emitted, step, cut>>
  /\ UNCHANGED done

Structural == {"quote", "open", "close"}

\* Mutant: a shard may also end after a bare word.
ReadOtherCutting ==
  /\ Scanning /\ Byte \notin Structural
  /\ offset' = offset + 1
  /\ IF depth = 0 /\ Byte = "digit" /\ Reaches(offset + 1)
     THEN Emit(offset + 1)
     ELSE UNCHANGED <<start, emitted, step, cut>>
  /\ UNCHANGED <<depth, closed_a_value, done>>

\* skip_to_structural.
ReadOther ==
  /\ Scanning /\ Byte \notin Structural
  /\ \E to \in (offset + 1)..Size :
       /\ \A k \in (offset + 2)..to : input[k] \notin Structural
       /\ to < Size => input[to + 1] \in Structural
       /\ offset' = to
  /\ UNCHANGED <<start, depth, closed_a_value, emitted, done, step, cut>>

EndUnclosed ==
  /\ step = "scanning" /\ offset = Size /\ depth # 0
  /\ Fail

\* Mutant: whatever follows the last close is taken for blank.
AnyTailIsBlank == TRUE

\* `is_ascii_whitespace` over what follows the last cut.
TailIsBlank == \A k \in (start + 1)..Size : input[k] \in {"space", "feed"}

EndTail ==
  /\ step = "scanning" /\ offset = Size /\ depth = 0
  /\ start < Size /\ ~(TailIsBlank /\ emitted > 0)
  /\ done' = TRUE
  /\ Emit(Size)
  /\ UNCHANGED <<depth, offset, closed_a_value>>

EndBlank ==
  /\ step = "scanning" /\ offset = Size /\ depth = 0
  /\ start = Size \/ (TailIsBlank /\ emitted > 0)
  /\ done' = TRUE
  /\ step' = "exhausted"
  /\ UNCHANGED <<start, depth, offset, closed_a_value, emitted, cut>>

Scan ==
  /\ \/ ProbeFails \/ ReadString \/ StringUnclosed \/ ReadOpen \/ CloseUnopened
     \/ ReadClose \/ ReadOther \/ EndUnclosed \/ EndTail \/ EndBlank
  /\ UNCHANGED <<input, pending, pulled, phase>>

-----------------------------------------------------------------------------
(* The callers.                                                            *)

\* `next`, called by prove_parallel below two cuts, by pull with none pending.
CallNext ==
  /\ step = "none"
  /\ \/ phase = "prove" /\ Len(pending) < 2
     \/ phase = "pull" /\ pending = <<>>
  /\ step' = IF done THEN "exhausted" ELSE "scanning"
  /\ UNCHANGED <<input, scanVars, cut, pending, pulled, phase>>

\* prove_parallel, inside partition_request.
ProveTakes ==
  /\ phase = "prove" /\ step \notin {"none", "scanning"}
  /\ IF step = "shard"
     THEN pending' = Append(pending, cut) /\ UNCHANGED phase
     ELSE phase' = "serial" /\ UNCHANGED pending
  /\ step' = "none"
  /\ UNCHANGED <<input, scanVars, cut, pulled>>

ProveHolds ==
  /\ phase = "prove" /\ step = "none" /\ Len(pending) = 2
  /\ phase' = "pull"
  /\ UNCHANGED <<input, scanVars, step, cut, pending, pulled>>

\* `pull`, from the two proven cuts first.
PullPending ==
  /\ phase = "pull" /\ step = "none" /\ pending # <<>>
  /\ pulled' = Append(pulled, Head(pending))
  /\ pending' = Tail(pending)
  /\ UNCHANGED <<input, scanVars, step, cut, phase>>

\* next_morsel: a decline is taken for the end of the source.
PullTakes ==
  /\ phase = "pull" /\ step \notin {"none", "scanning"}
  /\ pulled' = IF step = "shard" THEN Append(pulled, cut) ELSE pulled
  /\ phase' = CASE step = "shard" -> "pull"
                [] step = "malformed" -> "yield"
                [] OTHER -> "complete"
  /\ step' = "none"
  /\ UNCHANGED <<input, scanVars, cut, pending>>

Next == Scan \/ CallNext \/ ProveTakes \/ ProveHolds \/ PullPending \/ PullTakes

Spec == Init /\ [][Next]_vars

-----------------------------------------------------------------------------
(* Properties.                                                             *)

\* Every shard cut so far, in order, wherever it is by now.
AllShards == pulled \o pending \o (IF step = "shard" THEN <<cut>> ELSE <<>>)

ShardBytes(s) == SubSeq(input, s.start + 1, s.end)

Clean(s) == Accepts(ShardBytes(s))

\* Shards are nonempty, in order, without gap or overlap from the first byte on,
\* and whatever the relay has not yet been given is still to be scanned
\* (ValueShardScan.start, the two pending cuts, the pull that takes them first).
ShardsTile ==
  LET all == AllShards IN
  /\ Len(all) = emitted
  /\ \A i \in 1..Len(all) :
       /\ all[i].start < all[i].end
       /\ all[i].start = (IF i = 1 THEN 0 ELSE all[i - 1].end)
  /\ all # <<>> => all[Len(all)].end = start

\* The relay takes a declined scan for an exhausted one (next_morsel), which would
\* silently drop input; so the scan may not decline once it has cut a shard.
DeclineIsFirst == step = "decline" => emitted = 0 /\ phase = "prove"

\* A source that ends has handed over everything but a blank tail.
NothingDropped ==
  phase = "complete" =>
    /\ emitted >= 2
    /\ \A k \in (start + 1)..Size : input[k] \in {"space", "feed"}

LaneValues == FlattenSeq([i \in 1..Len(pulled) |-> ValuesFrom(ShardBytes(pulled[i]), pulled[i].start)])

\* Nothing but JSON's own whitespace is dropped behind the last shard.
NoFeedBehind == \A k \in (start + 1)..Size : input[k] # "feed"

\* The lane's lemma (boundary.rs, "The soundness argument"): if the drive reads
\* every shard to its end, serial reads the whole input, and the same values;
\* unless a form feed, which is blank to the scan alone, follows the last shard.
LaneReadsSerial ==
  phase = "complete" /\ NoFeedBehind /\ (\A i \in 1..Len(pulled) : Clean(pulled[i])) =>
    Accepts(input) /\ LaneValues = ValuesFrom(input, 0)

=============================================================================
