----------------------------- MODULE TaskGrants -----------------------------
(***************************************************************************)
(* Worker envelopes on the request's ledger (jqf-resource/src/task.rs, with*)
(* the charges of ambient.rs and allocation.rs).                           *)
(*                                                                         *)
(* The coordinator mints an envelope, charging the whole of it to the      *)
(* request; the worker opens a ledger of its own from the numbers, makes   *)
(* one result, and may detach it only when nothing else is live.  Adoption *)
(* shrinks the hold to the result.  No ledger is shared by two threads, so *)
(* a call is one step.                                                     *)
(***************************************************************************)
EXTENDS RequestLedger, FiniteSets, Functions

CONSTANTS
  Grants,       (* envelopes out at one time; a spent one may be minted anew *)
  Parent,       (* the request                                               *)
  NONE,
  Envelope,     (* TaskGrantLimits                                           *)
  MemoryLimit,  (* the request's ceiling                                     *)
  LedgerBytes,  (* minimum_memory_bytes                                      *)
  Sizes,        (* what an allocation may ask for                            *)
  ForeignSizes, (* what a free that was never charged here may give back     *)
  MaxLive       (* bound: ordinary bytes of one account in one category      *)

\* DetachedTaskBuffer, and AdoptedResultBuffer once `kept` is a number.
Buffer == [bytes : Nat, died : BOOLEAN, kept : Nat \cup {NONE}]

ASSUME GrantsAssumption ==
  /\ Parent \notin Grants /\ IsFiniteSet(Grants)
  /\ NONE \notin Nat /\ NONE \notin Buffer
  /\ Envelope \in [retained : Nat, working : Nat, pendingIo : Nat, output : Nat]
  /\ MemoryLimit \in Nat /\ LedgerBytes \in Nat
  /\ LedgerBytes <= MemoryLimit /\ LedgerBytes <= Envelope.retained
  /\ Sizes \subseteq Nat \ {0} /\ ForeignSizes \subseteq Nat \ {0} /\ MaxLive \in Nat

VARIABLES
  ledger,   (* the request's and the workers' ledgers                        *)
  tripped,  (* AccountState::tripped                                         *)
  live,     (* the ordinary storage each account's thread holds              *)
  worker,   (* an envelope's worker half: budget, open child, or none        *)
  slot,     (* the account in the ambient slot of its thread                 *)
  output,   (* capacity of the child's TaskOutputBuffer                      *)
  hold,     (* TaskGrantReservation::charged                                 *)
  result,   (* the detached or adopted buffer                                *)
  foreign   (* history: the account was given back bytes it never charged    *)

vars == <<ledger, tripped, live, worker, slot, output, hold, result, foreign>>

Accounts == Grants \cup {Parent}
EnvelopeBytes == Envelope.retained + Envelope.working + Envelope.pendingIo + Envelope.output

\* ResourceLimits::task: the result counts against the child's pending bytes.
LimitsOf(a) ==
  IF a = Parent THEN RequestLimits(MemoryLimit)
  ELSE [memory |-> EnvelopeBytes, retained |-> Envelope.retained, working |-> Envelope.working,
        pendingIo |-> Envelope.pendingIo + Envelope.output]

TypeOK ==
  /\ ledger \in [Accounts -> Ledger]
  /\ tripped \in [Accounts -> BOOLEAN]
  /\ live \in [Accounts -> [Category -> Nat]]
  /\ worker \in [Grants -> {"none", "budget", "open"}]
  /\ slot \in [Grants -> Accounts] /\ \A g \in Grants : slot[g] \in {g, Parent}
  /\ output \in [Grants -> Nat \cup {NONE}]
  /\ hold \in [Grants -> Nat \cup {NONE}]
  /\ result \in [Grants -> Buffer \cup {NONE}]
  /\ foreign \in [Accounts -> BOOLEAN]

Nothing == [c \in Category |-> 0]

Init ==
  /\ ledger = [a \in Accounts |-> Opened(LedgerBytes)]
  /\ tripped = [a \in Accounts |-> FALSE]
  /\ live = [a \in Accounts |-> Nothing]
  /\ worker = [g \in Grants |-> "none"]
  /\ slot = [g \in Grants |-> g]
  /\ output = [g \in Grants |-> NONE]
  /\ hold = [g \in Grants |-> NONE]
  /\ result = [g \in Grants |-> NONE]
  /\ foreign = [a \in Accounts |-> FALSE]

-----------------------------------------------------------------------------
(* The allocator, on the thread whose slot holds account a.                *)

\* Accounts that some thread has in its slot.
Current == {Parent} \cup {g \in Grants : worker[g] = "open"}

\* charge_bytes: a refusal is latched on the ledger.
Allocate(a, c, n) ==
  /\ live[a][c] + n <= MaxLive
  /\ IF Admits(ledger[a], LimitsOf(a), c, n)
     THEN /\ ledger' = [ledger EXCEPT ![a] = Charged(ledger[a], c, n)]
          /\ live' = [live EXCEPT ![a] = [live[a] EXCEPT ![c] = @ + n]]
          /\ UNCHANGED tripped
     ELSE tripped' = [tripped EXCEPT ![a] = TRUE] /\ UNCHANGED <<ledger, live>>
  /\ UNCHANGED <<worker, slot, output, hold, result, foreign>>

Deallocate(a, c, n) ==
  /\ n <= live[a][c]
  /\ ledger' = [ledger EXCEPT ![a] = Released(ledger[a], c, n)]
  /\ live' = [live EXCEPT ![a] = [live[a] EXCEPT ![c] = @ - n]]
  /\ UNCHANGED <<tripped, worker, slot, output, hold, result, foreign>>

\* Storage from before the scope, or from another account's thread: the release
\* takes what it finds in the category.
DeallocateForeign(a, n) ==
  /\ ledger' = [ledger EXCEPT ![a] = Released(ledger[a], "Working", n)]
  /\ foreign' = [foreign EXCEPT ![a] = TRUE]
  /\ UNCHANGED <<tripped, live, worker, slot, output, hold, result>>

Allocator ==
  \E a \in Current :
    \/ \E c \in Category, n \in Sizes : Allocate(a, c, n) \/ Deallocate(a, c, n)
    \/ \E n \in ForeignSizes : DeallocateForeign(a, n)

-----------------------------------------------------------------------------
(* The worker.                                                             *)

\* The numbers alone cross; the ledger is opened on the worker's thread, which
\* installs it, or on the request's own, which need not.
OpenChild(g) ==
  /\ worker[g] = "budget"
  /\ worker' = [worker EXCEPT ![g] = "open"]
  /\ \E a \in {g, Parent} : slot' = [slot EXCEPT ![g] = a]
  /\ ledger' = [ledger EXCEPT ![g] = Opened(LedgerBytes)]
  /\ UNCHANGED <<tripped, live, output, hold, result, foreign>>

\* TaskOutputBuffer::try_with_capacity: one to a child.
MakeOutput(g, capacity) ==
  /\ worker[g] = "open" /\ output[g] = NONE
  /\ capacity <= Envelope.output
  /\ LET a == slot[g]
     IN  IF Admits(ledger[a], LimitsOf(a), "PendingIo", capacity)
         THEN /\ ledger' = [ledger EXCEPT ![a] = Charged(ledger[a], "PendingIo", capacity)]
              /\ output' = [output EXCEPT ![g] = capacity]
              /\ UNCHANGED tripped
         ELSE tripped' = [tripped EXCEPT ![a] = TRUE] /\ UNCHANGED <<ledger, output>>
  /\ UNCHANGED <<live, worker, slot, hold, result, foreign>>

\* Mutant: the pending bytes are not looked at.
QuietUnbounded(l, capacity) ==
  /\ l.cur["Retained"] = LedgerBytes
  /\ l.cur["Working"] = 0 /\ l.cur["Diagnostic"] = 0

\* verify_child_quiescence.
Quiet(l, capacity) ==
  /\ l.cur["Retained"] = LedgerBytes
  /\ l.cur["Working"] = 0 /\ l.cur["Diagnostic"] = 0
  /\ l.total <= LedgerBytes + capacity

\* The child ledger goes, and what was live on it with it; `spare` bytes of the
\* result's storage are given back to the ledger they were charged to.
CloseChild(g, spare) ==
  LET given == [ledger EXCEPT ![slot[g]] = Released(ledger[slot[g]], "PendingIo", spare)]
  IN  /\ ledger' = [given EXCEPT ![g] = Opened(LedgerBytes)]
      /\ tripped' = [tripped EXCEPT ![g] = FALSE]
      /\ live' = [live EXCEPT ![g] = Nothing]
      /\ foreign' = [foreign EXCEPT ![g] = FALSE]
      /\ worker' = [worker EXCEPT ![g] = "none"]
      /\ output' = [output EXCEPT ![g] = NONE]

\* detach_result shrinks the buffer to what was written.  An empty one belongs to
\* no ledger.
Detach(g) ==
  /\ worker[g] = "open" /\ output[g] # NONE
  /\ ~tripped[g] /\ Quiet(ledger[g], output[g])
  /\ \E written \in 0..output[g] :
       /\ CloseChild(g, output[g] - written)
       /\ result' = [result EXCEPT ![g] =
                       [bytes |-> written, died |-> output[g] > 0 /\ slot[g] = g, kept |-> NONE]]
  /\ UNCHANGED <<slot, hold>>

\* A refused detach, a failed drive, a panic, a budget never used.
Abandon(g) ==
  /\ worker[g] # "none"
  /\ CloseChild(g, IF output[g] = NONE THEN 0 ELSE output[g])
  /\ UNCHANGED <<slot, hold, result>>

-----------------------------------------------------------------------------
(* The coordinator.                                                        *)

\* reserve_task_grant: an explicit charge, so a refusal is not latched.
Reserve(g) ==
  /\ hold[g] = NONE /\ worker[g] = "none" /\ result[g] = NONE
  /\ Admits(ledger[Parent], LimitsOf(Parent), "Working", EnvelopeBytes)
  /\ ledger' = [ledger EXCEPT ![Parent] = Charged(ledger[Parent], "Working", EnvelopeBytes)]
  /\ hold' = [hold EXCEPT ![g] = EnvelopeBytes]
  /\ worker' = [worker EXCEPT ![g] = "budget"]
  /\ UNCHANGED <<tripped, live, slot, output, result, foreign>>

\* Mutant: the worker may still be running.
DropHoldEarly(g) ==
  /\ hold[g] # NONE /\ result[g] = NONE
  /\ ledger' = [ledger EXCEPT ![Parent] = Released(ledger[Parent], "Working", hold[g])]
  /\ hold' = [hold EXCEPT ![g] = NONE]
  /\ UNCHANGED <<tripped, live, worker, slot, output, result, foreign>>

\* The coordinator gives a hold up when the worker is joined, its result dropped.
DropHold(g) ==
  /\ hold[g] # NONE /\ worker[g] = "none" /\ result[g] = NONE
  /\ ledger' = [ledger EXCEPT ![Parent] = Released(ledger[Parent], "Working", hold[g])]
  /\ hold' = [hold EXCEPT ![g] = NONE]
  /\ UNCHANGED <<tripped, live, worker, slot, output, result, foreign>>

\* Mutant: the bytes are given back to whoever drops them.
WithoutBufferStealing(l, g) == Released(l, "PendingIo", result[g].bytes)

\* drop_result_bytes: a charge that died with its ledger is not given back.
WithoutBuffer(l, g) ==
  IF result[g].died THEN l ELSE Released(l, "PendingIo", result[g].bytes)

\* Mutant: the whole hold is given up.
AdoptReleasesAll(g) ==
  /\ hold[g] # NONE /\ result[g] # NONE /\ result[g].kept = NONE
  /\ ledger' = [ledger EXCEPT ![Parent] = Released(ledger[Parent], "Working", hold[g])]
  /\ result' = [result EXCEPT ![g] = [bytes |-> result[g].bytes, died |-> result[g].died, kept |-> 0]]
  /\ hold' = [hold EXCEPT ![g] = NONE]
  /\ UNCHANGED <<tripped, live, worker, slot, output, foreign>>

\* TaskGrantReservation::adopt, of the worker's own result.
Adopt(g) ==
  /\ hold[g] # NONE /\ result[g] # NONE /\ result[g].kept = NONE
  /\ LET kept == Lower(result[g].bytes, hold[g])
     IN  /\ ledger' = [ledger EXCEPT ![Parent] = Released(ledger[Parent], "Working", hold[g] - kept)]
         /\ result' = [result EXCEPT ![g] =
                         [bytes |-> result[g].bytes, died |-> result[g].died, kept |-> kept]]
  /\ hold' = [hold EXCEPT ![g] = NONE]
  /\ UNCHANGED <<tripped, live, worker, slot, output, foreign>>

\* Of another's: both are dropped, the buffer first.
AdoptCrossed(g, h) ==
  /\ g # h /\ hold[g] # NONE /\ worker[g] = "none" /\ result[g] = NONE
  /\ result[h] # NONE /\ result[h].kept = NONE
  /\ ledger' = [ledger EXCEPT ![Parent] = Released(WithoutBuffer(ledger[Parent], h), "Working", hold[g])]
  /\ hold' = [hold EXCEPT ![g] = NONE]
  /\ result' = [result EXCEPT ![h] = NONE]
  /\ UNCHANGED <<tripped, live, worker, slot, output, foreign>>

\* DetachedTaskBuffer::drop and AdoptedResultBuffer::drop.
DropResult(g) ==
  /\ result[g] # NONE
  /\ LET kept == IF result[g].kept = NONE THEN 0 ELSE result[g].kept
     IN  ledger' = [ledger EXCEPT ![Parent] = Released(WithoutBuffer(ledger[Parent], g), "Working", kept)]
  /\ result' = [result EXCEPT ![g] = NONE]
  /\ UNCHANGED <<tripped, live, worker, slot, output, hold, foreign>>

-----------------------------------------------------------------------------

Next ==
  \/ Allocator
  \/ \E g \in Grants :
       \/ Reserve(g) \/ OpenChild(g) \/ Detach(g) \/ Abandon(g)
       \/ DropHold(g) \/ Adopt(g) \/ DropResult(g)
       \/ \E n \in Sizes \cup {0} : MakeOutput(g, n)
       \/ \E h \in Grants : AdoptCrossed(g, h)

Spec == Init /\ [][Next]_vars

-----------------------------------------------------------------------------
(* Properties.                                                             *)

\* No ledger, the request's or a worker's, ever disagrees with its categories or
\* passes a ceiling, whatever is freed on it.
LedgersSound == \A a \in Accounts : Sound(ledger[a], LimitsOf(a))

\* A worker can never have charged more than its envelope, nor a result hold more
\* than is kept for it: what is out is covered on the request's ledger.
CoveredByHold ==
  \A g \in Grants :
    /\ worker[g] = "open" => hold[g] # NONE /\ ledger[g].total <= hold[g]
    /\ result[g] # NONE =>
         result[g].bytes <= IF result[g].kept = NONE THEN Envelope.output ELSE result[g].kept

\* The quiescence check refuses exactly the children with something left: a leak
\* is seen in every category, and a clean worker is never refused.
QuietIsExact ==
  \A g \in Grants :
    worker[g] = "open" /\ slot[g] = g /\ output[g] # NONE /\ ~foreign[g]
      => (Quiet(ledger[g], output[g]) <=> live[g] = Nothing)

Bytes(x) == IF x = NONE THEN 0 ELSE x
Held(g) == Bytes(hold[g]) + (IF result[g] = NONE THEN 0 ELSE Bytes(result[g].kept))
Made(g) == Bytes(output[g]) + (IF result[g] = NONE THEN 0 ELSE result[g].bytes)

\* What of g's result is charged to the request.
OnParent(g) ==
  (IF slot[g] = Parent THEN Bytes(output[g]) ELSE 0)
    + (IF result[g] # NONE /\ ~result[g].died THEN result[g].bytes ELSE 0)

HeldBytes == [g \in Grants |-> Held(g)]
ParentBytes == [g \in Grants |-> OnParent(g)]

\* Each category of the request's ledger is exactly what its thread holds and
\* what its workers' envelopes and results stand for: every path an envelope may
\* end on gives back what it took (CONTRACTS.md, "every terminal path").
ParentExact ==
  ~foreign[Parent] =>
    ledger[Parent].cur =
      [c \in Category |->
         live[Parent][c] +
         CASE c = "Retained" -> LedgerBytes
           [] c = "Working" -> SumFunctionOnSet(HeldBytes, Grants)
           [] c = "Diagnostic" -> 0
           [] c = "PendingIo" -> SumFunctionOnSet(ParentBytes, Grants)]

Storage(a) ==
  LedgerBytes + live[a]["Retained"] + live[a]["Working"] + live[a]["Diagnostic"] + live[a]["PendingIo"]

\* The storage of g's worker, if it runs, and of its result.
GrantStorage ==
  [g \in Grants |-> (IF worker[g] = "open" THEN Storage(g) ELSE 0) + Made(g)]

\* The request and its workers together never hold more memory than the ceiling,
\* though each charges a ledger the others cannot see.
CeilingBindsAll ==
  (\A a \in Accounts : ~foreign[a]) =>
    Storage(Parent) + SumFunctionOnSet(GrantStorage, Grants) <= MemoryLimit

=============================================================================
