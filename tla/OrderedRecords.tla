--------------------------- MODULE OrderedRecords ---------------------------
(***************************************************************************)
(* The ordered coordinator of jqf-runtime/src/workers/ordered.rs: units of *)
(* work go to worker threads and their results come back in dispatch       *)
(* order through a preallocated ring of `Cap` slots.                       *)
(*                                                                         *)
(* The module is the coordinator under ANY client that keeps its contract: *)
(* the client calls try_dispatch, finish_dispatch, poll_next,              *)
(* acknowledge_ready, cancel_and_drain and park_frontier in any order its  *)
(* last answer allows.  Workers run between any two steps.  A call that    *)
(* reads the workers more than once is split where it reads them:          *)
(* poll_next looks at one task slot per step, and a drain joins one task   *)
(* or drops one result per step.                                           *)
(***************************************************************************)
EXTENDS WorkerScope, FiniteSetsExt, Functions, Sequences

CONSTANTS
  Units,       (* what a client may hand to a worker                         *)
  CanEnd,      (* [Units -> SUBSET Outcomes]: how a worker on it may end     *)
  InputBytes,  (* [Units -> Nat]: payload span                               *)
  ResultBytes, (* [Units -> Nat]: exact capacity of the detached result      *)
  GrantBytes,  (* one worker's whole envelope                                *)
  OutputBytes, (* the envelope's output component                            *)
  MaxInput,    (* window.max_in_flight_input_bytes                           *)
  MaxResults,  (* window.max_reorder_result_bytes                            *)
  Headroom,    (* the parent's memory ceiling less what never moves          *)
  OwnBytes,    (* what else the coordinator may hold when it reserves        *)
  MaxOrdinal   (* bound: how many units a client dispatches                  *)

Clean == "record"
Terminals == {"diagnostics", "drive_failed", "unavailable"}
Faults == {"memory", "control", "panicked", "child_ledger", "worker_cancelled"}

\* What join_finished hands to the ring is a record or a terminal.
Slot == [ordinal : Nat, kind : {Clean} \cup Terminals]

ASSUME OrderedAssumption ==
  /\ NONE \notin Nat /\ NONE \notin Slot
  /\ Outcomes = {Clean} \cup Terminals \cup Faults
  /\ CanEnd \in [Units -> SUBSET Outcomes]
  /\ \A u \in Units : CanEnd[u] # {}
  /\ InputBytes \in [Units -> Nat]
  /\ ResultBytes \in [Units -> Nat]
  /\ \A u \in Units : ResultBytes[u] <= OutputBytes
  /\ GrantBytes \in Nat /\ OutputBytes \in 0..GrantBytes
  /\ MaxInput \in Nat \ {0} /\ MaxResults \in Nat \ {0}
  /\ Headroom \in Nat /\ OwnBytes \subseteq Nat
  /\ MaxOrdinal \in Nat

VARIABLES
  job,                    (* the units dispatched so far, by ordinal + 1     *)
  task,                   (* per task slot: the ordinal its worker runs      *)
  ready,                  (* the ordinal ring: joined, unreleased results    *)
  next_dispatch_ordinal,
  next_release_ordinal,
  in_flight_records,
  in_flight_input_bytes,
  reorder_result_bytes,
  active_tasks,
  ready_results,
  offered_slot,           (* ring index on offer, or NONE                    *)
  dispatch_finished,
  dispatch_closed,
  complete,
  cancelled_worker_panics,
  charged,                (* what grants and results hold on the parent      *)
  at,                     (* where the coordinator's thread is               *)
  cursor,                 (* the slot a poll or a drain looks at next: the   *)
                          (* task slots, then, for a drain, the ring slots   *)
  answer                  (* what the last call returned, or will            *)

counters == <<next_dispatch_ordinal, next_release_ordinal, in_flight_records,
              in_flight_input_bytes, reorder_result_bytes, active_tasks,
              ready_results>>
flags == <<dispatch_finished, dispatch_closed, complete>>
coordVars == <<job, task, ready, counters, offered_slot, flags,
               cancelled_worker_panics, charged, at, cursor, answer>>
vars == <<scopeVars, coordVars>>

Ring == 0..(Cap - 1)
Ordinals == 0..(MaxOrdinal - 1)
RingIndex(o) == o % Cap
JobOf(o) == job[o + 1]

Calls == {"started", "closed", "paused", "window_full", "no_permit",
          "pending", "ready", "complete", "acknowledged", "drained",
          "spawn_failed", "internal"}
Answers == {"none"} \cup Calls \cup Terminals \cup Faults

TypeOK ==
  /\ ScopeTypeOK
  /\ job \in Seq(Units)
  /\ task \in [Slots -> Nat \cup {NONE}]
  /\ ready \in [Ring -> Slot \cup {NONE}]
  /\ next_dispatch_ordinal \in Nat
  /\ next_release_ordinal \in Nat
  /\ in_flight_records \in 0..Cap
  /\ in_flight_input_bytes \in 0..MaxInput
  /\ reorder_result_bytes \in 0..MaxResults
  /\ active_tasks \in 0..Cap
  /\ ready_results \in 0..Cap
  /\ offered_slot \in Ring \cup {NONE}
  /\ dispatch_finished \in BOOLEAN
  /\ dispatch_closed \in BOOLEAN
  /\ complete \in BOOLEAN
  /\ cancelled_worker_panics \in Nat
  /\ charged \in 0..Headroom
  /\ at \in {"client", "scan", "frontier", "drain", "parked"}
  /\ cursor \in 1..(2 * Cap + 1)
  /\ answer \in Answers

InitWith(workers) ==
  /\ ScopeInit(workers)
  /\ job = <<>>
  /\ task = [s \in Slots |-> NONE]
  /\ ready = [i \in Ring |-> NONE]
  /\ next_dispatch_ordinal = 0
  /\ next_release_ordinal = 0
  /\ in_flight_records = 0
  /\ in_flight_input_bytes = 0
  /\ reorder_result_bytes = 0
  /\ active_tasks = 0
  /\ ready_results = 0
  /\ offered_slot = NONE
  /\ dispatch_finished = FALSE
  /\ dispatch_closed = FALSE
  /\ complete = FALSE
  /\ cancelled_worker_panics = 0
  /\ charged = 0
  /\ at = "client"
  /\ cursor = 1
  /\ answer = "none"

\* With no worker at all the region is never entered.
Init == \E workers \in 0..Permits : InitWith(workers)

-----------------------------------------------------------------------------
(* Pieces the calls share.                                                 *)

\* release_residency clamps: a release never takes the account below zero.
Released(bytes) == IF charged >= bytes THEN charged - bytes ELSE 0

\* What an adopted ring slot still holds on the parent's ledger.
HeldBy(slot) ==
  IF slot # NONE /\ slot.kind = Clean THEN ResultBytes[JobOf(slot.ordinal)] ELSE 0

\* A call that returns at once.
Return(a) == at' = "client" /\ answer' = a /\ UNCHANGED cursor

\* Mutant: the scope is cancelled and nothing is joined.
CancelOnly(why) == cancelled' = TRUE /\ Return(why)

\* A call that must cancel the scope and join every task before it returns.
StartDrain(why) ==
  /\ cancelled' = TRUE
  /\ at' = "drain"
  /\ cursor' = 1
  /\ answer' = why

-----------------------------------------------------------------------------
(* try_dispatch.                                                           *)

Closed == dispatch_closed \/ dispatch_finished \/ complete \/ cancelled

\* Mutant: the window counts running workers, not unreleased records.
FitsWorkers(u) ==
  /\ active_tasks + 1 <= Cap
  /\ in_flight_input_bytes + InputBytes[u] <= MaxInput

FitsWindow(u) ==
  /\ in_flight_records + 1 <= Cap
  /\ in_flight_input_bytes + InputBytes[u] <= MaxInput
  /\ reorder_result_bytes + OutputBytes <= MaxResults

FreeSlots == {s \in Slots : task[s] = NONE}

\* Mutant: the first slot, free or not.
FirstSlot == CHOOSE s \in Slots : \A t \in Slots : s <= t

\* `position(Option::is_none)`: the lowest free slot.
FirstFree == CHOOSE s \in FreeSlots : \A t \in FreeSlots : s <= t

\* The coordinator's own residency at this moment is `own`.
CanReserve(own) == charged + own + GrantBytes <= Headroom

Refuse(a) ==
  /\ Return(a)
  /\ UNCHANGED <<scopeVars, job, task, ready, counters, offered_slot, flags,
                 cancelled_worker_panics, charged>>

DispatchRefused(u, own) ==
  \/ Closed /\ Refuse("closed")
  \/ ~Closed /\ offered_slot # NONE /\ Refuse("paused")
  \/ /\ ~Closed /\ offered_slot = NONE
     /\ \/ ~FitsWindow(u) /\ Refuse("window_full")
        \/ FitsWindow(u) /\ FreeSlots # {} /\ ~CanAcquire /\ Refuse("no_permit")
        \/ /\ FitsWindow(u) /\ FreeSlots # {} /\ CanAcquire
           /\ ~CanReserve(own)
           /\ Refuse("window_full")

\* No free slot, or the operating system refuses a thread: the permit and the
\* reservation are dropped again and everything in flight is drained.
DispatchFails(u, own) ==
  /\ ~Closed /\ offered_slot = NONE /\ FitsWindow(u)
  /\ FreeSlots = {} \/ (CanAcquire /\ CanReserve(own))
  /\ StartDrain(IF FreeSlots = {} THEN "internal" ELSE "spawn_failed")
  /\ UNCHANGED <<capacity, permitsInFlight, thread, ended, signaled, job, task, ready,
                 counters, offered_slot, flags, cancelled_worker_panics, charged>>

DispatchStarts(u, own) ==
  /\ ~Closed /\ offered_slot = NONE /\ FitsWindow(u)
  /\ FreeSlots # {} /\ CanAcquire /\ CanReserve(own)
  /\ Spawn(FirstFree)
  /\ job' = Append(job, u)
  /\ task' = [task EXCEPT ![FirstFree] = next_dispatch_ordinal]
  /\ next_dispatch_ordinal' = next_dispatch_ordinal + 1
  /\ in_flight_records' = in_flight_records + 1
  /\ in_flight_input_bytes' = in_flight_input_bytes + InputBytes[u]
  /\ reorder_result_bytes' = reorder_result_bytes + OutputBytes
  /\ active_tasks' = active_tasks + 1
  /\ charged' = charged + GrantBytes
  /\ Return("started")
  /\ UNCHANGED <<capacity, cancelled, ended, signaled, ready, next_release_ordinal,
                 ready_results, offered_slot, flags, cancelled_worker_panics>>

Dispatch(u, own) ==
  /\ at = "client" /\ next_dispatch_ordinal < MaxOrdinal
  /\ DispatchRefused(u, own) \/ DispatchFails(u, own) \/ DispatchStarts(u, own)

FinishDispatch ==
  /\ at = "client"
  /\ dispatch_finished' = TRUE
  /\ Return("none")
  /\ UNCHANGED <<scopeVars, job, task, ready, counters, offered_slot,
                 dispatch_closed, complete, cancelled_worker_panics, charged>>

-----------------------------------------------------------------------------
(* poll_next: re-offer, or join what has finished, then read the frontier. *)

Poll ==
  /\ at = "client"
  /\ \/ offered_slot # NONE /\ Return("ready")
     \/ offered_slot = NONE /\ complete /\ Return("complete")
     \/ /\ offered_slot = NONE /\ ~complete
        /\ at' = "scan" /\ cursor' = 1 /\ UNCHANGED answer
  /\ UNCHANGED <<scopeVars, job, task, ready, counters, offered_slot, flags,
                 cancelled_worker_panics, charged>>

ScanSkip ==
  /\ at = "scan" /\ cursor \in Slots
  /\ task[cursor] = NONE \/ ~IsFinished(cursor)
  /\ cursor' = cursor + 1
  /\ UNCHANGED <<scopeVars, job, task, ready, counters, offered_slot, flags,
                 cancelled_worker_panics, charged, at, answer>>

\* What join_finished checks of the slot it has joined: the counts it gives
\* back do not underflow and the ring slot is free.
JoinIsSound ==
  /\ in_flight_input_bytes >= InputBytes[JobOf(task[cursor])]
  /\ active_tasks >= 1
  /\ ready[RingIndex(task[cursor])] = NONE

HasOutcome(s) == ended[s] \in {Clean} \cup Terminals

\* A finished worker with an ordered outcome: its task leaves the slot array and
\* its result enters the ring.  A clean result keeps its own bytes on the
\* ledger; a terminal gives the whole reservation back and closes dispatch.
JoinOutcome ==
  /\ at = "scan" /\ cursor \in Slots /\ task[cursor] # NONE
  /\ HasOutcome(cursor) /\ JoinIsSound
  /\ Join(cursor)
  /\ LET o == task[cursor]
         kept == IF ended[cursor] = Clean THEN ResultBytes[JobOf(o)] ELSE 0
     IN /\ ready' = [ready EXCEPT ![RingIndex(o)] = [ordinal |-> o, kind |-> ended[cursor]]]
        /\ in_flight_input_bytes' = in_flight_input_bytes - InputBytes[JobOf(o)]
        /\ charged' = Released(GrantBytes - kept)
  /\ task' = [task EXCEPT ![cursor] = NONE]
  /\ active_tasks' = active_tasks - 1
  /\ ready_results' = ready_results + 1
  /\ dispatch_closed' = (dispatch_closed \/ ended[cursor] \in Terminals)
  /\ cursor' = cursor + 1
  /\ UNCHANGED <<capacity, cancelled, signaled, job, next_dispatch_ordinal,
                 next_release_ordinal, in_flight_records, reorder_result_bytes,
                 offered_slot, dispatch_finished, complete,
                 cancelled_worker_panics, at, answer>>

\* A finished worker without one, or a broken count: the reservation is dropped
\* and the rest is drained.  What join_finished has subtracted by then does not
\* show: the drain resets every count before the call returns.
JoinFault ==
  /\ at = "scan" /\ cursor \in Slots /\ task[cursor] # NONE
  /\ ~(HasOutcome(cursor) /\ JoinIsSound)
  /\ Join(cursor)
  /\ StartDrain(IF HasOutcome(cursor) THEN "internal" ELSE ended[cursor])
  /\ task' = [task EXCEPT ![cursor] = NONE]
  /\ charged' = Released(GrantBytes)
  /\ UNCHANGED <<capacity, signaled, job, ready, counters, offered_slot, flags,
                 cancelled_worker_panics>>

ScanEnds ==
  /\ at = "scan" /\ cursor = Cap + 1
  /\ at' = "frontier"
  /\ UNCHANGED <<scopeVars, job, task, ready, counters, offered_slot, flags,
                 cancelled_worker_panics, charged, cursor, answer>>

\* checked_release_state.
ReleaseCounts ==
  /\ in_flight_records >= 1
  /\ reorder_result_bytes >= OutputBytes
  /\ ready_results >= 1

\* Mutant: the released result's buffer is kept.
ReleaseSlotKeepingBuffer(i) ==
  /\ ready' = [ready EXCEPT ![i] = NONE]
  /\ in_flight_records' = in_flight_records - 1
  /\ reorder_result_bytes' = reorder_result_bytes - OutputBytes
  /\ ready_results' = ready_results - 1
  /\ next_release_ordinal' = next_release_ordinal + 1
  /\ UNCHANGED <<charged, next_dispatch_ordinal, in_flight_input_bytes, active_tasks>>

ReleaseSlot(i) ==
  /\ ready' = [ready EXCEPT ![i] = NONE]
  /\ in_flight_records' = in_flight_records - 1
  /\ reorder_result_bytes' = reorder_result_bytes - OutputBytes
  /\ ready_results' = ready_results - 1
  /\ next_release_ordinal' = next_release_ordinal + 1
  /\ charged' = Released(HeldBy(ready[i]))
  /\ UNCHANGED <<next_dispatch_ordinal, in_flight_input_bytes, active_tasks>>

Frontier == RingIndex(next_release_ordinal)

FrontierEmpty ==
  /\ at = "frontier" /\ ready[Frontier] = NONE
  /\ LET done == dispatch_finished /\ in_flight_records = 0 IN
     /\ complete' = (complete \/ done)
     /\ Return(IF done THEN "complete" ELSE "pending")
  /\ UNCHANGED <<scopeVars, job, task, ready, counters, offered_slot,
                 dispatch_finished, dispatch_closed, cancelled_worker_panics, charged>>

InOrder == ready[Frontier].ordinal = next_release_ordinal

FrontierOffers ==
  /\ at = "frontier" /\ ready[Frontier] # NONE
  /\ InOrder /\ ready[Frontier].kind = Clean
  /\ offered_slot' = Frontier
  /\ Return("ready")
  /\ UNCHANGED <<scopeVars, job, task, ready, counters, flags,
                 cancelled_worker_panics, charged>>

\* release_terminal: the terminal leaves the ring, then everything after it is
\* cancelled and joined before the caller hears of it.  A noncontiguous slot or
\* an underflowing count drains without a release.
FrontierStops ==
  /\ at = "frontier" /\ ready[Frontier] # NONE
  /\ ~(InOrder /\ ready[Frontier].kind = Clean)
  /\ IF InOrder /\ ReleaseCounts
     THEN ReleaseSlot(Frontier) /\ StartDrain(ready[Frontier].kind)
     ELSE UNCHANGED <<ready, counters, charged>> /\ StartDrain("internal")
  /\ UNCHANGED <<capacity, permitsInFlight, thread, ended, signaled, job, task,
                 offered_slot, flags, cancelled_worker_panics>>

-----------------------------------------------------------------------------
(* acknowledge_ready, called with an offer pending.                        *)

Acknowledge ==
  /\ at = "client" /\ offered_slot # NONE
  /\ IF ReleaseCounts
     THEN /\ ReleaseSlot(offered_slot)
          /\ offered_slot' = NONE
          /\ Return("acknowledged")
          /\ UNCHANGED cancelled
     ELSE /\ StartDrain("internal")
          /\ UNCHANGED <<ready, counters, offered_slot, charged>>
  /\ UNCHANGED <<capacity, permitsInFlight, thread, ended, signaled, job, task,
                 flags, cancelled_worker_panics>>

-----------------------------------------------------------------------------
(* cancel_and_drain, by the client or by its drop.                         *)

CancelAndDrain ==
  /\ at = "client"
  /\ StartDrain("drained")
  /\ UNCHANGED <<capacity, permitsInFlight, thread, ended, signaled, job, task, ready,
                 counters, offered_slot, flags, cancelled_worker_panics, charged>>

DrainSkip ==
  /\ at = "drain" /\ cursor \in Slots /\ task[cursor] = NONE
  /\ cursor' = cursor + 1
  /\ UNCHANGED <<scopeVars, job, task, ready, counters, offered_slot, flags,
                 cancelled_worker_panics, charged, at, answer>>

\* Whatever the worker produced is dropped with its reservation; only a panic
\* is counted.
DrainJoin ==
  /\ at = "drain" /\ cursor \in Slots /\ task[cursor] # NONE
  /\ Join(cursor)
  /\ task' = [task EXCEPT ![cursor] = NONE]
  /\ cancelled_worker_panics' =
       cancelled_worker_panics + (IF ended[cursor] = "panicked" THEN 1 ELSE 0)
  /\ charged' = Released(GrantBytes)
  /\ cursor' = cursor + 1
  /\ UNCHANGED <<capacity, cancelled, signaled, job, ready, counters, offered_slot,
                 flags, at, answer>>

DrainDrop ==
  /\ at = "drain" /\ cursor \in (Cap + 1)..(2 * Cap)
  /\ ready' = [ready EXCEPT ![cursor - Cap - 1] = NONE]
  /\ charged' = Released(HeldBy(ready[cursor - Cap - 1]))
  /\ cursor' = cursor + 1
  /\ UNCHANGED <<scopeVars, job, task, counters, offered_slot, flags,
                 cancelled_worker_panics, at, answer>>

DrainEnds ==
  /\ at = "drain" /\ cursor = 2 * Cap + 1
  /\ in_flight_records' = 0
  /\ in_flight_input_bytes' = 0
  /\ reorder_result_bytes' = 0
  /\ active_tasks' = 0
  /\ ready_results' = 0
  /\ offered_slot' = NONE
  /\ dispatch_finished' = TRUE
  /\ dispatch_closed' = TRUE
  /\ complete' = TRUE
  /\ at' = "client"
  /\ UNCHANGED <<scopeVars, job, task, ready, next_dispatch_ordinal,
                 next_release_ordinal, cancelled_worker_panics, charged, cursor,
                 answer>>

-----------------------------------------------------------------------------
(* park_frontier.  A client parks on a pending answer while it has work in *)
(* flight; nobody would wake it otherwise.                                 *)

\* Mutant: a signal raised since the last poll is cleared before waiting.
ParkAfresh ==
  /\ at = "client" /\ answer = "pending" /\ in_flight_records > 0
  /\ at' = "parked" /\ signaled' = FALSE
  /\ UNCHANGED <<capacity, permitsInFlight, cancelled, thread, ended, job, task, ready,
                 counters, offered_slot, flags, cancelled_worker_panics, charged,
                 cursor, answer>>

Park ==
  /\ at = "client" /\ answer = "pending" /\ in_flight_records > 0
  /\ at' = "parked"
  /\ UNCHANGED <<scopeVars, job, task, ready, counters, offered_slot, flags,
                 cancelled_worker_panics, charged, cursor, answer>>

Unpark ==
  /\ at = "parked"
  /\ Unparked
  /\ Return("none")
  /\ UNCHANGED <<capacity, permitsInFlight, cancelled, thread, ended, job, task, ready,
                 counters, offered_slot, flags, cancelled_worker_panics, charged>>

-----------------------------------------------------------------------------
(* A worker's body ends as its unit allows, or, once the scope is          *)
(* cancelled, with the cause its next control check gives it.              *)

WorkerEnds(s) ==
  /\ task[s] # NONE
  /\ EndBody(s, CanEnd[JobOf(task[s])]
                  \cup (IF cancelled THEN {"drive_failed", "unavailable"} ELSE {}))
  /\ UNCHANGED coordVars

WorkerWakes(s) == WakeFrontier(s) /\ UNCHANGED coordVars

Worker == \E s \in Slots : WorkerEnds(s) \/ WorkerWakes(s)

PollSteps == \/ ScanSkip \/ JoinOutcome \/ JoinFault \/ ScanEnds
             \/ FrontierEmpty \/ FrontierOffers \/ FrontierStops

DrainSteps == DrainSkip \/ DrainJoin \/ DrainDrop \/ DrainEnds

Client ==
  \/ \E u \in Units, own \in OwnBytes : Dispatch(u, own)
  \/ FinishDispatch
  \/ Poll
  \/ Acknowledge
  \/ CancelAndDrain
  \/ Park

Next == Client \/ PollSteps \/ DrainSteps \/ Unpark \/ Worker

Spec == Init /\ [][Next]_vars

\* A call that has begun returns, and a worker's body ends: a morsel is finite
\* and its drive checks the control at every cooperative pause.
Fairness ==
  /\ WF_vars(PollSteps) /\ WF_vars(DrainSteps) /\ WF_vars(Unpark)
  /\ \A s \in Slots : WF_vars(WorkerEnds(s)) /\ WF_vars(WorkerWakes(s))

FairSpec == Spec /\ Fairness

-----------------------------------------------------------------------------
(* Properties.                                                             *)

Active == {s \in Slots : task[s] # NONE}
Filled == {i \in Ring : ready[i] # NONE}
Draining == at = "drain"

\* What each ring slot holds on the parent's ledger, and the input each task
\* slot's worker was handed.
RingBytes == [i \in Ring |-> HeldBy(ready[i])]
TaskBytes == [s \in Slots |-> IF task[s] = NONE THEN 0 ELSE InputBytes[JobOf(task[s])]]

\* Every ordinal dispatched and not yet released is in exactly one place: one
\* task slot, or its own ring slot; nothing else is anywhere, and
\* in_flight_records is how many there are.  (try_dispatch, join_finished and
\* acknowledge_ready each move one ordinal; a collision or a gap would publish
\* results out of order.)
InFlightExact ==
  ~Draining =>
    LET window == IF complete THEN {} ELSE next_release_ordinal..(next_dispatch_ordinal - 1)
        running == {task[s] : s \in Active}
        waiting == {ready[i].ordinal : i \in Filled}
    IN /\ running \cup waiting = window
       /\ running \cap waiting = {}
       /\ \A s, t \in Active : task[s] = task[t] => s = t
       /\ \A i \in Filled : RingIndex(ready[i].ordinal) = i
       /\ in_flight_records = Cardinality(window)

\* The parent ledger holds one envelope per unjoined worker and the exact result
\* bytes of each unreleased clean result; at every moment, the drains of an error
\* path included.  (The reservation moves from task slot to worker to ring slot;
\* each early return must drop it once.)  Until a drain the counters the window is
\* judged by are the sums over what is really in flight: a leak would shrink the
\* window for good, a double release would overrun it.
LedgerExact ==
  /\ charged = GrantBytes * Cardinality(Active) + SumFunctionOnSet(RingBytes, Ring)
  /\ ~Draining =>
       /\ in_flight_input_bytes = SumFunctionOnSet(TaskBytes, Slots)
       /\ reorder_result_bytes = OutputBytes * in_flight_records
       /\ active_tasks = Cardinality(Active)
       /\ ready_results = Cardinality(Filled)

\* A permit is out exactly for each worker not yet joined, and a worker unjoined
\* exactly while a task slot owns its handle: no drain, fault or panic strands
\* either one (WorkerPermit and NativeWorkerTask's drops).
PermitsExact ==
  /\ permitsInFlight = Cardinality(Active)
  /\ \A s \in Slots : (task[s] = NONE) <=> (thread[s] = "none")

\* No call ever reports InternalContract: the ring never collides, the frontier
\* slot never holds another generation, a permitted dispatch always finds a task
\* slot, and no checked counter underflows.
NoContractError == answer # "internal"

\* No wakeup is lost: a parked coordinator has been signalled, or some worker
\* has still to run NotifyOnDrop.
NoLostWakeup ==
  at = "parked" /\ ~signaled =>
    \E s \in Slots : task[s] # NONE /\ thread[s] \in {"running", "flagged"}

\* From the first terminal or failure on, no result is released and no worker is
\* started: what follows the stop is never offered.
NothingAfterStop ==
  [][cancelled => /\ next_release_ordinal' = next_release_ordinal
                  /\ next_dispatch_ordinal' = next_dispatch_ordinal
                  /\ offered_slot' \in {offered_slot, NONE}]_vars

\* A poll or a drain that has begun returns, and a parked coordinator runs again,
\* even if the client does nothing else.
CallsReturn == at # "client" ~> at = "client"

=============================================================================
