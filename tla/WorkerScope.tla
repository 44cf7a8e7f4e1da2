---------------------------- MODULE WorkerScope ----------------------------
(***************************************************************************)
(* Scoped native worker threads under a session permit ceiling             *)
(* (jqf-runtime/src/workers/native.rs and budget.rs).                      *)
(*                                                                         *)
(* A thread is named by the coordinator's task slot that owns its join     *)
(* handle: a spawned task is stored in a slot before anything else can     *)
(* happen, and leaves it only to be joined.  Of a worker's run the module  *)
(* keeps what the coordinator can observe: whether the body is still       *)
(* running, has set its `completed` flag, or has also woken the frontier   *)
(* and may be joined, and how the body ended.                              *)
(***************************************************************************)
EXTENDS Naturals

CONSTANTS
  Cap,       (* slots of the coordinator's task array                       *)
  Permits,   (* the most permits a session lends                            *)
  Outcomes,  (* how a worker's body can end                                 *)
  NONE       (* an empty slot                                               *)

ASSUME ScopeAssumption ==
  /\ Cap \in Nat \ {0}
  /\ Permits \in Nat
  /\ NONE \notin Outcomes

VARIABLES
  capacity,         (* WorkerBudget.capacity, fixed when the host is made   *)
  permitsInFlight,  (* WorkerBudget.in_flight                               *)
  cancelled,        (* NativeWorkerControl.cancelled                        *)
  thread,           (* per slot: where its thread is                        *)
  ended,            (* per slot: how its body ended                         *)
  signaled          (* FrontierWake.signaled                                *)

scopeVars == <<capacity, permitsInFlight, cancelled, thread, ended, signaled>>

Slots == 1..Cap

ThreadStates == {"none", "running", "flagged", "exited"}

ScopeTypeOK ==
  /\ capacity \in 0..Permits
  /\ permitsInFlight \in 0..capacity
  /\ cancelled \in BOOLEAN
  /\ thread \in [Slots -> ThreadStates]
  /\ ended \in [Slots -> Outcomes \cup {NONE}]
  /\ signaled \in BOOLEAN

ScopeInit(workers) ==
  /\ capacity = workers
  /\ permitsInFlight = 0
  /\ cancelled = FALSE
  /\ thread = [s \in Slots |-> "none"]
  /\ ended = [s \in Slots |-> NONE]
  /\ signaled = FALSE

-----------------------------------------------------------------------------
(* Coordinator side.                                                       *)

\* A permit is lent without waiting, never by a cancelled scope.
CanAcquire == ~cancelled /\ permitsInFlight < capacity

\* The permit moves into the task and the thread starts.
Spawn(s) ==
  /\ permitsInFlight' = permitsInFlight + 1
  /\ thread' = [thread EXCEPT ![s] = "running"]

\* `is_finished` reads the flag; it does not wait for the thread to exit.
IsFinished(s) == thread[s] \in {"flagged", "exited"}

\* Mutant: the permit is not given back.
JoinKeepingPermit(s) ==
  /\ thread[s] = "exited"
  /\ thread' = [thread EXCEPT ![s] = "none"]
  /\ ended' = [ended EXCEPT ![s] = NONE]
  /\ UNCHANGED permitsInFlight

\* `join` blocks until the thread has exited, then gives the permit back.
Join(s) ==
  /\ thread[s] = "exited"
  /\ thread' = [thread EXCEPT ![s] = "none"]
  /\ ended' = [ended EXCEPT ![s] = NONE]
  /\ permitsInFlight' = permitsInFlight - 1

\* `while !signaled.swap(false) { park() }`: the swap that ends the wait.
Unparked == signaled /\ signaled' = FALSE

-----------------------------------------------------------------------------
(* Worker side.  The body ends in any of `ends`; then NotifyOnDrop runs,   *)
(* on a return and on an unwinding panic alike.                            *)

EndBody(s, ends) ==
  /\ thread[s] = "running"
  /\ thread' = [thread EXCEPT ![s] = "flagged"]
  /\ \E e \in ends : ended' = [ended EXCEPT ![s] = e]
  /\ UNCHANGED <<capacity, permitsInFlight, cancelled, signaled>>

\* Mutant: only the flag is set, the coordinator is not signalled.
ExitSilently(s) ==
  /\ thread[s] = "flagged"
  /\ thread' = [thread EXCEPT ![s] = "exited"]
  /\ UNCHANGED <<capacity, permitsInFlight, cancelled, ended, signaled>>

WakeFrontier(s) ==
  /\ thread[s] = "flagged"
  /\ signaled' = TRUE
  /\ thread' = [thread EXCEPT ![s] = "exited"]
  /\ UNCHANGED <<capacity, permitsInFlight, cancelled, ended>>

=============================================================================
