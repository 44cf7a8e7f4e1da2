------------------------- MODULE MorselRelayProofs -------------------------
(***************************************************************************)
(* Proofs about the ordered coordinator, for every ring size, permit       *)
(* ceiling, window, unit and outcome, and about the relay, for every       *)
(* source as well.  The coordinator's come first, and are of its own       *)
(* specification.  The relay's steps are steps of the coordinator under a  *)
(* client that keeps the contract, so what is proved of the coordinator    *)
(* holds of it; and each is a step of the serial stream, or none that its  *)
(* caller sees.                                                            *)
(***************************************************************************)
EXTENDS MorselRelay, FoldLemmas

-----------------------------------------------------------------------------
(* The inductive invariant.                                                *)

Window == next_release_ordinal..(next_dispatch_ordinal - 1)

\* What threads, permits and handles say of each other.
PermitInv ==
  /\ PermitsExact
  /\ \A s \in Slots : thread[s] \in {"flagged", "exited"} => ended[s] \in Outcomes

\* Where the ordinals are: in the window, each in one place.
PlaceInv ==
  /\ next_dispatch_ordinal = Len(job)
  /\ next_release_ordinal <= next_dispatch_ordinal
  /\ \A s \in Active : task[s] \in Window
  /\ \A i \in Filled : ready[i].ordinal \in Window /\ RingIndex(ready[i].ordinal) = i
  /\ \A s, t \in Active : task[s] = task[t] => s = t
  /\ \A s \in Active, i \in Filled : task[s] # ready[i].ordinal

\* Until a drain begins no ordinal of the window is missing.
NoneMissing ==
  at # "drain" /\ ~complete =>
    /\ in_flight_records = next_dispatch_ordinal - next_release_ordinal
    /\ \A o \in Window : \/ \E s \in Active : task[s] = o
                         \/ \E i \in Filled : ready[i].ordinal = o

\* What the counts say of each other.
CountInv ==
  /\ active_tasks + ready_results = in_flight_records
  /\ at # "drain" => active_tasks = Cardinality(Active)

\* An offer is the clean result at the frontier.
OfferInv ==
  at # "drain" /\ offered_slot # NONE =>
    /\ offered_slot = Frontier /\ ready[Frontier] # NONE
    /\ InOrder /\ ready[Frontier].kind = Clean
    /\ at = "client" /\ ~complete

CompleteInv ==
  complete => /\ Active = {} /\ Filled = {} /\ in_flight_records = 0
              /\ at \in {"client", "drain"}

Waiting == (at = "client" /\ answer = "pending") \/ at = "parked"

\* Nothing is ready for a caller that has been told to wait, or waits.
PendingInv ==
  /\ Waiting => offered_slot = NONE /\ ready[Frontier] = NONE /\ ~complete
  /\ at = "parked" => in_flight_records > 0

CursorInv ==
  /\ at = "scan" => cursor <= Cap + 1
  /\ at = "drain" => \A s \in Slots : s < cursor => task[s] = NONE
  /\ at = "drain" => \A i \in Ring : i + Cap + 1 < cursor => ready[i] = NONE
  /\ at = "drain" => answer # "pending" /\ cancelled

\* A task whose worker has exited without having been looked at since.
Unheard(s) == task[s] # NONE /\ thread[s] = "exited"

\* Such a worker has left its signal.
WakeInv ==
  ~signaled =>
    /\ at = "scan" => \A s \in Slots : s < cursor => ~Unheard(s)
    /\ at = "frontier" \/ Waiting => \A s \in Slots : ~Unheard(s)

\* A cancelled scope is being drained or has been.
StopInv == cancelled => at = "drain" \/ complete

IndInv ==
  /\ TypeOK /\ PermitInv /\ PlaceInv /\ NoneMissing /\ CountInv /\ OfferInv
  /\ CompleteInv /\ PendingInv /\ CursorInv /\ WakeInv /\ StopInv

-----------------------------------------------------------------------------
(* Facts about the ring and the task array.                                *)

\* Two ordinals of one ring revolution have different ring slots.
LEMMA RingInjective ==
  ASSUME NEW a \in Nat, NEW b \in Nat, RingIndex(a) = RingIndex(b),
         a - b < Cap, b - a < Cap
  PROVE  a = b
<1>1. Cap \in Nat \ {0}
  BY ScopeAssumption
<1>2. a = Cap * (a \div Cap) + (a % Cap) /\ b = Cap * (b \div Cap) + (b % Cap)
  BY <1>1
<1>3. a \div Cap \in Int /\ b \div Cap \in Int
  BY <1>1
<1> DEFINE k == (a \div Cap) - (b \div Cap)
<1>4. a - b = Cap * k
  BY <1>1, <1>2, <1>3 DEF RingIndex
<1>5. \A n \in Int : (n >= 1 => Cap * n >= Cap) /\ (n <= -1 => Cap * n <= -Cap)
  BY <1>1
<1>6. k = 0
  BY <1>1, <1>3, <1>4, <1>5
<1> QED
  BY <1>1, <1>4, <1>6

\* A ring index is one.
LEMMA RingIndexInRing ==
  ASSUME NEW o \in Nat
  PROVE  RingIndex(o) \in Ring
  BY ScopeAssumption DEF RingIndex, Ring

\* The slots are a finite set of Cap members, and so is any part of them.
LEMMA SlotsFinite ==
  /\ IsFiniteSet(Slots) /\ Cardinality(Slots) = Cap
  /\ \A S \in SUBSET Slots : IsFiniteSet(S) /\ Cardinality(S) \in 0..Cap
<1>1. IsFiniteSet(Slots) /\ Cardinality(Slots) = Cap
  BY ScopeAssumption, FS_Interval DEF Slots
<1>2. ASSUME NEW S \in SUBSET Slots
      PROVE  IsFiniteSet(S) /\ Cardinality(S) \in 0..Cap
  BY <1>1, FS_Subset, FS_CardinalityType, ScopeAssumption
<1> QED
  BY <1>1, <1>2

-----------------------------------------------------------------------------
(* Type correctness is inductive beside the places, permits and counts.    *)

\* What a task or a ring slot holds names a unit, and its bytes are a number.
LEMMA JobTyped ==
  ASSUME TypeOK, PlaceInv
  PROVE  /\ \A s \in Active : JobOf(task[s]) \in Units
         /\ \A i \in Filled : JobOf(ready[i].ordinal) \in Units
         /\ \A i \in Ring : HeldBy(ready[i]) \in Nat
<1>1. \A o \in Window : JobOf(o) \in Units
  BY DEF TypeOK, PlaceInv, Window, JobOf
<1>2. \A i \in Filled : JobOf(ready[i].ordinal) \in Units
  BY <1>1 DEF PlaceInv
<1>3. \A i \in Ring : HeldBy(ready[i]) \in Nat
  BY <1>2, OrderedAssumption DEF HeldBy, Filled, TypeOK
<1> QED
  BY <1>1, <1>2, <1>3 DEF PlaceInv

\* A release of a number of bytes keeps the ledger within its bounds.
LEMMA ReleasedTyped ==
  ASSUME TypeOK, NEW bytes \in Nat
  PROVE  Released(bytes) \in 0..Headroom
  BY OrderedAssumption DEF TypeOK, Released

\* A worker that has exited has an outcome, and its permit is still out.
LEMMA ExitedTyped ==
  ASSUME TypeOK, PermitInv, NEW s \in Slots, thread[s] = "exited"
  PROVE  ended[s] \in Outcomes /\ permitsInFlight >= 1
<1>1. s \in Active
  BY DEF PermitInv, PermitsExact, Active
<1>2. Cardinality(Active) # 0
  BY <1>1, SlotsFinite, FS_EmptySet DEF Active
<1> QED
  BY <1>2 DEF PermitInv, PermitsExact, TypeOK, ScopeTypeOK

\* A dispatch that fits the window finds a free slot.
LEMMA RoomInTasks ==
  ASSUME TypeOK, CountInv, at # "drain", in_flight_records + 1 <= Cap
  PROVE  FreeSlots # {}
<1>1. Cardinality(Active) < Cap
  BY ScopeAssumption DEF TypeOK, CountInv
<1>2. Active # Slots
  BY <1>1, SlotsFinite, ScopeAssumption
<1> QED
  BY <1>2 DEF Active, FreeSlots

\* The first free slot is one, when there is any.
LEMMA FirstFreeIsFree ==
  ASSUME FreeSlots # {}
  PROVE  FirstFree \in FreeSlots
<1>1. FreeSlots \subseteq Nat
  BY DEF FreeSlots, Slots
<1> DEFINE Less == {p \in Nat \X Nat : p[1] < p[2]}
<1>2. IsWellFoundedOn(Less, Nat)
  BY NatLessThanWellFounded, Zenon DEF OpToRel
<1>3. PICK s \in FreeSlots : \A t \in FreeSlots : <<t, s>> \notin Less
  BY <1>1, <1>2, WFMin
<1>4. \A m, n \in Nat : m < n => <<m, n>> \in Less
  OBVIOUS
<1>5. s \in Nat /\ \A t \in FreeSlots : t \in Nat /\ ~(t < s)
  BY <1>1, <1>3, <1>4
<1>6. \A t \in FreeSlots : s <= t
  BY <1>5
<1> QED
  BY <1>6 DEF FirstFree

\* Every step keeps every variable in its type.
LEMMA TypeStep ==
  ASSUME TypeOK, PermitInv, PlaceInv, CountInv, [Next]_vars
  PROVE  TypeOK'
<1> USE DEF counters, flags, coordVars, scopeVars, vars
<1>0. Cap \in Nat \ {0} /\ (1..Cap) = Slots
  BY ScopeAssumption DEF Slots
<1>00. ASSUME NEW s \in Slots, Join(s), UNCHANGED <<capacity, signaled>>,
              cancelled' \in BOOLEAN
       PROVE  ScopeTypeOK'
  <2>1. permitsInFlight >= 1
    BY <1>00, ExitedTyped DEF Join
  <2> QED
    BY <1>00, <2>1, ScopeAssumption DEF Join, TypeOK, ScopeTypeOK, ThreadStates
<1>1. ASSUME NEW u \in Units, NEW own \in OwnBytes, DispatchRefused(u, own)
      PROVE  TypeOK'
  BY <1>1 DEF DispatchRefused, Refuse, Return, TypeOK, ScopeTypeOK, Answers, Calls
<1>2. ASSUME NEW u \in Units, NEW own \in OwnBytes, DispatchFails(u, own)
      PROVE  TypeOK'
  BY <1>0, <1>2 DEF DispatchFails, StartDrain, TypeOK, ScopeTypeOK, Answers, Calls
<1>3. ASSUME NEW u \in Units, NEW own \in OwnBytes, DispatchStarts(u, own),
             at = "client"
      PROVE  TypeOK'
  <2>1. FirstFree \in FreeSlots /\ FirstFree \in Slots
    BY <1>3, FirstFreeIsFree DEF DispatchStarts, FreeSlots
  <2>2. ScopeTypeOK'
    BY <1>3, <2>1, ScopeAssumption
       DEF DispatchStarts, Spawn, CanAcquire, TypeOK, ScopeTypeOK, ThreadStates
  <2>3. task' \in [Slots -> Nat \cup {NONE}] /\ job' \in Seq(Units)
        /\ next_dispatch_ordinal' \in Nat
    BY <1>3, <2>1 DEF DispatchStarts, TypeOK
  <2>4. /\ in_flight_records' \in 0..Cap /\ active_tasks' \in 0..Cap
        /\ in_flight_input_bytes' \in 0..MaxInput
        /\ reorder_result_bytes' \in 0..MaxResults
    BY <1>0, <1>3, OrderedAssumption DEF DispatchStarts, FitsWindow, CountInv, TypeOK
  <2>5. charged' \in 0..Headroom
    BY <1>3, OrderedAssumption DEF DispatchStarts, CanReserve, TypeOK
  <2> QED
    BY <1>3, <2>2, <2>3, <2>4, <2>5 DEF DispatchStarts, Return, TypeOK, Answers, Calls
<1>4. ASSUME FinishDispatch PROVE TypeOK'
  BY <1>4 DEF FinishDispatch, Return, TypeOK, ScopeTypeOK, Answers
<1>5. ASSUME Poll PROVE TypeOK'
  BY <1>0, <1>5 DEF Poll, Return, TypeOK, ScopeTypeOK, Answers, Calls
<1>6. ASSUME ScanSkip PROVE TypeOK'
  BY <1>0, <1>6 DEF ScanSkip, TypeOK, ScopeTypeOK
<1>7. ASSUME JoinOutcome PROVE TypeOK'
  <2>1. cursor \in Slots /\ cursor \in Active /\ thread[cursor] = "exited"
    BY <1>7 DEF JoinOutcome, Join, Active
  <2> DEFINE u == JobOf(task[cursor])
             kept == IF ended[cursor] = Clean THEN ResultBytes[u] ELSE 0
  <2>2. ended[cursor] \in {Clean} \cup Terminals
    BY <1>7 DEF JoinOutcome, HasOutcome
  <2>3. u \in Units /\ task[cursor] \in Nat
    BY <2>1, JobTyped DEF Active, TypeOK
  <2>4. ScopeTypeOK'
    BY <1>00, <1>7, <2>1 DEF JoinOutcome, TypeOK, ScopeTypeOK
  <2>5. RingIndex(task[cursor]) \in Ring
    BY <2>3, RingIndexInRing
  <2>6. ready' \in [Ring -> Slot \cup {NONE}] /\ task' \in [Slots -> Nat \cup {NONE}]
    BY <1>7, <2>1, <2>2, <2>3, <2>5 DEF JoinOutcome, TypeOK, Slot
  <2>7. GrantBytes - kept \in Nat
    BY <2>3, OrderedAssumption
  <2>8. charged' \in 0..Headroom
    BY <1>7, <2>7, ReleasedTyped DEF JoinOutcome
  <2>9. active_tasks' \in 0..Cap /\ ready_results' \in 0..Cap
    <3>1. /\ active_tasks >= 1 /\ active_tasks' = active_tasks - 1
          /\ ready_results' = ready_results + 1
      BY <1>7 DEF JoinOutcome, JoinIsSound
    <3>2. /\ active_tasks \in Nat /\ ready_results \in Nat
          /\ active_tasks + ready_results <= Cap
      BY DEF TypeOK, CountInv
    <3> QED
      BY <1>0, <3>1, <3>2
  <2>11. in_flight_input_bytes' \in 0..MaxInput
    <3>1. InputBytes[u] \in Nat /\ in_flight_input_bytes >= InputBytes[u]
      BY <1>7, <2>3, OrderedAssumption DEF JoinOutcome, JoinIsSound
    <3>2. in_flight_input_bytes' = in_flight_input_bytes - InputBytes[u]
      BY <1>7 DEF JoinOutcome
    <3> QED
      BY <3>1, <3>2, OrderedAssumption DEF TypeOK
  <2>10. cursor' \in 1..(2 * Cap + 1) /\ dispatch_closed' \in BOOLEAN
    BY <1>0, <1>7 DEF JoinOutcome, TypeOK
  <2> QED
    BY <1>7, <2>4, <2>6, <2>8, <2>9, <2>10, <2>11 DEF JoinOutcome, TypeOK
<1>8. ASSUME JoinFault PROVE TypeOK'
  <2>1. cursor \in Slots /\ thread[cursor] = "exited"
    BY <1>8 DEF JoinFault, Join
  <2>2. ended[cursor] \in Outcomes /\ permitsInFlight >= 1
    BY <2>1, ExitedTyped
  <2>3. charged' \in 0..Headroom
    BY <1>8, ReleasedTyped, OrderedAssumption DEF JoinFault
  <2>4. ScopeTypeOK'
    BY <1>00, <1>8, <2>1 DEF JoinFault, StartDrain
  <2>5. answer' \in Answers
    BY <1>8, <2>2, OrderedAssumption DEF JoinFault, StartDrain, HasOutcome, Answers, Calls
  <2> QED
    BY <1>0, <1>8, <2>1, <2>3, <2>4, <2>5 DEF JoinFault, StartDrain, TypeOK
<1>9. ASSUME ScanEnds PROVE TypeOK'
  BY <1>9 DEF ScanEnds, TypeOK, ScopeTypeOK
<1>10. ASSUME FrontierEmpty PROVE TypeOK'
  BY <1>10 DEF FrontierEmpty, Return, TypeOK, ScopeTypeOK, Answers, Calls
<1>11. Frontier \in Ring
  BY RingIndexInRing DEF Frontier, TypeOK
<1>12. ASSUME FrontierOffers PROVE TypeOK'
  BY <1>11, <1>12 DEF FrontierOffers, Return, TypeOK, ScopeTypeOK, Answers, Calls
<1>13. ASSUME NEW i \in Ring, ReleaseCounts, ReleaseSlot(i)
       PROVE  /\ ready' \in [Ring -> Slot \cup {NONE}]
              /\ in_flight_records' \in 0..Cap /\ ready_results' \in 0..Cap
              /\ reorder_result_bytes' \in 0..MaxResults
              /\ next_release_ordinal' \in Nat /\ charged' \in 0..Headroom
  <2>1. charged' \in 0..Headroom
    BY <1>13, JobTyped, ReleasedTyped DEF ReleaseSlot
  <2>2. ready' \in [Ring -> Slot \cup {NONE}]
    BY <1>13 DEF ReleaseSlot, TypeOK
  <2> QED
    BY <1>0, <1>13, <2>1, <2>2, OrderedAssumption DEF ReleaseSlot, ReleaseCounts, TypeOK
<1>14. ASSUME FrontierStops PROVE TypeOK'
  <2>1. ready[Frontier] \in Slot
    BY <1>11, <1>14 DEF FrontierStops, TypeOK
  <2>2. InOrder => ready[Frontier].kind \in Answers
    BY <2>1, <1>14 DEF FrontierStops, Slot, Answers
  <2>3. CASE InOrder /\ ReleaseCounts
    <3>1. ReleaseSlot(Frontier) /\ StartDrain(ready[Frontier].kind)
      BY <1>14, <2>3 DEF FrontierStops
    <3>2. ScopeTypeOK'
      BY <1>14, <3>1 DEF FrontierStops, StartDrain, TypeOK, ScopeTypeOK
    <3>3. /\ at' = "drain" /\ cursor' \in 1..(2 * Cap + 1) /\ answer' \in Answers
      BY <1>0, <2>2, <2>3, <3>1 DEF StartDrain
    <3>4. UNCHANGED <<next_dispatch_ordinal, in_flight_input_bytes, active_tasks>>
      BY <3>1 DEF ReleaseSlot
    <3> QED
      BY <1>11, <1>13, <1>14, <2>3, <3>1, <3>2, <3>3, <3>4 DEF FrontierStops, TypeOK
  <2>4. CASE ~(InOrder /\ ReleaseCounts)
    <3>1. UNCHANGED <<ready, counters, charged>> /\ StartDrain("internal")
      BY <1>14, <2>4 DEF FrontierStops
    <3> QED
      BY <1>0, <1>14, <3>1 DEF FrontierStops, StartDrain, TypeOK, ScopeTypeOK, Answers, Calls
  <2> QED
    BY <2>3, <2>4
<1>15. ASSUME Acknowledge PROVE TypeOK'
  <2>1. offered_slot \in Ring
    BY <1>15 DEF Acknowledge, TypeOK
  <2>2. CASE ReleaseCounts
    BY <1>13, <1>15, <2>1, <2>2
       DEF Acknowledge, Return, TypeOK, ScopeTypeOK, ReleaseSlot, Answers, Calls
  <2>3. CASE ~ReleaseCounts
    BY <1>0, <1>15, <2>3 DEF Acknowledge, StartDrain, TypeOK, ScopeTypeOK, Answers, Calls
  <2> QED
    BY <2>2, <2>3
<1>16. ASSUME CancelAndDrain PROVE TypeOK'
  BY <1>0, <1>16 DEF CancelAndDrain, StartDrain, TypeOK, ScopeTypeOK, Answers, Calls
<1>17. ASSUME DrainSkip PROVE TypeOK'
  BY <1>0, <1>17 DEF DrainSkip, TypeOK, ScopeTypeOK
<1>18. ASSUME DrainJoin PROVE TypeOK'
  <2>1. cursor \in Slots /\ thread[cursor] = "exited"
    BY <1>18 DEF DrainJoin, Join
  <2>3. charged' \in 0..Headroom
    BY <1>18, ReleasedTyped, OrderedAssumption DEF DrainJoin
  <2>4. ScopeTypeOK'
    BY <1>00, <1>18, <2>1 DEF DrainJoin, TypeOK, ScopeTypeOK
  <2> QED
    BY <1>0, <1>18, <2>1, <2>3, <2>4 DEF DrainJoin, TypeOK
<1>19. ASSUME DrainDrop PROVE TypeOK'
  <2>1. cursor - Cap - 1 \in Ring
    BY <1>0, <1>19 DEF DrainDrop, Ring
  <2>2. charged' \in 0..Headroom
    BY <1>19, <2>1, JobTyped, ReleasedTyped DEF DrainDrop
  <2> QED
    BY <1>0, <1>19, <2>1, <2>2 DEF DrainDrop, TypeOK, ScopeTypeOK
<1>20. ASSUME DrainEnds PROVE TypeOK'
  BY <1>0, <1>20, OrderedAssumption DEF DrainEnds, TypeOK, ScopeTypeOK
<1>21. ASSUME Park PROVE TypeOK'
  BY <1>21 DEF Park, TypeOK, ScopeTypeOK
<1>22. ASSUME Unpark PROVE TypeOK'
  BY <1>22 DEF Unpark, Unparked, Return, TypeOK, ScopeTypeOK, Answers
<1>23. ASSUME NEW s \in Slots, WorkerEnds(s) PROVE TypeOK'
  <2>1. CanEnd[JobOf(task[s])] \subseteq Outcomes
    BY <1>23, JobTyped, OrderedAssumption DEF WorkerEnds, Active
  <2>2. {"drive_failed", "unavailable"} \subseteq Outcomes
    BY OrderedAssumption DEF Terminals
  <2> QED
    BY <1>23, <2>1, <2>2 DEF WorkerEnds, EndBody, TypeOK, ScopeTypeOK, ThreadStates
<1>24. ASSUME NEW s \in Slots, WorkerWakes(s) PROVE TypeOK'
  BY <1>24 DEF WorkerWakes, WakeFrontier, TypeOK, ScopeTypeOK, ThreadStates
<1>25. ASSUME UNCHANGED vars PROVE TypeOK'
  BY <1>25 DEF TypeOK, ScopeTypeOK
<1> QED
  BY <1>1, <1>2, <1>3, <1>4, <1>5, <1>6, <1>7, <1>8, <1>9, <1>10, <1>12, <1>14,
     <1>15, <1>16, <1>17, <1>18, <1>19, <1>20, <1>21, <1>22, <1>23, <1>24, <1>25
     DEF Next, Client, Dispatch, PollSteps, DrainSteps, Worker

-----------------------------------------------------------------------------
(* Threads, permits and handles.                                           *)

\* What a dispatch and a join do to the tasks.
LEMMA ActiveGrows ==
  ASSUME TypeOK, NEW s \in FreeSlots, NEW o \in Nat,
         task' = [task EXCEPT ![s] = o]
  PROVE  /\ Active' = Active \cup {s}
         /\ Cardinality(Active') = Cardinality(Active) + 1
<1>1. s \in Slots /\ s \notin Active
  BY DEF FreeSlots, Active
<1>2. Active' = Active \cup {s}
  BY <1>1, OrderedAssumption DEF TypeOK, Active
<1> QED
  BY <1>1, <1>2, SlotsFinite, FS_AddElement DEF Active

\* A join frees one task slot.
LEMMA ActiveShrinks ==
  ASSUME TypeOK, NEW s \in Active, task' = [task EXCEPT ![s] = NONE]
  PROVE  /\ Active' = Active \ {s}
         /\ Cardinality(Active') = Cardinality(Active) - 1
<1>1. Active' = Active \ {s}
  BY DEF TypeOK, Active
<1> QED
  BY <1>1, SlotsFinite, FS_RemoveElement DEF Active

\* Every step keeps permits, threads and handles in step.
LEMMA PermitStep ==
  ASSUME TypeOK, PermitInv, PlaceInv, [Next]_vars
  PROVE  PermitInv'
<1> USE DEF counters, flags, coordVars, scopeVars, vars
<1>1. ASSUME NEW s \in Active, Join(s), task' = [task EXCEPT ![s] = NONE]
      PROVE  PermitInv'
  <2>1. s \in Slots
    BY DEF Active
  <2>2. permitsInFlight' = Cardinality(Active')
    BY <1>1, <2>1, ActiveShrinks DEF Join, PermitInv, PermitsExact
  <2>3. \A t \in Slots : (task'[t] = NONE) <=> (thread'[t] = "none")
    BY <1>1, <2>1 DEF Join, PermitInv, PermitsExact, TypeOK, ScopeTypeOK
  <2>4. \A t \in Slots : thread'[t] \in {"flagged", "exited"} => ended'[t] \in Outcomes
    BY <1>1, <2>1 DEF Join, PermitInv, TypeOK, ScopeTypeOK
  <2> QED
    BY <2>2, <2>3, <2>4 DEF PermitInv, PermitsExact
<1>2. ASSUME UNCHANGED <<task, permitsInFlight, thread, ended>>
      PROVE  PermitInv'
  BY <1>2 DEF PermitInv, PermitsExact, Active
<1>3. ASSUME NEW u \in Units, NEW own \in OwnBytes, DispatchStarts(u, own)
      PROVE  PermitInv'
  <2>1. FirstFree \in FreeSlots /\ FirstFree \in Slots
    BY <1>3, FirstFreeIsFree DEF DispatchStarts, FreeSlots
  <2>2. permitsInFlight' = Cardinality(Active')
    <3>1. Cardinality(Active') = Cardinality(Active) + 1
      BY <1>3, <2>1, ActiveGrows DEF DispatchStarts, TypeOK
    <3> QED
      BY <1>3, <3>1 DEF DispatchStarts, Spawn, PermitInv, PermitsExact
  <2>3. \A t \in Slots : (task'[t] = NONE) <=> (thread'[t] = "none")
    BY <1>3, <2>1, OrderedAssumption
       DEF DispatchStarts, Spawn, PermitInv, PermitsExact, TypeOK, ScopeTypeOK
  <2>4. \A t \in Slots : thread'[t] \in {"flagged", "exited"} => ended'[t] \in Outcomes
    BY <1>3, <2>1 DEF DispatchStarts, Spawn, PermitInv, TypeOK, ScopeTypeOK
  <2> QED
    BY <2>2, <2>3, <2>4 DEF PermitInv, PermitsExact
<1>4. ASSUME NEW u \in Units, NEW own \in OwnBytes, Dispatch(u, own)
      PROVE  PermitInv'
  BY <1>2, <1>3, <1>4 DEF Dispatch, DispatchRefused, Refuse, DispatchFails
<1>5. ASSUME PollSteps PROVE PermitInv'
  <2>1. CASE JoinOutcome
    BY <1>1, <2>1 DEF JoinOutcome, Active
  <2>2. CASE JoinFault
    BY <1>1, <2>2 DEF JoinFault, Active
  <2> QED
    BY <1>2, <1>5, <2>1, <2>2
       DEF PollSteps, ScanSkip, ScanEnds, FrontierEmpty, FrontierOffers, FrontierStops
<1>6. ASSUME DrainSteps PROVE PermitInv'
  <2>1. CASE DrainJoin
    BY <1>1, <2>1 DEF DrainJoin, Active
  <2> QED
    BY <1>2, <1>6, <2>1 DEF DrainSteps, DrainSkip, DrainDrop, DrainEnds
<1>7. ASSUME Client PROVE PermitInv'
  BY <1>2, <1>4, <1>7
     DEF Client, FinishDispatch, Poll, Acknowledge, CancelAndDrain, Park
<1>8. ASSUME NEW s \in Slots, WorkerEnds(s) PROVE PermitInv'
  <2>1. CanEnd[JobOf(task[s])] \subseteq Outcomes
    BY <1>8, JobTyped, OrderedAssumption DEF WorkerEnds, Active
  <2>2. {"drive_failed", "unavailable"} \subseteq Outcomes
    BY OrderedAssumption DEF Terminals
  <2>3. Active' = Active /\ permitsInFlight' = permitsInFlight
    BY <1>8 DEF WorkerEnds, EndBody, Active
  <2> QED
    BY <1>8, <2>1, <2>2, <2>3
       DEF WorkerEnds, EndBody, PermitInv, PermitsExact, TypeOK, ScopeTypeOK
<1>9. ASSUME NEW s \in Slots, WorkerWakes(s) PROVE PermitInv'
  <2>1. Active' = Active /\ permitsInFlight' = permitsInFlight
    BY <1>9 DEF WorkerWakes, WakeFrontier, Active
  <2> QED
    BY <1>9, <2>1
       DEF WorkerWakes, WakeFrontier, PermitInv, PermitsExact, TypeOK, ScopeTypeOK
<1> QED
  BY <1>2, <1>5, <1>6, <1>7, <1>8, <1>9 DEF Next, Unpark, Unparked, Worker

-----------------------------------------------------------------------------
(* Each ordinal of the window is in one place.                             *)

\* Releasing the frontier's own ordinal leaves the rest of the window behind it.
LEMMA ReleaseKeepsPlaces ==
  ASSUME TypeOK, PlaceInv, ready[Frontier] # NONE, InOrder, ReleaseSlot(Frontier),
         UNCHANGED <<job, task>>
  PROVE  PlaceInv'
<1>1. Frontier \in Ring /\ Frontier \in Filled
  BY RingIndexInRing DEF Frontier, TypeOK, Filled
<1>2. next_release_ordinal \in Window
  BY <1>1 DEF PlaceInv, InOrder
<1>3. /\ next_release_ordinal' = next_release_ordinal + 1
      /\ next_dispatch_ordinal' = next_dispatch_ordinal
  BY DEF ReleaseSlot
<1>4. Window' = Window \ {next_release_ordinal}
  BY <1>2, <1>3 DEF Window, TypeOK
<1>5. Filled' = Filled \ {Frontier} /\ \A i \in Filled' : ready'[i] = ready[i]
  BY <1>1 DEF ReleaseSlot, Filled, TypeOK
<1>6. \A i \in Filled' : ready[i].ordinal # next_release_ordinal
  BY <1>5 DEF PlaceInv, Frontier
<1>7. \A s \in Active : task[s] # next_release_ordinal
  BY <1>1 DEF PlaceInv, InOrder
<1>8. Active' = Active /\ \A s \in Active : task'[s] = task[s]
  BY DEF Active
<1>9. next_release_ordinal' <= next_dispatch_ordinal'
  BY <1>2, <1>3 DEF Window, TypeOK
<1> QED
  BY <1>3, <1>4, <1>5, <1>6, <1>7, <1>8, <1>9 DEF PlaceInv, RingIndex

\* An offered slot is the frontier's.
LEMMA OfferIsFrontier ==
  ASSUME OfferInv, at = "client", offered_slot # NONE
  PROVE  offered_slot = Frontier /\ ready[Frontier] # NONE /\ InOrder
  BY DEF OfferInv

\* Every step keeps each ordinal of the window in its one place.
LEMMA PlaceStep ==
  ASSUME TypeOK, PlaceInv, OfferInv, [Next]_vars
  PROVE  PlaceInv'
<1> USE DEF counters, flags, coordVars, scopeVars, vars
<1>1. ASSUME UNCHANGED <<job, task, ready, next_dispatch_ordinal, next_release_ordinal>>
      PROVE  PlaceInv'
  BY <1>1 DEF PlaceInv, Window, Active, Filled
<1>2. ASSUME NEW s \in Active, task' = [task EXCEPT ![s] = NONE],
             UNCHANGED <<job, ready, next_dispatch_ordinal, next_release_ordinal>>
      PROVE  PlaceInv'
  <2>1. Active' = Active \ {s} /\ \A t \in Active' : task'[t] = task[t]
    BY <1>2 DEF TypeOK, Active
  <2>2. Filled' = Filled /\ Window' = Window
    BY <1>2 DEF Filled, Window
  <2> QED
    BY <1>2, <2>1, <2>2 DEF PlaceInv
<1>3. ASSUME NEW i \in Ring, ready' = [ready EXCEPT ![i] = NONE],
             UNCHANGED <<job, task, next_dispatch_ordinal, next_release_ordinal>>
      PROVE  PlaceInv'
  <2>1. Filled' = Filled \ {i} /\ \A j \in Filled' : ready'[j] = ready[j]
    BY <1>3 DEF TypeOK, Filled
  <2>2. Active' = Active /\ Window' = Window
    BY <1>3 DEF Active, Window
  <2> QED
    BY <1>3, <2>1, <2>2 DEF PlaceInv
<1>4. ASSUME NEW u \in Units, NEW own \in OwnBytes, DispatchStarts(u, own)
      PROVE  PlaceInv'
  <2>1. FirstFree \in FreeSlots
    BY <1>4, FirstFreeIsFree DEF DispatchStarts
  <2>2. task' = [task EXCEPT ![FirstFree] = next_dispatch_ordinal]
        /\ next_dispatch_ordinal \in Nat
    BY <1>4 DEF DispatchStarts, TypeOK
  <2>3. Active' = Active \cup {FirstFree} /\ FirstFree \notin Active
        /\ FirstFree \in Slots
    BY <2>1, <2>2, ActiveGrows DEF Active, FreeSlots
  <2>4. /\ \A s \in Active : task'[s] = task[s] /\ s # FirstFree
        /\ task'[FirstFree] = next_dispatch_ordinal
    BY <2>2, <2>3 DEF TypeOK, Active
  <2>5. /\ Window' = Window \cup {next_dispatch_ordinal}
        /\ next_dispatch_ordinal \notin Window
    <3>1. PICK n, r : n = next_dispatch_ordinal /\ r = next_release_ordinal
      OBVIOUS
    <3>2. n \in Nat /\ r \in Nat /\ r <= n
      BY <3>1 DEF TypeOK, PlaceInv
    <3>3. next_dispatch_ordinal' = n + 1 /\ next_release_ordinal' = r
      BY <1>4, <3>1 DEF DispatchStarts
    <3>4. Window = r..(n - 1) /\ Window' = r..n
      BY <3>1, <3>2, <3>3 DEF Window
    <3>5. r..n = (r..(n - 1)) \cup {n} /\ n \notin r..(n - 1)
      BY <3>2
    <3> QED
      BY <3>1, <3>4, <3>5
  <2>6. Filled' = Filled /\ ready' = ready
    BY <1>4 DEF DispatchStarts, Filled
  <2>7. next_dispatch_ordinal' = Len(job') /\ next_release_ordinal' <= next_dispatch_ordinal'
    BY <1>4 DEF DispatchStarts, TypeOK, PlaceInv
  <2>8. \A s \in Active' : task'[s] \in Window'
    BY <2>3, <2>4, <2>5 DEF PlaceInv
  <2>9. \A s, t \in Active' : task'[s] = task'[t] => s = t
    BY <2>3, <2>4, <2>5 DEF PlaceInv
  <2>10. \A s \in Active', i \in Filled' : task'[s] # ready'[i].ordinal
    BY <2>3, <2>4, <2>5, <2>6 DEF PlaceInv
  <2>11. \A i \in Filled' : ready'[i].ordinal \in Window' /\ RingIndex(ready'[i].ordinal) = i
    BY <2>5, <2>6 DEF PlaceInv
  <2> QED
    BY <2>7, <2>8, <2>9, <2>10, <2>11 DEF PlaceInv, RingIndex
<1>5. ASSUME JoinOutcome PROVE PlaceInv'
  <2>1. cursor \in Active /\ cursor \in Slots
    BY <1>5 DEF JoinOutcome, Active
  <2> DEFINE o == task[cursor]
             i == RingIndex(o)
  <2>2. o \in Window /\ o \in Nat /\ i \in Ring
    BY <2>1, RingIndexInRing DEF PlaceInv, Active, TypeOK
  <2>3. ready[i] = NONE
        /\ ready' = [ready EXCEPT ![i] = [ordinal |-> o, kind |-> ended[cursor]]]
    BY <1>5 DEF JoinOutcome, JoinIsSound
  <2>4. [ordinal |-> o, kind |-> ended[cursor]] \in Slot
    BY <1>5, <2>2 DEF JoinOutcome, HasOutcome, Slot
  <2>5. Filled' = Filled \cup {i} /\ i \notin Filled
    BY <2>2, <2>3, <2>4, OrderedAssumption DEF Filled, TypeOK
  <2>6. ready'[i].ordinal = o /\ \A j \in Filled : ready'[j] = ready[j]
    BY <2>2, <2>3 DEF Filled, TypeOK
  <2>7. Active' = Active \ {cursor}
    BY <1>5, <2>1, ActiveShrinks DEF JoinOutcome
  <2>8. \A s \in Active' : task'[s] = task[s] /\ s # cursor
    BY <1>5, <2>7 DEF JoinOutcome, Active, TypeOK
  <2>9. Window' = Window
    BY <1>5 DEF JoinOutcome, Window
  <2>10. \A j \in Filled' : ready'[j].ordinal \in Window' /\ RingIndex(ready'[j].ordinal) = j
    BY <2>2, <2>5, <2>6, <2>9 DEF PlaceInv
  <2>11. \A s \in Active', j \in Filled' : task'[s] # ready'[j].ordinal
    BY <2>1, <2>5, <2>6, <2>7, <2>8 DEF PlaceInv
  <2>12. \A s, t \in Active' : task'[s] = task'[t] => s = t
    BY <2>7, <2>8 DEF PlaceInv
  <2>13. \A s \in Active' : task'[s] \in Window'
    BY <2>7, <2>8, <2>9 DEF PlaceInv
  <2> QED
    BY <1>5, <2>10, <2>11, <2>12, <2>13 DEF JoinOutcome, PlaceInv, RingIndex
<1>6. ASSUME Client PROVE PlaceInv'
  <2>1. CASE Acknowledge
    <3>1. CASE ReleaseCounts
      BY <2>1, <3>1, ReleaseKeepsPlaces, OfferIsFrontier DEF Acknowledge
    <3>2. CASE ~ReleaseCounts
      BY <1>1, <2>1, <3>2 DEF Acknowledge
    <3> QED
      BY <3>1, <3>2
  <2>2. ASSUME NEW u \in Units, NEW own \in OwnBytes, Dispatch(u, own)
        PROVE  PlaceInv'
    BY <1>1, <1>4, <2>2 DEF Dispatch, DispatchRefused, Refuse, DispatchFails
  <2> QED
    BY <1>1, <1>6, <2>1, <2>2 DEF Client, FinishDispatch, Poll, CancelAndDrain, Park
<1>7. ASSUME PollSteps PROVE PlaceInv'
  <2>1. CASE FrontierStops
    <3>1. CASE InOrder /\ ReleaseCounts
      BY <2>1, <3>1, ReleaseKeepsPlaces DEF FrontierStops
    <3>2. CASE ~(InOrder /\ ReleaseCounts)
      BY <1>1, <2>1, <3>2 DEF FrontierStops
    <3> QED
      BY <3>1, <3>2
  <2>2. CASE JoinFault
    BY <1>2, <2>2 DEF JoinFault, Active
  <2> QED
    BY <1>1, <1>5, <1>7, <2>1, <2>2
       DEF PollSteps, ScanSkip, ScanEnds, FrontierEmpty, FrontierOffers
<1>8. ASSUME DrainSteps PROVE PlaceInv'
  <2>1. CASE DrainJoin
    BY <1>2, <2>1 DEF DrainJoin, Active
  <2>2. CASE DrainDrop
    <3>1. cursor - Cap - 1 \in Ring
      BY <2>2, ScopeAssumption DEF DrainDrop, Ring
    <3> QED
      BY <1>3, <2>2, <3>1 DEF DrainDrop
  <2> QED
    BY <1>1, <1>8, <2>1, <2>2 DEF DrainSteps, DrainSkip, DrainEnds
<1> QED
  BY <1>1, <1>6, <1>7, <1>8
     DEF Next, Unpark, Worker, WorkerEnds, WorkerWakes

-----------------------------------------------------------------------------
(* Counts, the offer, completion and the cursor.                           *)

\* Every step keeps the counters equal to what they count.
LEMMA CountStep ==
  ASSUME TypeOK, CountInv, CursorInv, [Next]_vars
  PROVE  CountInv'
<1> USE DEF counters, flags, coordVars, scopeVars, vars
<1>1. ASSUME UNCHANGED <<task, in_flight_records, active_tasks, ready_results>>,
             at' # "drain" => at # "drain"
      PROVE  CountInv'
  BY <1>1 DEF CountInv, Active
<1>2. ASSUME at' = "drain", active_tasks' + ready_results' = in_flight_records'
      PROVE  CountInv'
  BY <1>2 DEF CountInv
<1>3. ASSUME NEW u \in Units, NEW own \in OwnBytes, DispatchStarts(u, own),
             at = "client"
      PROVE  CountInv'
  <2>1. FirstFree \in FreeSlots
    BY <1>3, FirstFreeIsFree DEF DispatchStarts
  <2>2. Cardinality(Active') = Cardinality(Active) + 1
    BY <1>3, <2>1, ActiveGrows DEF DispatchStarts, TypeOK
  <2>3. /\ active_tasks' = active_tasks + 1 /\ ready_results' = ready_results
        /\ in_flight_records' = in_flight_records + 1
    BY <1>3 DEF DispatchStarts
  <2>4. active_tasks \in Int /\ ready_results \in Int /\ in_flight_records \in Int
    BY DEF TypeOK
  <2> QED
    BY <1>3, <2>2, <2>3, <2>4 DEF CountInv
<1>4. ASSUME NEW u \in Units, NEW own \in OwnBytes, Dispatch(u, own)
      PROVE  CountInv'
  BY <1>1, <1>2, <1>3, <1>4
     DEF Dispatch, DispatchRefused, Refuse, Return, DispatchFails, StartDrain, CountInv
<1>5. ASSUME JoinOutcome PROVE CountInv'
  <2>1. cursor \in Active
    BY <1>5 DEF JoinOutcome, Active
  <2>2. Cardinality(Active') = Cardinality(Active) - 1
    BY <1>5, <2>1, ActiveShrinks DEF JoinOutcome
  <2> QED
    BY <1>5, <2>2 DEF JoinOutcome, CountInv, TypeOK
<1>6. ASSUME NEW i \in Ring, ReleaseSlot(i)
      PROVE  active_tasks' + ready_results' = in_flight_records'
  BY <1>6 DEF ReleaseSlot, CountInv, TypeOK
<1>7. ASSUME FrontierStops PROVE CountInv'
  <2>1. Frontier \in Ring
    BY RingIndexInRing DEF Frontier, TypeOK
  <2> QED
    BY <1>2, <1>6, <1>7, <2>1 DEF FrontierStops, StartDrain, CountInv
<1>8. ASSUME Acknowledge PROVE CountInv'
  <2>1. offered_slot \in Ring
    BY <1>8 DEF Acknowledge, TypeOK
  <2>2. CASE ReleaseCounts
    <3>1. active_tasks' = active_tasks /\ Active' = Active /\ at = "client"
      BY <1>8, <2>2 DEF Acknowledge, ReleaseSlot, Active
    <3> QED
      BY <1>6, <1>8, <2>1, <2>2, <3>1 DEF Acknowledge, CountInv
  <2>3. CASE ~ReleaseCounts
    BY <1>2, <1>8, <2>3 DEF Acknowledge, StartDrain, CountInv
  <2> QED
    BY <2>2, <2>3
<1>9. ASSUME DrainEnds PROVE CountInv'
  <2>1. \A s \in Slots : s < cursor
    BY <1>9, ScopeAssumption DEF DrainEnds, Slots
  <2>2. Active' = {}
    BY <1>9, <2>1 DEF DrainEnds, CursorInv, Active
  <2> QED
    BY <1>9, <2>2, FS_EmptySet DEF DrainEnds, CountInv
<1>10. ASSUME DrainSteps PROVE CountInv'
  BY <1>2, <1>9, <1>10 DEF DrainSteps, DrainSkip, DrainJoin, DrainDrop, CountInv
<1>11. ASSUME PollSteps PROVE CountInv'
  BY <1>1, <1>2, <1>5, <1>7, <1>11
     DEF PollSteps, ScanSkip, JoinFault, StartDrain, ScanEnds, FrontierEmpty,
         FrontierOffers, Return, CountInv
<1>12. ASSUME Client PROVE CountInv'
  BY <1>1, <1>2, <1>4, <1>8, <1>12
     DEF Client, FinishDispatch, Return, Poll, CancelAndDrain, StartDrain, Park, CountInv
<1> QED
  BY <1>1, <1>10, <1>11, <1>12
     DEF Next, Unpark, Return, Worker, WorkerEnds, WorkerWakes

\* Every step keeps the offer at the frontier, whole and in order.
LEMMA OfferStep ==
  ASSUME TypeOK, OfferInv, CompleteInv, PendingInv, [Next]_vars
  PROVE  OfferInv'
<1> USE DEF counters, flags, coordVars, scopeVars, vars
<1>1. ASSUME offered_slot' = NONE \/ at' = "drain"
      PROVE  OfferInv'
  BY <1>1 DEF OfferInv
<1>2. ASSUME UNCHANGED <<offered_slot, ready, next_release_ordinal, complete>>,
             at' = at
      PROVE  OfferInv'
  BY <1>2 DEF OfferInv, Frontier, InOrder
<1>3. ASSUME at \notin {"client", "drain"} PROVE offered_slot = NONE
  BY <1>3 DEF OfferInv
<1>4. ASSUME NEW u \in Units, NEW own \in OwnBytes, Dispatch(u, own)
      PROVE  OfferInv'
  BY <1>1, <1>2, <1>4
     DEF Dispatch, DispatchRefused, Refuse, Return, DispatchFails, DispatchStarts, StartDrain
<1>5. ASSUME Poll PROVE OfferInv'
  BY <1>1, <1>2, <1>5 DEF Poll, Return
<1>6. ASSUME Acknowledge PROVE OfferInv'
  BY <1>1, <1>6 DEF Acknowledge, StartDrain
<1>7. ASSUME Park PROVE OfferInv'
  BY <1>1, <1>7 DEF Park, PendingInv, Waiting
<1>8. ASSUME Client PROVE OfferInv'
  BY <1>1, <1>2, <1>4, <1>5, <1>6, <1>7, <1>8
     DEF Client, FinishDispatch, Return, CancelAndDrain, StartDrain
<1>9. ASSUME FrontierOffers PROVE OfferInv'
  BY <1>9 DEF FrontierOffers, Return, OfferInv, CompleteInv, Frontier, InOrder
<1>10. ASSUME PollSteps PROVE OfferInv'
  BY <1>1, <1>3, <1>9, <1>10
     DEF PollSteps, ScanSkip, JoinOutcome, JoinFault, StartDrain, ScanEnds,
         FrontierEmpty, FrontierStops
<1>11. ASSUME DrainSteps PROVE OfferInv'
  BY <1>1, <1>11 DEF DrainSteps, DrainSkip, DrainJoin, DrainDrop, DrainEnds
<1>12. ASSUME Unpark PROVE OfferInv'
  BY <1>1, <1>3, <1>12 DEF Unpark
<1> QED
  BY <1>8, <1>10, <1>11, <1>12
     DEF Next, Worker, WorkerEnds, WorkerWakes, OfferInv, Frontier, InOrder

\* Nothing is left in flight by a step that completes the lane.
LEMMA CompleteStep ==
  ASSUME TypeOK, PlaceInv, NoneMissing, CountInv, OfferInv, CompleteInv, PendingInv,
         CursorInv, [Next]_vars
  PROVE  CompleteInv'
<1> USE DEF counters, flags, coordVars, scopeVars, vars
<1>1. ASSUME complete' = complete, at \notin {"client", "drain"}
      PROVE  CompleteInv'
  BY <1>1 DEF CompleteInv
<1>2. ASSUME UNCHANGED <<complete, task, ready, in_flight_records>>,
             at' \in {"client", "drain"}
      PROVE  CompleteInv'
  BY <1>2 DEF CompleteInv, Active, Filled
<1>3. ASSUME Client PROVE CompleteInv'
  <2>1. ASSUME NEW u \in Units, NEW own \in OwnBytes, Dispatch(u, own)
        PROVE  CompleteInv'
    BY <1>2, <2>1
       DEF Dispatch, DispatchRefused, Refuse, Return, DispatchFails, DispatchStarts,
           Closed, StartDrain, CompleteInv
  <2>2. CASE Poll
    BY <1>2, <2>2 DEF Poll, Return, CompleteInv
  <2>3. CASE Acknowledge
    BY <2>3 DEF Acknowledge, OfferInv, CompleteInv
  <2>4. CASE Park
    BY <2>4 DEF Park, PendingInv, Waiting, CompleteInv
  <2> QED
    BY <1>2, <1>3, <2>1, <2>2, <2>3, <2>4
       DEF Client, FinishDispatch, Return, CancelAndDrain, StartDrain
<1>4. ASSUME FrontierEmpty PROVE CompleteInv'
  <2>1. CASE in_flight_records = 0
    <3>1. Window = {}
      BY <1>4, <2>1 DEF FrontierEmpty, NoneMissing, CompleteInv, Window, TypeOK
    <3>2. Active = {} /\ Filled = {}
      BY <3>1 DEF PlaceInv
    <3> QED
      BY <1>4, <2>1, <3>2 DEF FrontierEmpty, Return, CompleteInv, Active, Filled
  <2>2. CASE in_flight_records # 0
    BY <1>1, <1>4, <2>2 DEF FrontierEmpty, CompleteInv
  <2> QED
    BY <2>1, <2>2
<1>5. ASSUME PollSteps PROVE CompleteInv'
  BY <1>1, <1>4, <1>5
     DEF PollSteps, ScanSkip, JoinOutcome, JoinFault, ScanEnds, FrontierOffers,
         FrontierStops
<1>6. ASSUME DrainEnds PROVE CompleteInv'
  <2>1. (\A s \in Slots : s < cursor) /\ (\A i \in Ring : i + Cap + 1 < cursor)
    BY <1>6, ScopeAssumption DEF DrainEnds, Slots, Ring
  <2>2. Active' = {} /\ Filled' = {}
    BY <1>6, <2>1 DEF DrainEnds, CursorInv, Active, Filled
  <2> QED
    BY <1>6, <2>2 DEF DrainEnds, CompleteInv
<1>7. ASSUME DrainJoin PROVE CompleteInv'
  BY <1>7 DEF DrainJoin, CompleteInv, Active
<1>8. ASSUME DrainDrop PROVE CompleteInv'
  <2>1. Filled' \subseteq Filled /\ Active' = Active
    BY <1>8 DEF DrainDrop, Filled, Active, TypeOK
  <2> QED
    BY <1>8, <2>1 DEF DrainDrop, CompleteInv
<1>9. ASSUME DrainSteps PROVE CompleteInv'
  BY <1>2, <1>6, <1>7, <1>8, <1>9 DEF DrainSteps, DrainSkip
<1> QED
  BY <1>1, <1>3, <1>5, <1>9
     DEF Next, Unpark, Worker, WorkerEnds, WorkerWakes, CompleteInv, Active, Filled

\* Every step keeps the cursor of a scan or drain within its range.
LEMMA CursorStep ==
  ASSUME TypeOK, CursorInv, PermitInv, [Next]_vars
  PROVE  CursorInv'
<1> USE DEF counters, flags, coordVars, scopeVars, vars
<1>0. Cap \in Nat \ {0} /\ (1..Cap) = Slots /\ (0..(Cap - 1)) = Ring
  BY ScopeAssumption DEF Slots, Ring
<1>1. ASSUME at' \notin {"scan", "drain"} PROVE CursorInv'
  BY <1>1 DEF CursorInv
<1>2. ASSUME NEW why, StartDrain(why), why # "pending" PROVE CursorInv'
  BY <1>0, <1>2 DEF StartDrain, CursorInv
<1>3. ASSUME NEW u \in Units, NEW own \in OwnBytes, Dispatch(u, own), at = "client"
      PROVE  CursorInv'
  BY <1>1, <1>2, <1>3
     DEF Dispatch, DispatchRefused, Refuse, Return, DispatchFails, DispatchStarts
<1>4. ASSUME Client PROVE CursorInv'
  <2>1. CASE Poll
    BY <1>0, <1>1, <2>1 DEF Poll, Return, CursorInv
  <2>2. CASE Acknowledge
    BY <1>1, <1>2, <2>2 DEF Acknowledge, Return
  <2> QED
    BY <1>1, <1>2, <1>3, <1>4, <2>1, <2>2
       DEF Client, Dispatch, FinishDispatch, Return, CancelAndDrain, Park
<1>5. ASSUME PollSteps PROVE CursorInv'
  <2>1. CASE JoinFault
    <3>1. ended[cursor] \in Outcomes
      BY <2>1, ExitedTyped DEF JoinFault, Join
    <3>2. ended[cursor] # "pending"
      BY <3>1, OrderedAssumption DEF Clean, Terminals, Faults
    <3> QED
      BY <1>2, <2>1, <3>2 DEF JoinFault
  <2>2. CASE FrontierStops
    <3>1. Frontier \in Ring
      BY RingIndexInRing DEF Frontier, TypeOK
    <3>2. ready[Frontier].kind # "pending"
      BY <2>2, <3>1 DEF FrontierStops, TypeOK, Slot, Clean, Terminals
    <3> QED
      BY <1>2, <2>2, <3>2 DEF FrontierStops
  <2>3. CASE ScanSkip \/ JoinOutcome
    <3>1. at' = "scan" /\ cursor \in Slots /\ cursor' = cursor + 1
      BY <2>3 DEF ScanSkip, JoinOutcome
    <3> QED
      BY <1>0, <3>1 DEF CursorInv
  <2> QED
    BY <1>1, <1>5, <2>1, <2>2, <2>3
       DEF PollSteps, ScanEnds, FrontierEmpty, FrontierOffers, Return
<1>6. ASSUME DrainSteps PROVE CursorInv'
  <2>1. CASE DrainSkip
    <3>1. /\ at = "drain" /\ at' = "drain" /\ cursor \in Slots /\ cursor' = cursor + 1
          /\ task[cursor] = NONE
          /\ UNCHANGED <<task, ready, answer, cancelled>>
      BY <2>1 DEF DrainSkip
    <3> QED
      BY <1>0, <3>1 DEF CursorInv
  <2>2. CASE DrainJoin
    <3>1. /\ at = "drain" /\ at' = "drain" /\ cursor \in Slots /\ cursor' = cursor + 1
          /\ task' = [task EXCEPT ![cursor] = NONE]
          /\ UNCHANGED <<ready, answer, cancelled>>
      BY <2>2 DEF DrainJoin
    <3>2. \A s \in Slots : s < cursor' => task'[s] = NONE
      BY <1>0, <3>1 DEF CursorInv, TypeOK
    <3> QED
      BY <1>0, <3>1, <3>2 DEF CursorInv
  <2>3. CASE DrainDrop
    <3>1. /\ at = "drain" /\ at' = "drain" /\ cursor \in (Cap + 1)..(2 * Cap)
          /\ cursor' = cursor + 1
          /\ ready' = [ready EXCEPT ![cursor - Cap - 1] = NONE]
          /\ UNCHANGED <<task, answer, cancelled>>
      BY <2>3 DEF DrainDrop
    <3>2. \A i \in Ring : i + Cap + 1 < cursor' => ready'[i] = NONE
      BY <1>0, <3>1 DEF CursorInv, TypeOK
    <3>3. \A s \in Slots : task'[s] = NONE
      BY <1>0, <3>1 DEF CursorInv
    <3> QED
      BY <1>0, <3>1, <3>2, <3>3 DEF CursorInv
  <2> QED
    BY <1>1, <1>6, <2>1, <2>2, <2>3 DEF DrainSteps, DrainEnds
<1>7. ASSUME Unpark PROVE CursorInv'
  BY <1>1, <1>7 DEF Unpark, Return
<1>8. ASSUME UNCHANGED <<at, cursor, task, ready, answer, cancelled>>
      PROVE  CursorInv'
  BY <1>8 DEF CursorInv
<1> QED
  BY <1>4, <1>5, <1>6, <1>7, <1>8
     DEF Next, Worker, WorkerEnds, WorkerWakes, EndBody, WakeFrontier

\* A caller told to wait has something to wait for, whatever step is taken.
LEMMA PendingStep ==
  ASSUME TypeOK, OfferInv, CompleteInv, PendingInv, CursorInv, [Next]_vars
  PROVE  PendingInv'
<1> USE DEF counters, flags, coordVars, scopeVars, vars
<1>1. ASSUME ~Waiting' PROVE PendingInv'
  BY <1>1 DEF PendingInv, Waiting
<1>2. ASSUME NEW a \in Calls \cup {"none"}, Return(a), a # "pending" PROVE PendingInv'
  BY <1>1, <1>2 DEF Return, Waiting
<1>3. ASSUME at' \in {"scan", "frontier", "drain"} PROVE PendingInv'
  BY <1>1, <1>3 DEF Waiting
<1>4. ASSUME Client PROVE PendingInv'
  <2>1. ASSUME NEW u \in Units, NEW own \in OwnBytes, Dispatch(u, own)
        PROVE  PendingInv'
    BY <1>2, <1>3, <2>1
       DEF Dispatch, DispatchRefused, Refuse, DispatchFails, StartDrain, DispatchStarts,
           Calls
  <2>2. CASE Park
    BY <2>2 DEF Park, PendingInv, Waiting, Frontier
  <2>3. CASE Poll
    BY <1>2, <1>3, <2>3 DEF Poll, Calls
  <2>4. CASE Acknowledge
    BY <1>2, <1>3, <2>4 DEF Acknowledge, StartDrain, Calls
  <2> QED
    BY <1>2, <1>3, <1>4, <2>1, <2>2, <2>3, <2>4
       DEF Client, FinishDispatch, CancelAndDrain, StartDrain
<1>5. ASSUME FrontierEmpty PROVE PendingInv'
  BY <1>5 DEF FrontierEmpty, OfferInv, CompleteInv, PendingInv, Waiting, Return, Frontier
<1>6. ASSUME PollSteps PROVE PendingInv'
  BY <1>2, <1>3, <1>5, <1>6
     DEF PollSteps, ScanSkip, JoinOutcome, JoinFault, StartDrain, ScanEnds,
         FrontierOffers, FrontierStops, Calls
<1>7. ASSUME DrainSteps PROVE PendingInv'
  <2>1. CASE DrainEnds
    BY <1>1, <2>1 DEF DrainEnds, CursorInv, Waiting
  <2> QED
    BY <1>3, <1>7, <2>1 DEF DrainSteps, DrainSkip, DrainJoin, DrainDrop
<1>8. ASSUME Unpark PROVE PendingInv'
  BY <1>2, <1>8 DEF Unpark
<1>9. ASSUME UNCHANGED coordVars PROVE PendingInv'
  BY <1>9 DEF PendingInv, Waiting, Frontier
<1> QED
  BY <1>4, <1>6, <1>7, <1>8, <1>9 DEF Next, Worker, WorkerEnds, WorkerWakes

\* No step loses an ordinal of the window.
LEMMA MissingStep ==
  ASSUME TypeOK, PlaceInv, NoneMissing, OfferInv, CompleteInv, [Next]_vars
  PROVE  NoneMissing'
<1> USE DEF counters, flags, coordVars, scopeVars, vars
<1>1. ASSUME at' = "drain" \/ complete' PROVE NoneMissing'
  BY <1>1 DEF NoneMissing
<1>2. ASSUME UNCHANGED <<task, ready, in_flight_records, next_dispatch_ordinal,
                         next_release_ordinal>>,
             at # "drain", complete => complete'
      PROVE  NoneMissing'
  BY <1>2 DEF NoneMissing, Window, Active, Filled
<1>3. ASSUME NEW u \in Units, NEW own \in OwnBytes, DispatchStarts(u, own), at = "client"
      PROVE  NoneMissing'
  <2>1. FirstFree \in FreeSlots
    BY <1>3, FirstFreeIsFree DEF DispatchStarts
  <2>2. task' = [task EXCEPT ![FirstFree] = next_dispatch_ordinal]
        /\ next_dispatch_ordinal \in Nat
    BY <1>3 DEF DispatchStarts, TypeOK
  <2>3. Active' = Active \cup {FirstFree} /\ FirstFree \notin Active
    BY <2>1, <2>2, ActiveGrows DEF Active, FreeSlots
  <2>4. /\ \A s \in Active : task'[s] = task[s]
        /\ task'[FirstFree] = next_dispatch_ordinal
    BY <2>1, <2>2, <2>3 DEF TypeOK, Active, FreeSlots
  <2>5. Window' = Window \cup {next_dispatch_ordinal}
    BY <1>3 DEF DispatchStarts, Window, TypeOK, PlaceInv
  <2>6. Filled' = Filled /\ ready' = ready /\ complete' = complete
    BY <1>3 DEF DispatchStarts, Filled
  <2>7. /\ in_flight_records' = in_flight_records + 1
        /\ next_dispatch_ordinal' = next_dispatch_ordinal + 1
        /\ next_release_ordinal' = next_release_ordinal
    BY <1>3 DEF DispatchStarts
  <2>8. ASSUME ~complete
        PROVE  in_flight_records' = next_dispatch_ordinal' - next_release_ordinal'
    BY <1>3, <2>7, <2>8 DEF NoneMissing, TypeOK
  <2>9. ASSUME ~complete, NEW o \in Window'
        PROVE  \/ \E s \in Active' : task'[s] = o
               \/ \E i \in Filled' : ready'[i].ordinal = o
    BY <1>3, <2>3, <2>4, <2>5, <2>6, <2>9 DEF NoneMissing
  <2> QED
    BY <2>6, <2>8, <2>9 DEF NoneMissing
<1>4. ASSUME JoinOutcome PROVE NoneMissing'
  <2>1. cursor \in Active /\ cursor \in Slots
    BY <1>4 DEF JoinOutcome, Active
  <2> DEFINE o == task[cursor]
             i == RingIndex(o)
  <2>2. o \in Nat /\ i \in Ring
    BY <2>1, RingIndexInRing DEF Active, TypeOK
  <2>3. ready[i] = NONE
        /\ ready' = [ready EXCEPT ![i] = [ordinal |-> o, kind |-> ended[cursor]]]
    BY <1>4 DEF JoinOutcome, JoinIsSound
  <2>4. [ordinal |-> o, kind |-> ended[cursor]] \in Slot
    BY <1>4, <2>2 DEF JoinOutcome, HasOutcome, Slot
  <2>5. i \in Filled' /\ ready'[i].ordinal = o
    BY <2>2, <2>3, <2>4, OrderedAssumption DEF Filled, TypeOK
  <2>6. \A j \in Filled : j \in Filled' /\ ready'[j] = ready[j]
    BY <2>2, <2>3 DEF Filled, TypeOK
  <2>7. \A s \in Active : s # cursor => s \in Active' /\ task'[s] = task[s]
    BY <1>4 DEF JoinOutcome, Active, TypeOK
  <2>8. Window' = Window /\ complete' = complete /\ at = "scan"
    BY <1>4 DEF JoinOutcome, Window
  <2>9. UNCHANGED <<in_flight_records, next_dispatch_ordinal, next_release_ordinal>>
    BY <1>4 DEF JoinOutcome
  <2> QED
    BY <2>5, <2>6, <2>7, <2>8, <2>9 DEF NoneMissing
<1>5. ASSUME Acknowledge PROVE NoneMissing'
  <2>1. CASE ~ReleaseCounts
    BY <1>1, <1>5, <2>1 DEF Acknowledge, StartDrain
  <2>2. CASE ReleaseCounts
    <3>1. /\ offered_slot = Frontier /\ ready[Frontier] # NONE /\ InOrder
          /\ at = "client" /\ ~complete
      BY <1>5 DEF Acknowledge, OfferInv
    <3>2. ReleaseSlot(Frontier) /\ task' = task
      BY <1>5, <2>2, <3>1 DEF Acknowledge
    <3>3. Window' = Window \ {next_release_ordinal}
      BY <3>2 DEF ReleaseSlot, Window, TypeOK
    <3>4. \A j \in Filled : j # Frontier => j \in Filled' /\ ready'[j] = ready[j]
      BY <3>2 DEF ReleaseSlot, Filled, TypeOK
    <3>5. Active' = Active
      BY <3>2 DEF Active
    <3>6. \A o \in Window' : \/ \E s \in Active' : task'[s] = o
                             \/ \E j \in Filled' : ready'[j].ordinal = o
      BY <3>1, <3>2, <3>3, <3>4, <3>5 DEF NoneMissing, InOrder
    <3>7. in_flight_records' = next_dispatch_ordinal' - next_release_ordinal'
      BY <3>1, <3>2 DEF ReleaseSlot, NoneMissing, TypeOK
    <3> QED
      BY <3>6, <3>7 DEF NoneMissing
  <2> QED
    BY <2>1, <2>2
<1>6. ASSUME NEW u \in Units, NEW own \in OwnBytes, Dispatch(u, own)
      PROVE  NoneMissing'
  BY <1>1, <1>2, <1>3, <1>6
     DEF Dispatch, DispatchRefused, Refuse, DispatchFails, StartDrain
<1>7. ASSUME Client PROVE NoneMissing'
  BY <1>1, <1>2, <1>5, <1>6, <1>7
     DEF Client, FinishDispatch, Poll, CancelAndDrain, StartDrain, Park
<1>8. ASSUME PollSteps PROVE NoneMissing'
  <2>1. CASE FrontierEmpty
    BY <1>2, <2>1 DEF FrontierEmpty
  <2>2. CASE JoinFault \/ FrontierStops
    BY <1>1, <2>2 DEF JoinFault, FrontierStops, StartDrain
  <2>3. CASE ScanSkip \/ ScanEnds \/ FrontierOffers
    BY <1>2, <2>3 DEF ScanSkip, ScanEnds, FrontierOffers
  <2> QED
    BY <1>4, <1>8, <2>1, <2>2, <2>3 DEF PollSteps
<1>9. ASSUME DrainSteps PROVE NoneMissing'
  BY <1>1, <1>9 DEF DrainSteps, DrainSkip, DrainJoin, DrainDrop, DrainEnds
<1>10. ASSUME Unpark PROVE NoneMissing'
  BY <1>2, <1>10 DEF Unpark
<1> QED
  BY <1>7, <1>8, <1>9, <1>10
     DEF Next, Worker, WorkerEnds, WorkerWakes, NoneMissing, Window, Active, Filled

\* No step but the coordinator's own waking clears a signal, and a worker that
\* exits leaves one.
LEMMA WakeStep ==
  ASSUME TypeOK, WakeInv, CursorInv, [Next]_vars
  PROVE  WakeInv'
<1> USE DEF counters, flags, coordVars, scopeVars, vars
<1>0. Cap \in Nat \ {0} /\ (1..Cap) = Slots
  BY ScopeAssumption DEF Slots
<1>1. ASSUME ~Waiting', at' \notin {"scan", "frontier"} PROVE WakeInv'
  BY <1>1 DEF WakeInv
<1>2. ASSUME NEW a \in Calls \cup {"none"}, Return(a), a # "pending" PROVE WakeInv'
  BY <1>1, <1>2 DEF Return, Waiting
<1>3. ASSUME at' = "drain" PROVE WakeInv'
  BY <1>1, <1>3 DEF Waiting
<1>4. ASSUME Client PROVE WakeInv'
  <2>1. ASSUME NEW u \in Units, NEW own \in OwnBytes, Dispatch(u, own)
        PROVE  WakeInv'
    BY <1>2, <1>3, <2>1
       DEF Dispatch, DispatchRefused, Refuse, DispatchFails, StartDrain, DispatchStarts,
           Calls
  <2>2. CASE Park
    BY <2>2 DEF Park, WakeInv, Waiting, Unheard
  <2>3. CASE Poll
    <3>1. CASE at' = "scan" /\ cursor' = 1
      BY <1>0, <3>1 DEF WakeInv, Waiting
    <3> QED
      BY <1>2, <2>3, <3>1 DEF Poll, Calls
  <2>4. CASE Acknowledge
    BY <1>2, <1>3, <2>4 DEF Acknowledge, StartDrain, Calls
  <2> QED
    BY <1>2, <1>3, <1>4, <2>1, <2>2, <2>3, <2>4
       DEF Client, FinishDispatch, CancelAndDrain, StartDrain
<1>5. ASSUME ScanSkip PROVE WakeInv'
  <2>1. ~Unheard(cursor)
    BY <1>5 DEF ScanSkip, IsFinished, Unheard
  <2>2. /\ at = "scan" /\ at' = "scan" /\ cursor \in Slots /\ cursor' = cursor + 1
        /\ UNCHANGED <<task, thread, signaled>>
    BY <1>5 DEF ScanSkip
  <2> QED
    BY <1>0, <2>1, <2>2 DEF WakeInv, Waiting, Unheard
<1>6. ASSUME JoinOutcome PROVE WakeInv'
  <2>1. /\ at = "scan" /\ at' = "scan" /\ cursor \in Slots /\ cursor' = cursor + 1
        /\ signaled' = signaled
        /\ task' = [task EXCEPT ![cursor] = NONE]
        /\ thread' = [thread EXCEPT ![cursor] = "none"]
    BY <1>6 DEF JoinOutcome, Join
  <2>2. \A s \in Slots : Unheard(s)' => Unheard(s) /\ s # cursor
    BY <2>1 DEF Unheard, TypeOK, ScopeTypeOK
  <2> QED
    BY <1>0, <2>1, <2>2 DEF WakeInv, Waiting
<1>7. ASSUME ScanEnds PROVE WakeInv'
  <2>1. /\ at = "scan" /\ at' = "frontier" /\ \A s \in Slots : s < cursor
        /\ UNCHANGED <<task, thread, signaled>>
    BY <1>0, <1>7 DEF ScanEnds
  <2> QED
    BY <2>1 DEF WakeInv, Waiting, Unheard
<1>8. ASSUME FrontierEmpty PROVE WakeInv'
  <2>1. at = "frontier" /\ at' = "client" /\ UNCHANGED <<task, thread, signaled>>
    BY <1>8 DEF FrontierEmpty, Return
  <2> QED
    BY <2>1 DEF WakeInv, Unheard
<1>9. ASSUME PollSteps PROVE WakeInv'
  BY <1>2, <1>3, <1>5, <1>6, <1>7, <1>8, <1>9
     DEF PollSteps, JoinFault, StartDrain, FrontierOffers, FrontierStops, Calls
<1>10. ASSUME DrainSteps PROVE WakeInv'
  <2>1. CASE DrainEnds
    BY <1>1, <2>1 DEF DrainEnds, CursorInv, Waiting
  <2> QED
    BY <1>3, <1>10, <2>1 DEF DrainSteps, DrainSkip, DrainJoin, DrainDrop
<1>11. ASSUME Unpark PROVE WakeInv'
  BY <1>2, <1>11 DEF Unpark
<1>12. ASSUME NEW s \in Slots, WorkerEnds(s) PROVE WakeInv'
  <2>1. \A t \in Slots : Unheard(t)' => Unheard(t)
    BY <1>12 DEF WorkerEnds, EndBody, Unheard, TypeOK, ScopeTypeOK
  <2> QED
    BY <1>12, <2>1 DEF WorkerEnds, EndBody, WakeInv, Waiting
<1>13. ASSUME NEW s \in Slots, WorkerWakes(s) PROVE WakeInv'
  BY <1>13 DEF WorkerWakes, WakeFrontier, WakeInv
<1> QED
  BY <1>4, <1>9, <1>10, <1>11, <1>12, <1>13 DEF Next, Worker, WakeInv, Waiting, Unheard

\* A scope cancelled is drained, whatever step is taken.
LEMMA StopStep ==
  ASSUME TypeOK, StopInv, CompleteInv, PendingInv, [Next]_vars
  PROVE  StopInv'
<1> USE DEF counters, flags, coordVars, scopeVars, vars
<1>1. ASSUME Client PROVE StopInv'
  <2>1. ASSUME NEW u \in Units, NEW own \in OwnBytes, Dispatch(u, own)
        PROVE  StopInv'
    <3>1. CASE DispatchRefused(u, own)
      BY <2>1, <3>1 DEF Dispatch, DispatchRefused, Refuse, StopInv
    <3>2. CASE DispatchFails(u, own)
      BY <3>2 DEF DispatchFails, StartDrain, StopInv
    <3>3. CASE DispatchStarts(u, own)
      BY <3>3 DEF DispatchStarts, Closed, StopInv
    <3> QED
      BY <2>1, <3>1, <3>2, <3>3 DEF Dispatch
  <2> QED
    BY <1>1, <2>1 DEF Client, FinishDispatch, Poll, Acknowledge, StartDrain,
                      CancelAndDrain, Park, StopInv
<1>2. ASSUME PollSteps PROVE StopInv'
  BY <1>2 DEF PollSteps, ScanSkip, JoinOutcome, JoinFault, StartDrain, ScanEnds,
              FrontierEmpty, FrontierOffers, FrontierStops, StopInv
<1>3. ASSUME DrainSteps PROVE StopInv'
  BY <1>3 DEF DrainSteps, DrainSkip, DrainJoin, DrainDrop, DrainEnds, StopInv
<1> QED
  BY <1>1, <1>2, <1>3
     DEF Next, Unpark, Worker, WorkerEnds, EndBody, WorkerWakes, WakeFrontier, StopInv

-----------------------------------------------------------------------------
(* The invariant holds throughout.                                         *)

\* The invariant holds at the start.
LEMMA InitInv == Init => IndInv
<1> SUFFICES ASSUME NEW workers \in 0..Permits, InitWith(workers) PROVE IndInv
  BY DEF Init
<1> USE DEF InitWith, ScopeInit
<1>1. TypeOK
  <2>1. ScopeTypeOK
    <3>1. 0 \in 0..workers
      BY ScopeAssumption
    <3> QED
      BY <3>1 DEF ScopeTypeOK, ThreadStates
  <2>2. cursor \in 1..(2 * Cap + 1) /\ 0 \in 0..Cap
    BY ScopeAssumption
  <2>3. 0 \in 0..MaxInput /\ 0 \in 0..MaxResults /\ 0 \in 0..Headroom
    BY OrderedAssumption
  <2>4. job \in Seq(Units)
    OBVIOUS
  <2> QED
    BY <2>1, <2>2, <2>3, <2>4 DEF TypeOK, Answers
<1>2. Active = {} /\ Filled = {}
  BY DEF Active, Filled
<1>3. Cardinality(Active) = 0
  BY <1>2, FS_EmptySet
<1>4. Window = {}
  BY DEF Window
<1>5. PermitInv
  BY <1>3 DEF PermitInv, PermitsExact
<1>6. PlaceInv
  BY <1>2 DEF PlaceInv
<1>7. NoneMissing /\ CountInv
  BY <1>3, <1>4 DEF NoneMissing, CountInv
<1> QED
  BY <1>1, <1>5, <1>6, <1>7
     DEF IndInv, OfferInv, CompleteInv, PendingInv, Waiting, CursorInv, WakeInv, StopInv

\* The invariant is inductive.
LEMMA StepInv == IndInv /\ [Next]_vars => IndInv'
  BY TypeStep, PermitStep, PlaceStep, MissingStep, CountStep, OfferStep, CompleteStep,
     PendingStep, CursorStep, WakeStep, StopStep DEF IndInv

\* The invariant holds throughout.
LEMMA Invariance == Spec => []IndInv
  BY InitInv, StepInv, PTL DEF Spec

-----------------------------------------------------------------------------
(* What follows.                                                           *)

\* Every variable keeps its type: the window's counters never overrun the limits
\* they are checked against and no release underflows one.
THEOREM TypeCorrect == Spec => []TypeOK
  BY Invariance, PTL DEF IndInv

\* No ordinal is lost, duplicated or misplaced between dispatch and release.
THEOREM EveryOrdinalInOnePlace == Spec => []InFlightExact
<1>1. ASSUME IndInv PROVE InFlightExact
  <2> SUFFICES ASSUME at # "drain" PROVE InFlightExact
    BY DEF InFlightExact, Draining
  <2> DEFINE window == IF complete THEN {} ELSE Window
             running == {task[s] : s \in Active}
             waiting == {ready[i].ordinal : i \in Filled}
  <2>1. running \cup waiting = window
    <3>1. CASE complete
      BY <1>1, <3>1 DEF IndInv, CompleteInv
    <3>2. CASE ~complete
      BY <1>1, <3>2 DEF IndInv, NoneMissing, PlaceInv
    <3> QED
      BY <3>1, <3>2
  <2>2. running \cap waiting = {}
    BY <1>1 DEF IndInv, PlaceInv
  <2>3. in_flight_records = Cardinality(window)
    <3>1. CASE complete
      BY <1>1, <3>1, FS_EmptySet DEF IndInv, CompleteInv
    <3>2. CASE ~complete
      <4>1. in_flight_records = next_dispatch_ordinal - next_release_ordinal
        BY <1>1, <3>2 DEF IndInv, NoneMissing
      <4>2. /\ next_dispatch_ordinal \in Int /\ next_release_ordinal \in Int
            /\ next_release_ordinal <= next_dispatch_ordinal
        BY <1>1 DEF IndInv, TypeOK, PlaceInv
      <4>3. Cardinality(Window) = next_dispatch_ordinal - next_release_ordinal
        <5>1. next_dispatch_ordinal - 1 \in Int
          BY <4>2
        <5>2. Cardinality(Window) = IF next_release_ordinal > next_dispatch_ordinal - 1
                                    THEN 0
                                    ELSE next_dispatch_ordinal - 1 - next_release_ordinal + 1
          BY <4>2, <5>1, FS_Interval DEF Window
        <5> QED
          BY <4>2, <5>2
      <4> QED
        BY <3>2, <4>1, <4>3
    <3> QED
      BY <3>1, <3>2
  <2>4. /\ \A s, t \in Active : task[s] = task[t] => s = t
        /\ \A i \in Filled : RingIndex(ready[i].ordinal) = i
    BY <1>1 DEF IndInv, PlaceInv
  <2> QED
    BY <2>1, <2>2, <2>3, <2>4 DEF InFlightExact, Window
<1> QED
  BY <1>1, Invariance, PTL

\* A permit is out exactly for each worker a task slot owns.
THEOREM PermitsFollowThreads == Spec => []PermitsExact
<1>1. IndInv => PermitsExact
  BY DEF IndInv, PermitInv
<1> QED
  BY <1>1, Invariance, PTL

\* A parked coordinator has been signalled or will be.
THEOREM WakeupsAreKept == Spec => []NoLostWakeup
<1>1. ASSUME IndInv, at = "parked", ~signaled
      PROVE  \E s \in Slots : task[s] # NONE /\ thread[s] \in {"running", "flagged"}
  <2>1. ready[Frontier] = NONE /\ ~complete
    BY <1>1 DEF IndInv, PendingInv, Waiting
  <2>2. in_flight_records = next_dispatch_ordinal - next_release_ordinal
    BY <1>1, <2>1 DEF IndInv, NoneMissing
  <2>3. in_flight_records > 0
    BY <1>1 DEF IndInv, PendingInv
  <2>4. next_release_ordinal \in Window
    BY <1>1, <2>2, <2>3 DEF IndInv, TypeOK, Window
  <2>5. \A i \in Filled : ready[i].ordinal # next_release_ordinal
    BY <1>1, <2>1 DEF IndInv, PlaceInv, Frontier, Filled
  <2>6. PICK s \in Active : task[s] = next_release_ordinal
    BY <1>1, <2>1, <2>4, <2>5 DEF IndInv, NoneMissing
  <2>7. s \in Slots /\ task[s] # NONE
    BY DEF Active
  <2>8. thread[s] # "exited"
    BY <1>1, <2>7 DEF IndInv, WakeInv, Waiting, Unheard
  <2>9. thread[s] \in ThreadStates /\ thread[s] # "none"
    BY <1>1, <2>7 DEF IndInv, TypeOK, ScopeTypeOK, PermitInv, PermitsExact
  <2> QED
    BY <2>7, <2>8, <2>9 DEF ThreadStates
<1> QED
  BY <1>1, Invariance, PTL DEF NoLostWakeup

\* Once the scope is cancelled nothing is released, offered or started.
THEOREM StopIsFinal == Spec => NothingAfterStop
<1>1. ASSUME IndInv, [Next]_vars, cancelled
      PROVE  /\ next_release_ordinal' = next_release_ordinal
             /\ next_dispatch_ordinal' = next_dispatch_ordinal
             /\ offered_slot' \in {offered_slot, NONE}
  <2> USE DEF counters, flags, coordVars, scopeVars, vars
  <2>1. at = "drain" \/ (complete /\ at = "client")
    BY <1>1 DEF IndInv, StopInv, CompleteInv
  <2>2. ASSUME NEW u \in Units, NEW own \in OwnBytes, Dispatch(u, own)
        PROVE  UNCHANGED <<next_release_ordinal, next_dispatch_ordinal, offered_slot>>
    BY <1>1, <2>2 DEF Dispatch, DispatchRefused, Refuse, DispatchFails, DispatchStarts, Closed
  <2>3. ~Acknowledge
    BY <1>1, <2>1 DEF IndInv, OfferInv, Acknowledge
  <2>4. ~PollSteps
    BY <2>1 DEF PollSteps, ScanSkip, JoinOutcome, JoinFault, ScanEnds, FrontierEmpty,
                FrontierOffers, FrontierStops
  <2>5. ASSUME DrainSteps
        PROVE  /\ UNCHANGED <<next_release_ordinal, next_dispatch_ordinal>>
               /\ offered_slot' \in {offered_slot, NONE}
    BY <2>5 DEF DrainSteps, DrainSkip, DrainJoin, DrainDrop, DrainEnds
  <2> QED
    BY <1>1, <2>2, <2>3, <2>4, <2>5
       DEF Next, Client, FinishDispatch, Poll, CancelAndDrain, Park, Unpark, Worker,
           WorkerEnds, WorkerWakes
<1> QED
  BY <1>1, Invariance, PTL DEF Spec, NothingAfterStop

\* The two ring contracts poll_next checks can never fail: a finished worker's
\* ring slot is free, and what the frontier slot holds is the frontier's ordinal.
RingNeverCollides ==
  at # "drain" =>
    /\ \A s \in Active : ready[RingIndex(task[s])] = NONE
    /\ ready[Frontier] # NONE => InOrder

\* Outside the drain no join finds its ring slot taken.
LEMMA RingSound ==
  ASSUME IndInv, at # "drain"
  PROVE  RingNeverCollides
<1>1. Frontier \in Ring
  BY RingIndexInRing DEF IndInv, TypeOK, Frontier
<1>2. CASE complete
  BY <1>1, <1>2 DEF IndInv, CompleteInv, RingNeverCollides, Filled
<1>3. CASE ~complete
  <2>1. /\ next_dispatch_ordinal \in Nat /\ next_release_ordinal \in Nat
        /\ Cap \in Nat /\ next_dispatch_ordinal - next_release_ordinal <= Cap
    BY <1>3, ScopeAssumption DEF IndInv, NoneMissing, TypeOK
  <2>2. \A o, p \in Nat : o \in Window /\ p \in Window => o - p < Cap
    BY <2>1 DEF Window
  <2>3. \A o \in Window : o \in Nat
    BY <2>1 DEF Window
  <2>4. \A o, p \in Window : RingIndex(o) = RingIndex(p) => o = p
    BY <2>2, <2>3, RingInjective
  <2>5. ASSUME NEW s \in Active PROVE ready[RingIndex(task[s])] = NONE
    <3>1. task[s] \in Window
      BY DEF IndInv, PlaceInv
    <3>2. RingIndex(task[s]) \in Ring
      BY <2>3, <3>1, RingIndexInRing
    <3> QED
      BY <2>4, <3>1, <3>2 DEF IndInv, PlaceInv, Filled
  <2>6. ASSUME ready[Frontier] # NONE PROVE InOrder
    <3> DEFINE o == ready[Frontier].ordinal
    <3>1. o \in Window /\ RingIndex(o) = Frontier
      BY <1>1, <2>6 DEF IndInv, PlaceInv, Filled
    <3>2. next_release_ordinal \in Window
      BY <2>1, <3>1 DEF Window
    <3> QED
      BY <2>4, <3>1, <3>2 DEF InOrder, Frontier
  <2> QED
    BY <2>5, <2>6 DEF RingNeverCollides
<1> QED
  BY <1>2, <1>3

\* No join ever finds its ring slot taken, and the frontier never holds a result
\* of another generation.
THEOREM RingIsSound == Spec => []RingNeverCollides
<1>1. IndInv => RingNeverCollides
  <2>1. at = "drain" => RingNeverCollides
    BY DEF RingNeverCollides
  <2> QED
    BY <2>1, RingSound
<1> QED
  BY <1>1, Invariance, PTL

-----------------------------------------------------------------------------
(* The ledger: what is charged is the sum of what is held, step by step.   *)

\* The ring is a finite set.
LEMMA RingFinite == IsFiniteSet(Ring) /\ \A R \in SUBSET Ring : IsFiniteSet(R)
<1>1. 0 \in Int /\ Cap - 1 \in Int
  BY ScopeAssumption
<1>2. IsFiniteSet(Ring)
  BY <1>1, FS_Interval DEF Ring
<1> QED
  BY <1>2, FS_Subset

\* What the two sums add up are numbers, before a step and after it.
LEMMA BytesTyped ==
  TypeOK /\ PlaceInv => RingBytes \in [Ring -> Nat] /\ TaskBytes \in [Slots -> Nat]
<1> SUFFICES ASSUME TypeOK, PlaceInv
             PROVE  RingBytes \in [Ring -> Nat] /\ TaskBytes \in [Slots -> Nat]
  OBVIOUS
<1>1. RingBytes \in [Ring -> Nat]
  BY JobTyped DEF RingBytes
<1>2. \A s \in Slots : task[s] # NONE => InputBytes[JobOf(task[s])] \in Nat
  BY JobTyped, OrderedAssumption DEF Active
<1> QED
  BY <1>1, <1>2 DEF TaskBytes

\* The same, after a step.
LEMMA BytesTypedNext ==
  (TypeOK /\ PlaceInv)' =>
    (RingBytes \in [Ring -> Nat])' /\ (TaskBytes \in [Slots -> Nat])'
  BY BytesTyped, PTL

\* Sums of numbers are numbers at least as large as each.
LEMMA SumsTyped ==
  ASSUME TypeOK, PlaceInv
  PROVE  /\ SumFunctionOnSet(RingBytes, Ring) \in Nat
         /\ SumFunctionOnSet(TaskBytes, Slots) \in Nat
         /\ \A i \in Ring : HeldBy(ready[i]) <= SumFunctionOnSet(RingBytes, Ring)
         /\ \A s \in Active : InputBytes[JobOf(task[s])] <= SumFunctionOnSet(TaskBytes, Slots)
<1>1. /\ SumFunctionOnSet(RingBytes, Ring) \in Nat
      /\ \A i \in Ring : RingBytes[i] <= SumFunctionOnSet(RingBytes, Ring)
  BY BytesTyped, RingFinite, SumOfNaturals
<1>2. /\ SumFunctionOnSet(TaskBytes, Slots) \in Nat
      /\ \A s \in Slots : TaskBytes[s] <= SumFunctionOnSet(TaskBytes, Slots)
  BY BytesTyped, SlotsFinite, SumOfNaturals
<1>3. \A i \in Ring : RingBytes[i] = HeldBy(ready[i])
  BY DEF RingBytes
<1>4. \A s \in Active : s \in Slots /\ TaskBytes[s] = InputBytes[JobOf(task[s])]
  BY DEF TaskBytes, Active
<1> QED
  BY <1>1, <1>2, <1>3, <1>4

\* One slot of the ring changes: the sum changes by as much.
LEMMA RingSumChanges ==
  ASSUME TypeOK, PlaceInv, TypeOK', PlaceInv', NEW i \in Ring, NEW v,
         ready' = [ready EXCEPT ![i] = v], job' = job
  PROVE  SumFunctionOnSet(RingBytes, Ring)' =
           SumFunctionOnSet(RingBytes, Ring) - HeldBy(ready[i]) + HeldBy(v)'
<1>1. RingBytes \in [Ring -> Int]
  BY BytesTyped
<1>2. RingBytes' \in [Ring -> Int]
  BY BytesTypedNext
<1>3. \A j \in Ring \ {i} : RingBytes'[j] = RingBytes[j]
  BY DEF TypeOK, RingBytes, HeldBy, JobOf
<1>4. ready'[i] = v
  BY DEF TypeOK
<1>5. RingBytes[i] = HeldBy(ready[i]) /\ RingBytes'[i] = HeldBy(v)'
  BY <1>4 DEF RingBytes, HeldBy, JobOf
<1>6. SumFunctionOnSet(RingBytes', Ring) =
        SumFunctionOnSet(RingBytes, Ring) - RingBytes[i] + RingBytes'[i]
  BY <1>1, <1>2, <1>3, RingFinite, SumChanges
<1> QED
  BY <1>5, <1>6

\* One more of anything, or one fewer.
LEMMA Multiples ==
  ASSUME NEW g \in Nat, NEW n \in Nat
  PROVE  /\ g * n \in Nat /\ g * (n + 1) = g * n + g
         /\ n >= 1 => g * (n - 1) = g * n - g /\ g * n >= g
<1>1. g * n \in Nat /\ g * (n + 1) = g * n + g
  OBVIOUS
<1>2. ASSUME n >= 1 PROVE g * (n - 1) = g * n - g /\ g * n >= g
  <2>1. n - 1 \in Nat
    BY <1>2
  <2>2. g * (n - 1) \in Nat /\ g * (n - 1) = g * n - g
    BY <2>1
  <2> QED
    BY <2>2
<1> QED
  BY <1>1, <1>2

\* What the parent is charged for: LedgerExact's first half, which holds while a
\* drain runs too.
Balanced ==
  charged = GrantBytes * Cardinality(Active) + SumFunctionOnSet(RingBytes, Ring)

\* A step that joins a task gives back the worker's envelope, less what enters the
\* ring.
LEMMA JoinBalances ==
  ASSUME IndInv, Balanced, NEW s \in Active, NEW kept \in 0..GrantBytes,
         task' = [task EXCEPT ![s] = NONE], charged' = Released(GrantBytes - kept),
         SumFunctionOnSet(RingBytes, Ring)' = SumFunctionOnSet(RingBytes, Ring) + kept
  PROVE  Balanced'
<1> DEFINE n == Cardinality(Active)
           inRing == SumFunctionOnSet(RingBytes, Ring)
<1>1. Cardinality(Active') = n - 1 /\ n \in Nat /\ n - 1 \in Nat
  <2>1. Active \subseteq Slots /\ Active' \subseteq Slots
    BY DEF Active
  <2>2. Cardinality(Active') = n - 1
    BY ActiveShrinks DEF IndInv
  <2> QED
    BY <2>1, <2>2, SlotsFinite
<1>2. inRing \in Nat
  BY SumsTyped DEF IndInv
<1>3. GrantBytes \in Nat /\ kept \in Int
  BY OrderedAssumption
<1> HIDE DEF n, inRing
<1>4. /\ GrantBytes * n \in Nat /\ GrantBytes * n >= GrantBytes
      /\ GrantBytes * (n - 1) = GrantBytes * n - GrantBytes
  BY <1>1, <1>3, Multiples
<1>5. charged = GrantBytes * n + inRing
  BY DEF Balanced, n, inRing
<1>6. charged' = charged - (GrantBytes - kept)
  BY <1>2, <1>3, <1>4, <1>5 DEF Released
<1>7. inRing' = inRing + kept
  BY DEF inRing
<1>8. charged' = GrantBytes * (n - 1) + inRing'
  BY <1>2, <1>3, <1>4, <1>5, <1>6, <1>7
<1> QED
  BY <1>1, <1>8 DEF Balanced, inRing

\* A step that empties a ring slot gives back what the slot held.
LEMMA ReleaseBalances ==
  ASSUME IndInv, IndInv', Balanced, NEW i \in Ring,
         ready' = [ready EXCEPT ![i] = NONE], charged' = Released(HeldBy(ready[i])),
         UNCHANGED <<job, task>>
  PROVE  Balanced'
<1> DEFINE n == Cardinality(Active)
           inRing == SumFunctionOnSet(RingBytes, Ring)
           leaves == HeldBy(ready[i])
<1>1. inRing \in Nat /\ leaves \in Nat /\ leaves <= inRing
  BY SumsTyped, JobTyped DEF IndInv
<1>2. inRing' = inRing - leaves
  <2>1. SumFunctionOnSet(RingBytes, Ring)' = inRing - leaves + HeldBy(NONE)'
    BY RingSumChanges DEF IndInv
  <2>2. HeldBy(NONE)' = 0
    BY DEF HeldBy
  <2> QED
    BY <1>1, <2>1, <2>2
<1>3. n \in Nat /\ n' = n
  BY SlotsFinite DEF Active
<1> HIDE DEF n, inRing, leaves
<1>4. GrantBytes * n \in Nat
  BY <1>3, Multiples, OrderedAssumption
<1>5. charged = GrantBytes * n + inRing
  BY DEF Balanced, n, inRing
<1>6. charged' = charged - leaves
  BY <1>1, <1>4, <1>5 DEF Released, leaves
<1>7. charged' = GrantBytes * n' + inRing'
  BY <1>1, <1>2, <1>3, <1>4, <1>5, <1>6
<1> QED
  BY <1>7 DEF Balanced, n, inRing

\* A dispatch leaves what the ring holds alone: its ordinal is new.
LEMMA DispatchKeepsRing ==
  ASSUME IndInv, NEW u \in Units, job' = Append(job, u), ready' = ready
  PROVE  /\ RingBytes' = RingBytes
         /\ \A s \in Active : job'[task[s] + 1] = job[task[s] + 1]
         /\ job'[next_dispatch_ordinal + 1] = u
<1>1. job \in Seq(Units) /\ next_dispatch_ordinal = Len(job) /\ next_release_ordinal \in Nat
  BY DEF IndInv, TypeOK, PlaceInv
<1>2. \A o \in Window : o + 1 \in 1..Len(job) /\ job'[o + 1] = job[o + 1]
  BY <1>1 DEF Window
<1>3. \A i \in Filled : ready[i].ordinal \in Window
  BY DEF IndInv, PlaceInv
<1>4. \A i \in Ring : HeldBy(ready[i])' = HeldBy(ready[i])
  BY <1>2, <1>3 DEF HeldBy, JobOf, Filled
<1>5. RingBytes' = RingBytes
  BY <1>4 DEF RingBytes
<1>6. \A s \in Active : job'[task[s] + 1] = job[task[s] + 1]
  BY <1>2 DEF IndInv, PlaceInv
<1>7. job'[next_dispatch_ordinal + 1] = u
  BY <1>1
<1> QED
  BY <1>5, <1>6, <1>7

\* Every step keeps the ledger balanced.
LEMMA LedgerStep ==
  ASSUME IndInv, IndInv', Balanced, [Next]_vars
  PROVE  Balanced'
<1> USE DEF counters, flags, coordVars, scopeVars, vars
<1>1. ASSUME UNCHANGED <<job, task, ready, charged>> PROVE Balanced'
  BY <1>1 DEF Balanced, Active, RingBytes, HeldBy, JobOf
<1>2. ASSUME NEW u \in Units, NEW own \in OwnBytes, DispatchStarts(u, own)
      PROVE  Balanced'
  <2>1. FirstFree \in FreeSlots
    BY <1>2, FirstFreeIsFree DEF DispatchStarts
  <2>2. next_dispatch_ordinal \in Nat
    BY DEF IndInv, TypeOK
  <2>3. Cardinality(Active') = Cardinality(Active) + 1
    BY <1>2, <2>1, <2>2, ActiveGrows DEF DispatchStarts, IndInv
  <2>4. Cardinality(Active) \in Nat
    BY SlotsFinite DEF Active
  <2>5. RingBytes' = RingBytes
    BY <1>2, DispatchKeepsRing DEF DispatchStarts
  <2> DEFINE n == Cardinality(Active)
             inRing == SumFunctionOnSet(RingBytes, Ring)
  <2>6. inRing \in Nat /\ inRing' = inRing
    BY <2>5, SumsTyped DEF IndInv
  <2> HIDE DEF n, inRing
  <2>7. n' = n + 1 /\ n \in Nat
    BY <2>3, <2>4 DEF n
  <2>8. GrantBytes * n \in Nat /\ GrantBytes * (n + 1) = GrantBytes * n + GrantBytes
    BY <2>7, Multiples, OrderedAssumption
  <2>9. charged' = charged + GrantBytes /\ charged = GrantBytes * n + inRing
    BY <1>2 DEF DispatchStarts, Balanced, n, inRing
  <2>10. charged' = GrantBytes * n' + inRing'
    BY <2>6, <2>7, <2>8, <2>9, OrderedAssumption
  <2> QED
    BY <2>10 DEF Balanced, n, inRing
<1>3. ASSUME NEW s \in Active, task' = [task EXCEPT ![s] = NONE],
             charged' = Released(GrantBytes), UNCHANGED <<job, ready>>
      PROVE  Balanced'
  <2>1. RingBytes' = RingBytes
    BY <1>3 DEF RingBytes, HeldBy, JobOf
  <2>2. SumFunctionOnSet(RingBytes, Ring) \in Nat /\ GrantBytes \in Nat
    BY SumsTyped, OrderedAssumption DEF IndInv
  <2>3. SumFunctionOnSet(RingBytes, Ring)' = SumFunctionOnSet(RingBytes, Ring) + 0
    BY <2>1, <2>2
  <2>4. charged' = Released(GrantBytes - 0) /\ 0 \in 0..GrantBytes
    BY <1>3, <2>2
  <2> QED
    BY <1>3, <2>3, <2>4, JoinBalances
<1>4. ASSUME JoinOutcome PROVE Balanced'
  <2> DEFINE o == task[cursor]
             kept == IF ended[cursor] = Clean THEN ResultBytes[JobOf(o)] ELSE 0
             slot == [ordinal |-> o, kind |-> ended[cursor]]
  <2>1. cursor \in Active /\ o \in Nat /\ JobOf(o) \in Units
    <3>1. cursor \in Active
      BY <1>4 DEF JoinOutcome, Active
    <3>2. o \in Nat
      BY <3>1 DEF IndInv, TypeOK, Active
    <3> QED
      BY <3>1, <3>2, JobTyped DEF IndInv
  <2>2. kept \in 0..GrantBytes
    BY <2>1, OrderedAssumption
  <2>3. /\ task' = [task EXCEPT ![cursor] = NONE]
        /\ ready' = [ready EXCEPT ![RingIndex(o)] = slot]
        /\ charged' = Released(GrantBytes - kept) /\ job' = job
        /\ ready[RingIndex(o)] = NONE
    BY <1>4 DEF JoinOutcome, JoinIsSound
  <2>4. HeldBy(ready[RingIndex(o)]) = 0
    BY <2>3 DEF HeldBy
  <2>5. PICK v : v = slot
    OBVIOUS
  <2>6. HeldBy(v)' = kept
    <3>1. slot \in Slot
      BY <1>4, <2>1 DEF JoinOutcome, HasOutcome, Slot
    <3>2. v # NONE /\ v.ordinal = o /\ v.kind = ended[cursor]
      BY <2>5, <3>1, OrderedAssumption
    <3> QED
      BY <2>3, <3>2 DEF HeldBy, JobOf
  <2>7. SumFunctionOnSet(RingBytes, Ring)' = SumFunctionOnSet(RingBytes, Ring) - 0 + kept
    <3>1. RingIndex(o) \in Ring
      BY <2>1, RingIndexInRing
    <3>2. ready' = [ready EXCEPT ![RingIndex(o)] = v]
      BY <2>3, <2>5
    <3>3. PICK i \in Ring : i = RingIndex(o)
      BY <3>1
    <3>4. SumFunctionOnSet(RingBytes, Ring)' =
            SumFunctionOnSet(RingBytes, Ring) - HeldBy(ready[i]) + HeldBy(v)'
      BY <2>3, <3>2, <3>3, RingSumChanges DEF IndInv
    <3> QED
      BY <2>4, <2>6, <3>3, <3>4
  <2>8. SumFunctionOnSet(RingBytes, Ring) \in Nat
    BY SumsTyped DEF IndInv
  <2>9. SumFunctionOnSet(RingBytes, Ring)' = SumFunctionOnSet(RingBytes, Ring) + kept
    BY <2>7, <2>8
  <2> QED
    BY <2>1, <2>2, <2>3, <2>9, JoinBalances
<1>5. ASSUME NEW i \in Ring, ReleaseSlot(i), UNCHANGED <<job, task>> PROVE Balanced'
  BY <1>5, ReleaseBalances DEF ReleaseSlot
<1>6. ASSUME Acknowledge PROVE Balanced'
  <2>1. offered_slot \in Ring /\ UNCHANGED <<job, task>>
    BY <1>6 DEF Acknowledge, IndInv, TypeOK
  <2> QED
    BY <1>1, <1>5, <1>6, <2>1 DEF Acknowledge
<1>7. ASSUME FrontierStops PROVE Balanced'
  <2>1. Frontier \in Ring /\ UNCHANGED <<job, task>>
    BY <1>7, RingIndexInRing DEF FrontierStops, Frontier, IndInv, TypeOK
  <2> QED
    BY <1>1, <1>5, <1>7, <2>1 DEF FrontierStops
<1>8. ASSUME JoinFault PROVE Balanced'
  BY <1>3, <1>8 DEF JoinFault, Active
<1>9. ASSUME DrainSteps PROVE Balanced'
  <2>1. CASE DrainJoin
    BY <1>3, <2>1 DEF DrainJoin, Active
  <2>2. CASE DrainDrop
    <3>1. cursor - Cap - 1 \in Ring
      BY <2>2, ScopeAssumption DEF DrainDrop, Ring
    <3> QED
      BY <2>2, <3>1, ReleaseBalances DEF DrainDrop
  <2>3. CASE DrainSkip \/ DrainEnds
    BY <1>1, <2>3 DEF DrainSkip, DrainEnds
  <2> QED
    BY <1>9, <2>1, <2>2, <2>3 DEF DrainSteps
<1>10. ASSUME PollSteps PROVE Balanced'
  BY <1>1, <1>4, <1>7, <1>8, <1>10
     DEF PollSteps, ScanSkip, ScanEnds, FrontierEmpty, FrontierOffers
<1>11. ASSUME NEW u \in Units, NEW own \in OwnBytes, Dispatch(u, own)
       PROVE  Balanced'
  BY <1>1, <1>2, <1>11 DEF Dispatch, DispatchRefused, Refuse, DispatchFails
<1>12. ASSUME Client PROVE Balanced'
  BY <1>1, <1>6, <1>11, <1>12 DEF Client, FinishDispatch, Poll, CancelAndDrain, Park
<1> QED
  BY <1>1, <1>9, <1>10, <1>12
     DEF Next, Unpark, Worker, WorkerEnds, WorkerWakes

\* The counters the window is judged by: LedgerExact's second half.
WindowCounts ==
  at # "drain" =>
    /\ in_flight_input_bytes = SumFunctionOnSet(TaskBytes, Slots)
    /\ reorder_result_bytes = OutputBytes * in_flight_records
    /\ ready_results = Cardinality(Filled)

\* A ring slot filled or emptied makes one result more or less.
LEMMA FilledGrows ==
  ASSUME TypeOK, NEW i \in Ring, NEW v, v # NONE, ready[i] = NONE,
         ready' = [ready EXCEPT ![i] = v]
  PROVE  Cardinality(Filled') = Cardinality(Filled) + 1
<1>1. Filled' = Filled \cup {i} /\ i \notin Filled
  BY DEF TypeOK, Filled
<1> QED
  BY <1>1, RingFinite, FS_AddElement DEF Filled

\* A release or a discard empties one ring slot.
LEMMA FilledShrinks ==
  ASSUME TypeOK, NEW i \in Filled, ready' = [ready EXCEPT ![i] = NONE]
  PROVE  Cardinality(Filled') = Cardinality(Filled) - 1
<1>1. Filled' = Filled \ {i}
  BY DEF TypeOK, Filled
<1> QED
  BY <1>1, RingFinite, FS_RemoveElement DEF Filled

\* One task slot changes: the sum changes by as much.
LEMMA TaskSumChanges ==
  ASSUME IndInv, IndInv', NEW s \in Slots,
         \A t \in Slots \ {s} : TaskBytes'[t] = TaskBytes[t]
  PROVE  SumFunctionOnSet(TaskBytes, Slots)' =
           SumFunctionOnSet(TaskBytes, Slots) - TaskBytes[s] + TaskBytes'[s]
<1>1. TaskBytes \in [Slots -> Int]
  BY BytesTyped DEF IndInv
<1>2. TaskBytes' \in [Slots -> Int]
  BY BytesTypedNext DEF IndInv
<1> QED
  BY <1>1, <1>2, SlotsFinite, SumChanges

\* The frontier's release is judged by counts that are exact.
LEMMA ReleaseCountsHold ==
  ASSUME IndInv, WindowCounts, at # "drain", Filled # {}
  PROVE  ReleaseCounts
<1>1. ready_results >= 1
  <2>1. IsFiniteSet(Filled)
    BY RingFinite DEF Filled
  <2>2. Cardinality(Filled) \in Nat /\ Cardinality(Filled) # 0
    BY <2>1, FS_CardinalityType, FS_EmptySet
  <2> QED
    BY <2>2 DEF WindowCounts
<1>2. in_flight_records >= 1
  BY <1>1 DEF IndInv, TypeOK, CountInv
<1>3. OutputBytes \in Nat /\ in_flight_records \in Nat
  BY OrderedAssumption, ScopeAssumption DEF IndInv, TypeOK
<1>4. OutputBytes * in_flight_records >= OutputBytes
  BY <1>2, <1>3, Multiples
<1> QED
  BY <1>1, <1>2, <1>4 DEF WindowCounts, ReleaseCounts

\* A release takes its own records and bytes off the window's counters.
LEMMA ReleaseKeepsCounts ==
  ASSUME IndInv, IndInv', WindowCounts, at # "drain", NEW i \in Filled, ReleaseSlot(i),
         UNCHANGED <<job, task>>
  PROVE  WindowCounts'
<1>1. TaskBytes' = TaskBytes
  BY DEF TaskBytes, JobOf
<1>2. Cardinality(Filled') = Cardinality(Filled) - 1
  BY FilledShrinks DEF ReleaseSlot, IndInv
<1>3. OutputBytes \in Nat /\ in_flight_records \in Nat
  BY OrderedAssumption, ScopeAssumption DEF IndInv, TypeOK
<1>4. in_flight_records >= 1
  BY ReleaseCountsHold DEF ReleaseCounts
<1>5. OutputBytes * (in_flight_records - 1) = OutputBytes * in_flight_records - OutputBytes
  BY <1>3, <1>4, Multiples
<1> QED
  BY <1>1, <1>2, <1>5 DEF ReleaseSlot, WindowCounts

\* Every step keeps the window's counters equal to the sums they stand for.
LEMMA CountsStep ==
  ASSUME IndInv, IndInv', WindowCounts, [Next]_vars
  PROVE  WindowCounts'
<1> USE DEF counters, flags, coordVars, scopeVars, vars
<1>1. ASSUME at' = "drain" PROVE WindowCounts'
  BY <1>1 DEF WindowCounts
<1>2. ASSUME UNCHANGED <<job, task, ready, counters>>, at # "drain" PROVE WindowCounts'
  BY <1>2 DEF WindowCounts, TaskBytes, JobOf, Filled
<1>3. ASSUME NEW u \in Units, NEW own \in OwnBytes, DispatchStarts(u, own), at = "client"
      PROVE  WindowCounts'
  <2>1. FirstFree \in FreeSlots /\ FirstFree \in Slots
    BY <1>3, FirstFreeIsFree DEF DispatchStarts, FreeSlots
  <2> DEFINE s == FirstFree
  <2>2. /\ task' = [task EXCEPT ![s] = next_dispatch_ordinal] /\ task[s] = NONE
        /\ job' = Append(job, u) /\ ready' = ready
    BY <1>3, <2>1 DEF DispatchStarts, FreeSlots
  <2> HIDE DEF s
  <2>3. task \in [Slots -> Nat \cup {NONE}] /\ next_dispatch_ordinal \in Nat /\ s \in Slots
    BY <2>1 DEF IndInv, TypeOK, s
  <2>4. /\ job'[next_dispatch_ordinal + 1] = u
        /\ \A t \in Active : job'[task[t] + 1] = job[task[t] + 1]
    BY <2>2, DispatchKeepsRing
  <2>5. \A t \in Slots \ {s} : TaskBytes'[t] = TaskBytes[t]
    BY <2>2, <2>3, <2>4 DEF TaskBytes, JobOf, Active
  <2>6. TaskBytes[s] = 0 /\ TaskBytes'[s] = InputBytes[u]
    BY <2>2, <2>3, <2>4, OrderedAssumption DEF TaskBytes, JobOf
  <2>7. PICK t \in Slots : t = s
    BY <2>3
  <2>8. SumFunctionOnSet(TaskBytes, Slots)' =
          SumFunctionOnSet(TaskBytes, Slots) - TaskBytes[t] + TaskBytes'[t]
    BY <2>5, <2>7, TaskSumChanges
  <2>9. /\ in_flight_input_bytes' = in_flight_input_bytes + InputBytes[u]
        /\ reorder_result_bytes' = reorder_result_bytes + OutputBytes
        /\ in_flight_records' = in_flight_records + 1
        /\ UNCHANGED ready_results
    BY <1>3 DEF DispatchStarts
  <2>10. /\ in_flight_input_bytes = SumFunctionOnSet(TaskBytes, Slots)
         /\ reorder_result_bytes = OutputBytes * in_flight_records
         /\ ready_results = Cardinality(Filled)
    BY <1>3 DEF WindowCounts
  <2>11. SumFunctionOnSet(TaskBytes, Slots) \in Nat /\ InputBytes[u] \in Nat
    BY SumsTyped, OrderedAssumption DEF IndInv
  <2>12. in_flight_input_bytes' = SumFunctionOnSet(TaskBytes, Slots)'
    BY <2>6, <2>7, <2>8, <2>9, <2>10, <2>11
  <2>13. OutputBytes * (in_flight_records + 1) = OutputBytes * in_flight_records + OutputBytes
    BY OrderedAssumption, ScopeAssumption, Multiples DEF IndInv, TypeOK
  <2>14. Filled' = Filled
    BY <2>2 DEF Filled
  <2> QED
    BY <2>9, <2>10, <2>12, <2>13, <2>14 DEF WindowCounts
<1>4. ASSUME JoinOutcome PROVE WindowCounts'
  <2> DEFINE o == task[cursor]
             slot == [ordinal |-> o, kind |-> ended[cursor]]
  <2>1. cursor \in Active /\ cursor \in Slots /\ o \in Nat /\ at = "scan"
    <3>1. cursor \in Active
      BY <1>4 DEF JoinOutcome, Active
    <3> QED
      BY <1>4, <3>1 DEF IndInv, TypeOK, Active, JoinOutcome
  <2>2. /\ task' = [task EXCEPT ![cursor] = NONE] /\ job' = job
        /\ ready' = [ready EXCEPT ![RingIndex(o)] = slot] /\ ready[RingIndex(o)] = NONE
    BY <1>4 DEF JoinOutcome, JoinIsSound
  <2>3. slot # NONE /\ RingIndex(o) \in Ring
    <3>1. slot \in Slot
      BY <1>4, <2>1 DEF JoinOutcome, HasOutcome, Slot
    <3> QED
      BY <2>1, <3>1, OrderedAssumption, RingIndexInRing
  <2>4. Cardinality(Filled') = Cardinality(Filled) + 1
    <3>1. PICK v, i : v = slot /\ i = RingIndex(o)
      OBVIOUS
    <3>2. i \in Ring /\ v # NONE /\ ready[i] = NONE /\ ready' = [ready EXCEPT ![i] = v]
      BY <2>2, <2>3, <3>1
    <3> QED
      BY <3>2, FilledGrows DEF IndInv
  <2>5. task \in [Slots -> Nat \cup {NONE}]
    BY DEF IndInv, TypeOK
  <2>6. PICK s \in Slots : s = cursor
    BY <2>1
  <2>7. \A t \in Slots \ {s} : TaskBytes'[t] = TaskBytes[t]
    BY <2>2, <2>5, <2>6 DEF TaskBytes, JobOf
  <2>8. TaskBytes[s] = InputBytes[JobOf(o)] /\ TaskBytes'[s] = 0
    BY <2>1, <2>2, <2>5, <2>6 DEF TaskBytes, Active
  <2>9. SumFunctionOnSet(TaskBytes, Slots)' =
          SumFunctionOnSet(TaskBytes, Slots) - TaskBytes[s] + TaskBytes'[s]
    BY <2>7, TaskSumChanges
  <2>10. /\ in_flight_input_bytes' = in_flight_input_bytes - InputBytes[JobOf(o)]
         /\ ready_results' = ready_results + 1
         /\ UNCHANGED <<reorder_result_bytes, in_flight_records>>
    BY <1>4 DEF JoinOutcome
  <2>11. SumFunctionOnSet(TaskBytes, Slots) \in Nat /\ InputBytes[JobOf(o)] \in Nat
    <3>1. JobOf(o) \in Units
      BY <2>1, JobTyped DEF IndInv
    <3> QED
      BY <3>1, SumsTyped, OrderedAssumption DEF IndInv
  <2>12. in_flight_input_bytes' = SumFunctionOnSet(TaskBytes, Slots)'
    BY <2>1, <2>8, <2>9, <2>10, <2>11 DEF WindowCounts
  <2> QED
    BY <2>1, <2>4, <2>10, <2>12 DEF WindowCounts
<1>5. ASSUME Acknowledge PROVE WindowCounts'
  <2>1. at = "client" /\ UNCHANGED <<job, task>>
    BY <1>5 DEF Acknowledge
  <2>2. offered_slot \in Filled
    BY <1>5, <2>1, RingIndexInRing
       DEF Acknowledge, IndInv, TypeOK, OfferInv, Frontier, Filled
  <2>3. ReleaseSlot(offered_slot)
    BY <1>5, <2>1, <2>2, ReleaseCountsHold DEF Acknowledge
  <2> QED
    BY <2>1, <2>2, <2>3, ReleaseKeepsCounts
<1>6. ASSUME FrontierStops \/ JoinFault PROVE WindowCounts'
  BY <1>1, <1>6 DEF FrontierStops, JoinFault, StartDrain
<1>7. ASSUME DrainSteps PROVE WindowCounts'
  <2>1. CASE DrainEnds
    <3>1. Active' = {} /\ Filled' = {}
      BY <2>1 DEF DrainEnds, IndInv, CompleteInv
    <3>2. /\ in_flight_input_bytes' = 0 /\ reorder_result_bytes' = 0
          /\ in_flight_records' = 0 /\ ready_results' = 0
      BY <2>1 DEF DrainEnds
    <3>3. \A s \in Slots : TaskBytes'[s] = 0
      BY <3>1 DEF TaskBytes, Active
    <3>4. TaskBytes' \in [Slots -> Int]
      BY BytesTypedNext DEF IndInv
    <3>5. SumFunctionOnSet(TaskBytes', Slots) = 0
      BY <3>3, <3>4, SlotsFinite, SumOfZeros
    <3>6. Cardinality(Filled') = 0
      BY <3>1, FS_EmptySet
    <3>7. OutputBytes * 0 = 0
      BY OrderedAssumption
    <3> QED
      BY <3>2, <3>5, <3>6, <3>7 DEF WindowCounts
  <2>2. CASE DrainSkip \/ DrainJoin \/ DrainDrop
    BY <1>1, <2>2 DEF DrainSkip, DrainJoin, DrainDrop
  <2> QED
    BY <1>7, <2>1, <2>2 DEF DrainSteps
<1>8. ASSUME PollSteps PROVE WindowCounts'
  BY <1>2, <1>4, <1>6, <1>8
     DEF PollSteps, ScanSkip, ScanEnds, FrontierEmpty, FrontierOffers
<1>9. ASSUME NEW u \in Units, NEW own \in OwnBytes, Dispatch(u, own)
      PROVE  WindowCounts'
  BY <1>1, <1>2, <1>3, <1>9
     DEF Dispatch, DispatchRefused, Refuse, DispatchFails, StartDrain
<1>10. ASSUME Client PROVE WindowCounts'
  BY <1>1, <1>2, <1>5, <1>9, <1>10
     DEF Client, FinishDispatch, Poll, CancelAndDrain, StartDrain, Park
<1>11. ASSUME Unpark \/ Worker \/ UNCHANGED vars PROVE WindowCounts'
  BY <1>1, <1>2, <1>11, Zenon DEF Unpark, Worker, WorkerEnds, WorkerWakes
<1> QED
  BY <1>7, <1>8, <1>10, <1>11 DEF Next

-----------------------------------------------------------------------------
(* What follows from the sums.                                             *)

\* The ledger is balanced and the counters exact throughout.
LEMMA LedgerInvariance == Spec => [](Balanced /\ WindowCounts)
<1>1. Init => Balanced /\ WindowCounts
  <2> SUFFICES ASSUME NEW workers \in 0..Permits, InitWith(workers), IndInv
               PROVE  Balanced /\ WindowCounts
    BY InitInv DEF Init
  <2>1. Active = {} /\ Filled = {}
    BY DEF InitWith, Active, Filled
  <2>2. Cardinality(Active) = 0 /\ Cardinality(Filled) = 0
    BY <2>1, FS_EmptySet
  <2>3. RingBytes \in [Ring -> Int] /\ TaskBytes \in [Slots -> Int]
    BY BytesTyped DEF IndInv
  <2>4. \A i \in Ring : RingBytes[i] = 0
    BY <2>1 DEF RingBytes, HeldBy, Filled
  <2>5. \A s \in Slots : TaskBytes[s] = 0
    BY <2>1 DEF TaskBytes, Active
  <2>6. SumFunctionOnSet(RingBytes, Ring) = 0
    BY <2>3, <2>4, RingFinite, SumOfZeros
  <2>7. SumFunctionOnSet(TaskBytes, Slots) = 0
    BY <2>3, <2>5, SlotsFinite, SumOfZeros
  <2>8. GrantBytes * 0 = 0 /\ OutputBytes * 0 = 0
    BY OrderedAssumption
  <2> QED
    BY <2>2, <2>6, <2>7, <2>8 DEF InitWith, Balanced, WindowCounts
<1>2. ASSUME IndInv, IndInv', Balanced, WindowCounts, [Next]_vars
      PROVE  (Balanced /\ WindowCounts)'
  BY <1>2, LedgerStep, CountsStep
<1> QED
  BY <1>1, <1>2, Invariance, PTL DEF Spec

\* At every moment the parent is charged exactly for the unjoined workers'
\* envelopes and the unreleased results' bytes, and until a drain the window's
\* counters are the sums over what is in flight.
THEOREM LedgerAlwaysExact == Spec => []LedgerExact
<1>1. IndInv /\ Balanced /\ WindowCounts => LedgerExact
  BY DEF IndInv, CountInv, Balanced, WindowCounts, LedgerExact, Draining
<1> QED
  BY <1>1, LedgerInvariance, Invariance, PTL

\* With the counts exact, the window full of distinct ordinals and the ring free
\* of collisions, none of the checks that report InternalContract can fail.
LEMMA ContractStep ==
  ASSUME IndInv, WindowCounts, NoContractError, [Next]_vars
  PROVE  NoContractError'
<1> USE DEF counters, flags, coordVars, scopeVars, vars
<1>1. ASSUME NEW a \in Answers \ {"internal"}, answer' = a PROVE NoContractError'
  BY <1>1 DEF NoContractError
<1>2. ASSUME answer' = answer PROVE NoContractError'
  BY <1>2 DEF NoContractError
<1>3. ASSUME NEW u \in Units, NEW own \in OwnBytes, Dispatch(u, own)
      PROVE  NoContractError'
  <2>1. CASE DispatchFails(u, own)
    <3>1. FreeSlots # {}
      BY <1>3, <2>1, RoomInTasks DEF Dispatch, DispatchFails, FitsWindow, IndInv
    <3> QED
      BY <2>1, <3>1 DEF DispatchFails, StartDrain, NoContractError
  <2> QED
    BY <1>3, <2>1
       DEF Dispatch, DispatchRefused, Refuse, DispatchStarts, Return, NoContractError
<1>4. ASSUME JoinFault PROVE NoContractError'
  <2>1. /\ at = "scan" /\ cursor \in Active /\ thread[cursor] = "exited"
        /\ answer' = IF HasOutcome(cursor) THEN "internal" ELSE ended[cursor]
        /\ ~(HasOutcome(cursor) /\ JoinIsSound)
    BY <1>4 DEF JoinFault, Join, StartDrain, Active
  <2>2. ended[cursor] \in Outcomes
    BY <2>1, ExitedTyped DEF IndInv, Active
  <2>3. "internal" \notin Outcomes
    BY OrderedAssumption DEF Clean, Terminals, Faults
  <2>4. ready[RingIndex(task[cursor])] = NONE
    BY <2>1, RingSound DEF RingNeverCollides
  <2>5. in_flight_input_bytes >= InputBytes[JobOf(task[cursor])]
    BY <2>1, SumsTyped DEF IndInv, WindowCounts
  <2>6. active_tasks >= 1
    <3>1. IsFiniteSet(Active) /\ Cardinality(Active) \in Nat
      BY SlotsFinite DEF Active
    <3>2. Cardinality(Active) # 0
      BY <2>1, <3>1, FS_EmptySet
    <3> QED
      BY <2>1, <3>1, <3>2 DEF IndInv, CountInv
  <2>7. JoinIsSound
    BY <2>4, <2>5, <2>6 DEF JoinIsSound
  <2> QED
    BY <2>1, <2>2, <2>3, <2>7 DEF NoContractError
<1>5. ASSUME FrontierStops PROVE NoContractError'
  <2>1. Frontier \in Ring /\ ready[Frontier] # NONE /\ at = "frontier"
    BY <1>5, RingIndexInRing DEF FrontierStops, Frontier, IndInv, TypeOK
  <2>2. Frontier \in Filled /\ InOrder
    BY <2>1, RingSound DEF RingNeverCollides, Filled
  <2>3. ReleaseCounts
    BY <2>1, <2>2, ReleaseCountsHold
  <2>4. answer' = ready[Frontier].kind
    BY <1>5, <2>2, <2>3 DEF FrontierStops, StartDrain
  <2>5. ready[Frontier] \in Slot
    BY <2>1 DEF IndInv, TypeOK
  <2> QED
    BY <2>4, <2>5 DEF Slot, Clean, Terminals, NoContractError
<1>6. ASSUME Acknowledge PROVE NoContractError'
  <2>1. at = "client"
    BY <1>6 DEF Acknowledge
  <2>2. offered_slot \in Filled
    BY <1>6, <2>1, RingIndexInRing
       DEF Acknowledge, IndInv, TypeOK, OfferInv, Frontier, Filled
  <2>3. ReleaseCounts
    BY <2>1, <2>2, ReleaseCountsHold
  <2> QED
    BY <1>6, <2>3 DEF Acknowledge, Return, NoContractError
<1>7. ASSUME Client PROVE NoContractError'
  BY <1>2, <1>3, <1>6, <1>7
     DEF Client, FinishDispatch, Poll, CancelAndDrain, StartDrain, Park, Return,
         NoContractError
<1>8. ASSUME PollSteps PROVE NoContractError'
  BY <1>2, <1>4, <1>5, <1>8
     DEF PollSteps, ScanSkip, JoinOutcome, ScanEnds, FrontierEmpty, FrontierOffers,
         Return, NoContractError
<1>9. ASSUME DrainSteps PROVE NoContractError'
  BY <1>2, <1>9 DEF DrainSteps, DrainSkip, DrainJoin, DrainDrop, DrainEnds
<1> QED
  BY <1>2, <1>7, <1>8, <1>9
     DEF Next, Unpark, Return, Worker, WorkerEnds, WorkerWakes, NoContractError

\* No call ever reports InternalContract: no dispatch within the window misses a
\* task slot, no join meets an occupied ring slot or an underflow, and the frontier
\* slot never holds another generation's ordinal.
THEOREM ContractsNeverFail == Spec => []NoContractError
<1>1. Init => NoContractError
  BY DEF Init, InitWith, NoContractError
<1>2. IndInv /\ WindowCounts /\ NoContractError /\ [Next]_vars => NoContractError'
  BY ContractStep
<1> QED
  BY <1>1, <1>2, LedgerInvariance, Invariance, PTL DEF Spec

-----------------------------------------------------------------------------
(* What the relay adds to the coordinator's invariant.                     *)

\* The source is read from its front; the morsel held back has been pulled.
SourceInv ==
  /\ source \in Seq(Kinds) /\ Len(source) <= MaxOrdinal
  /\ pulled \in 0..Len(source)
  /\ held \in (1..Len(source)) \cup {NONE}

\* Answers after which the coordinator has drained or has nothing left.
Endings == {"complete", "drained", "spawn_failed", "internal"} \cup Terminals \cup Faults

\* A caller that hears one of them finds the lane complete.
EndingInv == at = "client" /\ answer \in Endings => complete

\* A loop that has given up is draining or has drained, and the route begins
\* only on a lane without task or result.
LeavingInv ==
  /\ pc = "stopping" => at = "drain" \/ (at = "client" /\ complete)
  /\ pc \in {"route", "redrive", "end"} => at = "client" /\ Active = {} /\ Filled = {}

RelayInv == SourceInv /\ EndingInv /\ LeavingInv

-----------------------------------------------------------------------------
(* The relay is a client of the coordinator.                               *)

\* The next morsel is a unit the coordinator may be handed.
LEMMA CandidateIsUnit ==
  ASSUME SourceInv, Candidate <= Len(source)
  PROVE  Unit(Candidate) \in Units /\ Candidate \in 1..Len(source)
<1>1. Candidate \in 1..Len(source)
  BY DEF SourceInv, Candidate
<1>2. source[Candidate] \in Kinds
  BY <1>1 DEF SourceInv
<1>3. Candidate \in Indices
  BY <1>1, OrderedAssumption DEF SourceInv, Indices
<1> QED
  BY <1>1, <1>2, <1>3, RelayAssumption DEF Unit

\* No request is given more workers than the session lends.
LEMMA WorkersAffordable ==
  ASSUME NEW own \in OwnBytes
  PROVE  AffordableWorkers(own) \in 0..Permits
<1> DEFINE headroom == IF Headroom >= own THEN Headroom - own ELSE 0
           quotient == headroom \div GrantBytes
<1>1. headroom \in Nat /\ GrantBytes \in Nat \ {0} /\ Permits \in Nat
  BY OrderedAssumption, ScopeAssumption, RelayAssumption
<1>2. quotient \in Nat
  BY <1>1
<1> HIDE DEF headroom, quotient
<1>3. \E m \in {quotient, Permits} : \A y \in {quotient, Permits} : m <= y
  <2>1. CASE quotient <= Permits
    BY <1>1, <1>2, <2>1
  <2>2. CASE Permits <= quotient
    BY <1>1, <1>2, <2>2
  <2> QED
    BY <1>1, <1>2, <2>1, <2>2
<1> DEFINE m == Min({quotient, Permits})
<1>4. m \in {quotient, Permits} /\ \A y \in {quotient, Permits} : m <= y
  BY <1>3 DEF Min
<1>5. AffordableWorkers(own) = m
  BY DEF AffordableWorkers, headroom, quotient
<1> HIDE DEF m
<1>6. m \in Nat /\ m <= Permits
  BY <1>1, <1>2, <1>4
<1> QED
  BY <1>1, <1>5, <1>6

\* The relay begins on an untouched lane.
LEMMA RelayStarts == RelayInit => Init
<1> SUFFICES ASSUME RelayInit PROVE Init
  OBVIOUS
<1>1. PICK own \in OwnBytes : InitWith(AffordableWorkers(own))
  BY DEF RelayInit
<1> QED
  BY <1>1, WorkersAffordable DEF Init

\* Every step of the relay is a step of the coordinator or leaves it alone.
LEMMA RelaySteps == SourceInv /\ [RelayNext]_allVars => [Next]_vars
<1> SUFFICES ASSUME SourceInv, [RelayNext]_allVars PROVE [Next]_vars
  OBVIOUS
<1>1. CASE Fill
  <2>1. PICK own \in OwnBytes : Dispatch(Unit(Candidate), own)
    BY <1>1 DEF Fill
  <2>2. Unit(Candidate) \in Units
    BY <1>1, CandidateIsUnit DEF Fill
  <2> QED
    BY <2>1, <2>2 DEF Next, Client
<1>2. CASE FillEnds \/ CallPoll \/ WaitForFrontier \/ Woken \/ Release \/ GiveUp
  BY <1>2 DEF FillEnds, CallPoll, WaitForFrontier, Woken, Release, GiveUp, Next, Client
<1>3. CASE CheckControl \/ SourceEnds \/ Oversized \/ Answered \/ Write \/ Written
           \/ Flush \/ Stopped \/ Route \/ Redrive \/ RedriveEnds
  BY <1>3 DEF CheckControl, SourceEnds, Oversized, Answered, Write, Written, Flush,
     Stopped, Route, Redrive, RedriveEnds
<1>4. CASE Inside
  BY <1>4 DEF Inside, Next
<1>5. CASE UNCHANGED allVars
  BY <1>5 DEF allVars
<1> QED
  BY <1>1, <1>2, <1>3, <1>4, <1>5 DEF RelayNext, Loop

-----------------------------------------------------------------------------
(* The invariant.                                                          *)

\* Pulling moves along the source and never past its end.
LEMMA SourceStep ==
  ASSUME SourceInv, [RelayNext]_allVars
  PROVE  SourceInv'
<1>1. CASE Fill \/ Oversized
  <2>1. Candidate \in 1..Len(source)
    BY <1>1, CandidateIsUnit DEF Fill, Oversized
  <2>2. source' = source /\ pulled' = Candidate /\ held' \in {Candidate, NONE}
    BY <1>1 DEF Fill, Oversized
  <2> QED
    BY <2>1, <2>2 DEF SourceInv
<1>2. CASE UNCHANGED <<source, pulled, held>>
  BY <1>2 DEF SourceInv
<1>3. \/ Fill \/ Oversized \/ UNCHANGED <<source, pulled, held>>
  BY DEF RelayNext, Loop, Inside, CheckControl, SourceEnds, FillEnds, CallPoll, Answered,
     WaitForFrontier, Woken, Write, Written, Flush, Release, GiveUp, Stopped, Route,
     Redrive, RedriveEnds, sourceVars, relayVars, allVars
<1> QED
  BY <1>1, <1>2, <1>3

\* Only a call that has drained, or found nothing left, answers with an ending.
LEMMA EndingStep ==
  ASSUME IndInv, EndingInv, [Next]_vars
  PROVE  EndingInv'
<1> USE DEF EndingInv
<1>1. CASE \E u \in Units, own \in OwnBytes : Dispatch(u, own)
  <2> PICK u \in Units, own \in OwnBytes : Dispatch(u, own)
    BY <1>1
  <2> QED
    BY DEF Dispatch, DispatchRefused, DispatchFails, DispatchStarts, Refuse, Return,
       StartDrain, Endings, Terminals, Faults, flags
<1>2. CASE FinishDispatch \/ Park \/ Unpark \/ CancelAndDrain \/ Acknowledge
  BY <1>2 DEF FinishDispatch, Park, Unpark, CancelAndDrain, Acknowledge, Return, StartDrain,
     Endings, Terminals, Faults, flags
<1>3. CASE Poll
  BY <1>3 DEF Poll, Return, Endings, Terminals, Faults, flags
<1>4. CASE ScanSkip \/ JoinOutcome \/ JoinFault \/ ScanEnds
  BY <1>4 DEF ScanSkip, JoinOutcome, JoinFault, ScanEnds, StartDrain
<1>5. CASE FrontierEmpty \/ FrontierOffers \/ FrontierStops
  BY <1>5 DEF FrontierEmpty, FrontierOffers, FrontierStops, Return, StartDrain, Endings,
     Terminals, Faults
<1>6. CASE DrainSteps
  BY <1>6 DEF DrainSteps, DrainSkip, DrainJoin, DrainDrop, DrainEnds
<1>7. CASE Worker \/ UNCHANGED vars
  BY <1>7 DEF Worker, WorkerEnds, WorkerWakes, vars, coordVars, flags
<1> QED
  BY <1>1, <1>2, <1>3, <1>4, <1>5, <1>6, <1>7 DEF Next, Client, PollSteps

\* With no task there is no worker to take a step, and no call of the
\* coordinator is in progress at the client.
LEMMA IdleLaneStays ==
  ASSUME IndInv, at = "client", Active = {}, Inside
  PROVE  FALSE
<1>1. \A s \in Slots : task[s] = NONE /\ thread[s] = "none"
  BY DEF Active, IndInv, PermitInv, PermitsExact
<1>2. CASE PollSteps \/ DrainSteps
  BY <1>2 DEF PollSteps, DrainSteps, ScanSkip, JoinOutcome, JoinFault, ScanEnds,
     FrontierEmpty, FrontierOffers, FrontierStops, DrainSkip, DrainJoin, DrainDrop, DrainEnds
<1>3. CASE Worker
  BY <1>1, <1>3 DEF Worker, WorkerEnds, WorkerWakes, EndBody, WakeFrontier
<1> QED
  BY <1>2, <1>3 DEF Inside

\* A loop that gives up drains, and leaves only when the drain is done.
LEMMA LeavingStep ==
  ASSUME IndInv, EndingInv, LeavingInv, [RelayNext]_allVars
  PROVE  LeavingInv'
<1> DEFINE Gone == {"route", "redrive", "end"}
           Empty == at = "client" /\ Active = {} /\ Filled = {}
<1>1. CASE UNCHANGED vars /\ pc' = pc
  BY <1>1 DEF LeavingInv, Active, Filled, vars, coordVars, flags
<1>2. CASE pc' \notin Gone \cup {"stopping"}
  BY <1>2 DEF LeavingInv
<1>3. CASE UNCHANGED vars /\ Empty /\ pc' \in Gone
  <2>1. at' = at /\ Active' = Active /\ Filled' = Filled
    BY <1>3 DEF Active, Filled, vars, coordVars
  <2>2. Empty'
    BY <1>3, <2>1
  <2> QED
    BY <1>3, <2>2 DEF LeavingInv
<1>4. CASE Answered /\ pc' \in Gone
  <2>1. answer \in Endings /\ at = "client" /\ UNCHANGED vars
    BY <1>4 DEF Answered, Goto, Leave, Endings, Faults
  <2>2. complete
    BY <2>1 DEF EndingInv
  <2> QED
    BY <1>3, <1>4, <2>1, <2>2 DEF IndInv, CompleteInv
<1>5. CASE GiveUp
  BY <1>5 DEF GiveUp, CancelAndDrain, StartDrain, Goto, LeavingInv
<1>6. CASE Stopped
  <2>1. at = "client" /\ complete /\ UNCHANGED vars /\ pc' = "route"
    BY <1>6 DEF Stopped, LeavingInv, Goto
  <2> QED
    BY <1>3, <2>1 DEF IndInv, CompleteInv
<1>7. CASE Inside
  <2>1. pc' = pc
    BY <1>7 DEF Inside, relayVars
  <2>2. CASE pc \in Gone
    BY <1>7, <2>2, IdleLaneStays DEF LeavingInv
  <2>3. CASE pc = "stopping"
    <3>1. CASE at = "client"
      BY <1>7, <2>3, <3>1, IdleLaneStays DEF LeavingInv, IndInv, CompleteInv
    <3>2. CASE at = "drain" /\ DrainSteps
      BY <2>1, <2>3, <3>2 DEF LeavingInv, DrainSteps, DrainSkip, DrainJoin, DrainDrop, DrainEnds
    <3>3. CASE at = "drain" /\ Worker
      BY <2>1, <2>3, <3>3 DEF LeavingInv, Worker, WorkerEnds, WorkerWakes, coordVars
    <3>4. CASE at = "drain" /\ PollSteps
      BY <3>4 DEF PollSteps, ScanSkip, JoinOutcome, JoinFault, ScanEnds, FrontierEmpty,
         FrontierOffers, FrontierStops
    <3> QED
      BY <1>7, <2>3, <3>1, <3>2, <3>3, <3>4 DEF Inside, LeavingInv
  <2> QED
    BY <1>2, <2>1, <2>2, <2>3
<1>8. CASE Route \/ Redrive \/ RedriveEnds
  <2>1. pc \in Gone /\ pc' \in Gone /\ UNCHANGED vars
    BY <1>8 DEF Route, Redrive, RedriveEnds, Goto
  <2> QED
    BY <1>3, <2>1 DEF LeavingInv
<1>9. CASE CheckControl \/ SourceEnds \/ Oversized \/ Fill \/ FillEnds \/ CallPoll
           \/ WaitForFrontier \/ Woken \/ Written \/ Flush \/ Release
  BY <1>2, <1>9 DEF CheckControl, SourceEnds, Oversized, Fill, FillEnds, CallPoll,
     WaitForFrontier, Woken, Written, Flush, Release, Goto, Leave
<1>10. CASE Write
  BY <1>1, <1>2, <1>10 DEF Write, Leave
<1>11. CASE Answered /\ pc' \notin Gone
  BY <1>2, <1>11 DEF Answered, Goto, Leave
<1>12. CASE UNCHANGED allVars
  BY <1>1, <1>12 DEF allVars, relayVars
<1> QED
  BY <1>4, <1>5, <1>6, <1>7, <1>8, <1>9, <1>10, <1>11, <1>12 DEF RelayNext, Loop

\* The relay invariant holds of a new request.
LEMMA RelayInvStarts == RelayInit => RelayInv
<1> SUFFICES ASSUME RelayInit PROVE RelayInv
  OBVIOUS
<1>1. PICK own \in OwnBytes : InitWith(AffordableWorkers(own))
  BY DEF RelayInit
<1>2. SourceInv
  BY RelayAssumption DEF RelayInit, SourceInv
<1>3. EndingInv
  BY <1>1 DEF InitWith, EndingInv, Endings, Terminals, Faults
<1>4. at = "client" /\ Active = {} /\ Filled = {}
  BY <1>1 DEF InitWith, Active, Filled
<1>5. pc # "stopping"
  BY DEF RelayInit
<1> QED
  BY <1>2, <1>3, <1>4, <1>5 DEF RelayInv, LeavingInv

\* A request's relay, whatever it meets, behaves as a client of the coordinator.
THEOREM RelayIsAClient == RelaySpec => Spec
<1>1. RelayInit => Init /\ SourceInv
  BY RelayStarts, RelayInvStarts DEF RelayInv
<1>2. SourceInv /\ [RelayNext]_allVars => SourceInv' /\ [Next]_vars
  BY SourceStep, RelaySteps
<1> QED
  BY <1>1, <1>2, PTL DEF RelaySpec, Spec

\* Both invariants hold throughout a request.
LEMMA RelayInvariance == RelaySpec => [](IndInv /\ RelayInv)
<1>1. RelayInit => RelayInv
  BY RelayInvStarts
<1>2. IndInv /\ RelayInv /\ [RelayNext]_allVars => RelayInv'
  BY SourceStep, EndingStep, LeavingStep, RelaySteps DEF RelayInv
<1>3. RelaySpec => []IndInv
  BY RelayIsAClient, Invariance
<1> QED
  BY <1>1, <1>2, <1>3, PTL DEF RelaySpec

-----------------------------------------------------------------------------
(* The theorem.                                                            *)

\* However the lane is left, the route behind it starts with no worker alive,
\* no permit out and no byte of the lane on the parent's ledger (relay_morsels'
\* early returns, each of which cancels and drains).
THEOREM LaneIsLeftEmpty == RelaySpec => []LaneLeavesNothing
<1>1. IndInv /\ RelayInv /\ Balanced => LaneLeavesNothing
  <2> SUFFICES ASSUME IndInv, RelayInv, Balanced, pc \in {"route", "redrive", "end"}
               PROVE  /\ \A s \in Slots : thread[s] = "none"
                      /\ permitsInFlight = 0 /\ charged = 0
    BY DEF LaneLeavesNothing
  <2>1. Active = {} /\ Filled = {}
    BY DEF RelayInv, LeavingInv
  <2>2. \A s \in Slots : thread[s] = "none"
    BY <2>1 DEF IndInv, PermitInv, PermitsExact, Active
  <2>3. Cardinality(Active) = 0
    BY <2>1, FS_EmptySet
  <2>4. permitsInFlight = 0
    BY <2>3 DEF IndInv, PermitInv, PermitsExact
  <2>5. SumFunctionOnSet(RingBytes, Ring) = 0
    <3>1. RingBytes \in [Ring -> Int]
      BY BytesTyped DEF IndInv
    <3>2. \A i \in Ring : RingBytes[i] = 0
      BY <2>1 DEF RingBytes, HeldBy, Filled
    <3> QED
      BY <3>1, <3>2, RingFinite, SumOfZeros
  <2>6. charged = 0
    BY <2>3, <2>5, OrderedAssumption DEF Balanced
  <2> QED
    BY <2>2, <2>4, <2>6
<1>2. RelaySpec => []Balanced
  BY RelayIsAClient, LedgerInvariance, PTL
<1> QED
  BY <1>1, <1>2, RelayInvariance, PTL

-----------------------------------------------------------------------------
(* What the coordinator has released: clean results, in order.             *)

\* A clean result comes only from a unit that can end cleanly; until a scope is
\* cancelled nothing else has been released.
CleanInv ==
  /\ \A s \in Slots : ended[s] = Clean => task[s] # NONE /\ Clean \in CanEnd[JobOf(task[s])]
  /\ \A i \in Filled : ready[i].kind = Clean => Clean \in CanEnd[JobOf(ready[i].ordinal)]
  /\ ~cancelled => \A o \in 0..(next_release_ordinal - 1) : Clean \in CanEnd[JobOf(o)]

\* Without a stop, a complete lane has released all it dispatched.
AllReleasedInv ==
  complete /\ ~cancelled => next_release_ordinal = next_dispatch_ordinal /\ dispatch_finished

\* Every ordinal has its unit, and keeps it.
LEMMA JobsStay ==
  ASSUME IndInv, NEW u, job' = Append(job, u)
  PROVE  \A o \in 0..(next_dispatch_ordinal - 1) : JobOf(o)' = JobOf(o)
<1>1. job \in Seq(Units) /\ Len(job) = next_dispatch_ordinal
  BY DEF IndInv, TypeOK, PlaceInv
<1>2. \A k \in 1..Len(job) : job'[k] = job[k]
  BY <1>1
<1>3. \A o \in 0..(next_dispatch_ordinal - 1) : o + 1 \in 1..Len(job)
  BY <1>1
<1> QED
  BY <1>2, <1>3 DEF JobOf

\* A clean result keeps its provenance from the worker to its release.
LEMMA CleanStep ==
  ASSUME IndInv, CleanInv, [Next]_vars
  PROVE  CleanInv'
<1> USE DEF counters, flags, coordVars, scopeVars, vars
<1>1. ASSUME UNCHANGED <<job, task, ready, ended, next_release_ordinal>>, cancelled => cancelled'
      PROVE  CleanInv'
  BY <1>1 DEF CleanInv, Filled, JobOf
<1>2. ASSUME NEW u \in Units, NEW own \in OwnBytes, DispatchStarts(u, own)
      PROVE  CleanInv'
  <2>1. FirstFree \in FreeSlots
    BY <1>2, FirstFreeIsFree DEF DispatchStarts
  <2>2. \A o \in 0..(next_dispatch_ordinal - 1) : JobOf(o)' = JobOf(o)
    BY <1>2, JobsStay DEF DispatchStarts
  <2>3. UNCHANGED <<ready, ended, next_release_ordinal, cancelled>>
        /\ task' = [task EXCEPT ![FirstFree] = next_dispatch_ordinal]
    BY <1>2 DEF DispatchStarts
  <2>4. \A s \in Active : task[s] \in 0..(next_dispatch_ordinal - 1)
    BY DEF IndInv, TypeOK, PlaceInv, Window
  <2>5. \A i \in Filled : ready[i].ordinal \in 0..(next_dispatch_ordinal - 1)
    BY DEF IndInv, TypeOK, PlaceInv, Window
  <2>6. \A o \in 0..(next_release_ordinal - 1) : o \in 0..(next_dispatch_ordinal - 1)
    BY DEF IndInv, TypeOK, PlaceInv
  <2>7. ASSUME NEW s \in Slots, ended'[s] = Clean
        PROVE  task'[s] # NONE /\ Clean \in CanEnd[JobOf(task[s])']
    <3>1. ended[s] = Clean /\ task[s] # NONE /\ s # FirstFree
      BY <2>1, <2>3, <2>7 DEF CleanInv, FreeSlots
    <3>2. task'[s] = task[s] /\ s \in Active
      BY <2>3, <3>1 DEF IndInv, TypeOK, Active
    <3>3. JobOf(task[s])' = JobOf(task[s])
      BY <2>2, <2>4, <3>2 DEF JobOf
    <3> QED
      BY <3>1, <3>2, <3>3 DEF CleanInv
  <2>8. \A i \in Filled : ready[i].kind = Clean => Clean \in CanEnd[JobOf(ready[i].ordinal)']
    BY <2>2, <2>3, <2>5 DEF CleanInv, JobOf
  <2>9. ~cancelled => \A o \in 0..(next_release_ordinal - 1) : Clean \in CanEnd[JobOf(o)']
    BY <2>2, <2>6 DEF CleanInv
  <2> QED
    BY <2>3, <2>7, <2>8, <2>9 DEF CleanInv, Filled
<1>3. ASSUME NEW u \in Units, NEW own \in OwnBytes, Dispatch(u, own)
      PROVE  CleanInv'
  BY <1>1, <1>2, <1>3 DEF Dispatch, DispatchRefused, Refuse, DispatchFails, StartDrain
<1>4. CASE FinishDispatch \/ Poll \/ CancelAndDrain \/ Park \/ Unpark
  BY <1>1, <1>4 DEF FinishDispatch, Poll, CancelAndDrain, StartDrain, Park, Unpark
<1>5. CASE Acknowledge
  <2>1. CASE ReleaseCounts
    <3>1. /\ offered_slot = Frontier /\ Frontier \in Filled
          /\ ready[Frontier].ordinal = next_release_ordinal /\ ready[Frontier].kind = Clean
      BY <1>5, RingIndexInRing DEF Acknowledge, IndInv, OfferInv, InOrder, Filled, TypeOK, Frontier
    <3>2. Clean \in CanEnd[JobOf(next_release_ordinal)]
      BY <3>1 DEF CleanInv
    <3>3. UNCHANGED <<job, task, ended, cancelled>> /\ next_release_ordinal' = next_release_ordinal + 1
          /\ ready' = [ready EXCEPT ![Frontier] = NONE]
      BY <1>5, <2>1, <3>1 DEF Acknowledge, ReleaseSlot
    <3>4. Filled' \subseteq Filled /\ \A i \in Filled' : ready'[i] = ready[i]
      BY <3>3 DEF Filled, IndInv, TypeOK
    <3>5. \A o \in 0..(next_release_ordinal' - 1) :
             o \in 0..(next_release_ordinal - 1) \/ o = next_release_ordinal
      BY <3>3 DEF IndInv, TypeOK
    <3> QED
      BY <3>2, <3>3, <3>4, <3>5 DEF CleanInv, JobOf
  <2>2. CASE ~ReleaseCounts
    BY <1>1, <1>5, <2>2 DEF Acknowledge, StartDrain
  <2> QED
    BY <2>1, <2>2
<1>6. CASE ScanSkip \/ ScanEnds \/ FrontierEmpty \/ FrontierOffers \/ DrainSkip \/ DrainEnds
  BY <1>1, <1>6 DEF ScanSkip, ScanEnds, FrontierEmpty, FrontierOffers, DrainSkip, DrainEnds
<1>7. CASE JoinOutcome
  <2> DEFINE o == task[cursor]
             r == RingIndex(o)
  <2>1. cursor \in Slots /\ cursor \in Active /\ o \in Nat
    BY <1>7 DEF JoinOutcome, Active, IndInv, TypeOK
  <2>2. r \in Ring
    BY <2>1, RingIndexInRing
  <2>3. /\ task' = [task EXCEPT ![cursor] = NONE]
        /\ ended' = [ended EXCEPT ![cursor] = NONE]
        /\ ready' = [ready EXCEPT ![r] = [ordinal |-> o, kind |-> ended[cursor]]]
        /\ UNCHANGED <<job, next_release_ordinal, cancelled>>
    BY <1>7 DEF JoinOutcome, Join
  <2>4. NONE # Clean
    BY OrderedAssumption, ScopeAssumption
  <2> HIDE DEF o, r
  <2>5. \A s \in Slots : ended'[s] = Clean => ended[s] = Clean /\ task'[s] = task[s]
    BY <2>1, <2>3, <2>4 DEF IndInv, TypeOK, ScopeTypeOK
  <2>6. \A i \in Filled' : \/ i = r /\ ready'[i] = [ordinal |-> o, kind |-> ended[cursor]]
                           \/ i \in Filled /\ ready'[i] = ready[i]
    BY <2>2, <2>3 DEF Filled, IndInv, TypeOK
  <2>7. ended[cursor] = Clean => Clean \in CanEnd[JobOf(o)]
    BY <2>1 DEF CleanInv, o
  <2>8. \A i \in Filled' : ready'[i].kind = Clean => Clean \in CanEnd[JobOf(ready'[i].ordinal)]
    BY <2>6, <2>7 DEF CleanInv
  <2> QED
    BY <2>3, <2>5, <2>8 DEF CleanInv, JobOf
<1>8. CASE JoinFault \/ DrainJoin
  <2>1. /\ task' = [task EXCEPT ![cursor] = NONE]
        /\ ended' = [ended EXCEPT ![cursor] = NONE]
        /\ UNCHANGED <<job, ready, next_release_ordinal>> /\ (cancelled => cancelled')
    BY <1>8 DEF JoinFault, DrainJoin, Join, StartDrain
  <2>2. NONE # Clean
    BY OrderedAssumption, ScopeAssumption
  <2>3. \A s \in Slots : ended'[s] = Clean => ended[s] = Clean /\ task'[s] = task[s]
    BY <2>1, <2>2 DEF IndInv, TypeOK, ScopeTypeOK
  <2> QED
    BY <2>1, <2>3 DEF CleanInv, Filled, JobOf
<1>9. CASE FrontierStops
  <2>1. UNCHANGED <<job, task, ended>> /\ cancelled'
    BY <1>9 DEF FrontierStops, StartDrain
  <2>2. ready' \in {ready, [ready EXCEPT ![Frontier] = NONE]}
    BY <1>9 DEF FrontierStops, ReleaseSlot
  <2>3. Filled' \subseteq Filled /\ \A i \in Filled' : ready'[i] = ready[i]
    BY <2>2 DEF Filled, IndInv, TypeOK
  <2> QED
    BY <2>1, <2>3 DEF CleanInv, JobOf
<1>10. CASE DrainDrop
  <2>1. UNCHANGED <<job, task, ended, cancelled, next_release_ordinal>>
    BY <1>10 DEF DrainDrop
  <2>2. ready' = [ready EXCEPT ![cursor - Cap - 1] = NONE]
    BY <1>10 DEF DrainDrop
  <2>3. Filled' \subseteq Filled /\ \A i \in Filled' : ready'[i] = ready[i]
    BY <2>2 DEF Filled, IndInv, TypeOK
  <2> QED
    BY <2>1, <2>3 DEF CleanInv, JobOf
<1>11. CASE Worker
  <2>1. PICK s \in Slots : WorkerEnds(s) \/ WorkerWakes(s)
    BY <1>11 DEF Worker
  <2>2. CASE WorkerWakes(s)
    BY <1>1, <2>2 DEF WorkerWakes, WakeFrontier
  <2>3. CASE WorkerEnds(s)
    <3>1. PICK e \in CanEnd[JobOf(task[s])] \cup {"drive_failed", "unavailable"} :
            ended' = [ended EXCEPT ![s] = e]
      BY <2>3 DEF WorkerEnds, EndBody
    <3>2. task[s] # NONE /\ UNCHANGED <<job, task, ready, next_release_ordinal, cancelled>>
      BY <2>3 DEF WorkerEnds, EndBody
    <3>3. \A t \in Slots : ended'[t] = Clean => ended[t] = Clean \/ (t = s /\ e = Clean)
      BY <3>1 DEF IndInv, TypeOK, ScopeTypeOK
    <3>4. e = Clean => Clean \in CanEnd[JobOf(task[s])]
      BY <3>1 DEF Clean
    <3> QED
      BY <3>2, <3>3, <3>4 DEF CleanInv, Filled, JobOf
  <2> QED
    BY <2>1, <2>2, <2>3
<1>12. CASE UNCHANGED vars
  BY <1>1, <1>12
<1> QED
  BY <1>3, <1>4, <1>5, <1>6, <1>7, <1>8, <1>9, <1>10, <1>11, <1>12
     DEF Next, Client, PollSteps, DrainSteps

\* The lane completes without a stop only when nothing is left to release.
LEMMA AllReleasedStep ==
  ASSUME IndInv, AllReleasedInv, [Next]_vars
  PROVE  AllReleasedInv'
<1> USE DEF counters, flags, coordVars, scopeVars, vars
<1>1. ASSUME UNCHANGED <<complete, next_release_ordinal, next_dispatch_ordinal>>,
             cancelled => cancelled', dispatch_finished => dispatch_finished'
      PROVE  AllReleasedInv'
  BY <1>1 DEF AllReleasedInv
<1>2. ASSUME cancelled' \/ (~complete /\ ~complete') PROVE AllReleasedInv'
  BY <1>2 DEF AllReleasedInv
<1>3. ASSUME NEW u \in Units, NEW own \in OwnBytes, Dispatch(u, own)
      PROVE  AllReleasedInv'
  <2>1. CASE DispatchRefused(u, own)
    BY <1>1, <2>1 DEF DispatchRefused, Refuse
  <2>2. CASE DispatchFails(u, own)
    BY <1>2, <2>2 DEF DispatchFails, StartDrain
  <2>3. CASE DispatchStarts(u, own)
    BY <1>2, <2>3 DEF DispatchStarts, Closed
  <2> QED
    BY <1>3, <2>1, <2>2, <2>3 DEF Dispatch
<1>4. CASE FinishDispatch \/ Poll \/ CancelAndDrain \/ Park \/ Unpark \/ Worker
  BY <1>1, <1>4 DEF FinishDispatch, Poll, CancelAndDrain, StartDrain, Park, Unpark, Worker,
     WorkerEnds, WorkerWakes, EndBody, WakeFrontier
<1>5. CASE Acknowledge
  BY <1>2, <1>5 DEF Acknowledge, StartDrain, IndInv, OfferInv
<1>6. CASE ScanSkip \/ JoinOutcome \/ JoinFault \/ ScanEnds \/ FrontierOffers \/ DrainSkip
           \/ DrainJoin \/ DrainDrop
  BY <1>1, <1>6 DEF ScanSkip, JoinOutcome, JoinFault, StartDrain, Join, ScanEnds,
     FrontierOffers, DrainSkip, DrainJoin, DrainDrop
<1>7. CASE FrontierEmpty
  <2>1. at = "frontier" /\ ~complete
    BY <1>7 DEF FrontierEmpty, IndInv, CompleteInv
  <2>2. in_flight_records = 0 => next_release_ordinal = next_dispatch_ordinal
    BY <2>1 DEF IndInv, NoneMissing, TypeOK
  <2> QED
    BY <1>7, <2>1, <2>2 DEF FrontierEmpty, AllReleasedInv
<1>8. CASE FrontierStops \/ DrainEnds
  BY <1>2, <1>8 DEF FrontierStops, StartDrain, DrainEnds, IndInv, CursorInv
<1> QED
  BY <1>1, <1>3, <1>4, <1>5, <1>6, <1>7, <1>8 DEF Next, Client, PollSteps, DrainSteps

-----------------------------------------------------------------------------
(* The serial answer, morsel by morsel.                                    *)

Byte == Nat \X Nat

\* The parts SerialOutput is flattened from.
Pieces == [i \in 1..SerialLast |-> Bytes(i, SerialBytes[source[i]])]

\* What a morsel publishes is a sequence of the bytes of the instance.
LEMMA BytesAreBytes ==
  ASSUME NEW i \in Nat, NEW n \in Nat
  PROVE  Bytes(i, n) \in Seq(Byte) /\ Len(Bytes(i, n)) = n
<1>1. \A k \in 1..n : <<i, k>> \in Byte
  BY DEF Byte
<1>2. Bytes(i, n) \in [1..n -> Byte]
  BY <1>1 DEF Bytes
<1>3. Bytes(i, n) \in Seq(Byte)
  BY <1>2, SeqDef
<1>4. DOMAIN Bytes(i, n) = 1..n
  BY DEF Bytes
<1> QED
  BY <1>3, <1>4, LenProperties

\* The serial drive goes to the end of the source or to the first morsel that
\* stops it.
LEMMA SerialEnds ==
  ASSUME SourceInv
  PROVE  /\ SerialLast \in 0..Len(source)
         /\ SerialLast # Len(source) => source[SerialLast] \in SerialStops /\ SerialLast # 0
<1> DEFINE stops == {i \in 1..Len(source) : source[i] \in SerialStops}
           m == Min(stops)
<1>1. Len(source) \in Nat
  BY DEF SourceInv
<1>2. SerialLast = IF stops = {} THEN Len(source) ELSE m
  BY DEF SerialLast
<1>3. CASE stops = {}
  <2> HIDE DEF stops
  <2> QED
    BY <1>1, <1>2, <1>3
<1>4. CASE stops # {}
  <2>1. stops \in SUBSET Nat
    BY <1>1
  <2> HIDE DEF stops
  <2>2. PICK n \in stops : \A k \in Nat : k < n => k \notin stops
    BY <1>4, <2>1, LeastNumber
  <2>3. \A y \in stops : n <= y
    BY <2>1, <2>2
  <2>4. m \in stops
    BY <2>2, <2>3 DEF Min
  <2> HIDE DEF m
  <2> QED
    BY <1>1, <1>2, <1>4, <2>4 DEF stops
<1> QED
  BY <1>3, <1>4

\* The serial answer is one of the contents the caller may be served.
LEMMA SerialTyped ==
  ASSUME SourceInv
  PROVE  /\ Pieces \in Seq(Seq(Byte)) /\ Len(Pieces) = SerialLast
         /\ \A i \in 1..SerialLast :
              /\ Pieces[i] = Bytes(i, SerialBytes[source[i]])
              /\ Pieces[i] \in Seq(Byte) /\ Len(Pieces[i]) = SerialBytes[source[i]]
         /\ FlattenSeq(Pieces) \in Seq(Byte) /\ SerialOutput \in Seq(Byte)
         /\ Begins(Byte, FlattenSeq(Pieces), SerialOutput)
<1>1. SerialLast \in 0..Len(source) /\ Len(source) \in Nat
  BY SerialEnds DEF SourceInv
<1>2. \A i \in 1..SerialLast : i \in Nat /\ SerialBytes[source[i]] \in Nat
  BY <1>1, RelayAssumption DEF SourceInv
<1>3. \A i \in 1..SerialLast :
         /\ Pieces[i] = Bytes(i, SerialBytes[source[i]])
         /\ Pieces[i] \in Seq(Byte) /\ Len(Pieces[i]) = SerialBytes[source[i]]
  <2> SUFFICES ASSUME NEW i \in 1..SerialLast
               PROVE  /\ Pieces[i] = Bytes(i, SerialBytes[source[i]])
                      /\ Pieces[i] \in Seq(Byte) /\ Len(Pieces[i]) = SerialBytes[source[i]]
    OBVIOUS
  <2>1. Pieces[i] = Bytes(i, SerialBytes[source[i]])
    BY DEF Pieces
  <2>2. Bytes(i, SerialBytes[source[i]]) \in Seq(Byte)
        /\ Len(Bytes(i, SerialBytes[source[i]])) = SerialBytes[source[i]]
    BY <1>2, BytesAreBytes
  <2> QED
    BY <2>1, <2>2
<1>4. Pieces \in [1..SerialLast -> Seq(Byte)]
  <2>1. Pieces = [i \in 1..SerialLast |-> Pieces[i]]
    BY DEF Pieces
  <2> QED
    BY <1>3, <2>1
<1>5. Pieces \in Seq(Seq(Byte))
  BY <1>1, <1>4, SeqDef
<1>6. Len(Pieces) = SerialLast
  <2>1. DOMAIN Pieces = 1..SerialLast
    BY DEF Pieces
  <2> QED
    BY <1>1, <1>5, <2>1, LenProperties
<1>7. FlattenSeq(Pieces) \in Seq(Byte)
  <2>1. SerialLast \in 0..SerialLast
    BY <1>1
  <2>2. FlattenSeq(Pieces) = Upto(Pieces, SerialLast)
    BY <1>5, <1>6, UptoAll
  <2> QED
    BY <1>5, <1>6, <2>1, <2>2, UptoTyped
<1>8. PICK rest \in Seq(Byte) : SerialOutput = FlattenSeq(Pieces) \o rest
  <2>1. <<>> \in Seq(Byte) /\ Bytes(Len(source) + 1, 1) \in Seq(Byte)
    BY <1>1, BytesAreBytes
  <2> QED
    BY <2>1 DEF SerialOutput, Pieces
<1>9. SerialOutput \in Seq(Byte) /\ Begins(Byte, FlattenSeq(Pieces), SerialOutput)
  BY <1>7, <1>8, ConcatProperties DEF Begins
<1> QED
  BY <1>3, <1>5, <1>6, <1>7, <1>9

\* The bytes of some morsels are a prefix of the serial answer.
LEMMA UptoIsPrefix ==
  ASSUME SourceInv, NEW k \in 0..SerialLast
  PROVE  /\ Upto(Pieces, k) \in Seq(Byte) /\ Begins(Byte, Upto(Pieces, k), SerialOutput)
         /\ k < SerialLast => Upto(Pieces, k + 1) = Upto(Pieces, k) \o Pieces[k + 1]
<1>1. /\ Pieces \in Seq(Seq(Byte)) /\ Len(Pieces) = SerialLast /\ SerialLast \in Nat
      /\ FlattenSeq(Pieces) \in Seq(Byte) /\ Begins(Byte, FlattenSeq(Pieces), SerialOutput)
  BY SerialTyped, SerialEnds DEF SourceInv
<1>2. Upto(Pieces, k) \in Seq(Byte)
  BY <1>1, UptoTyped
<1>3. FlattenSeq(Pieces) = Upto(Pieces, SerialLast)
  BY <1>1, UptoAll
<1>4. SerialLast \in k..Len(Pieces)
  BY <1>1
<1>5. Begins(Byte, Upto(Pieces, k), FlattenSeq(Pieces))
  BY <1>1, <1>3, <1>4, UptoGrows
<1>6. Begins(Byte, Upto(Pieces, k), SerialOutput)
  BY <1>1, <1>2, <1>5, BeginsTransitive
<1>7. ASSUME k < SerialLast
      PROVE  Upto(Pieces, k + 1) = Upto(Pieces, k) \o Pieces[k + 1]
  <2>1. k \in 0..(Len(Pieces) - 1)
    BY <1>1, <1>7
  <2> QED
    BY <1>1, <1>2, <2>1, UptoStep
<1> QED
  BY <1>2, <1>6, <1>7

\* So is what has been written of the next one.
LEMMA PartIsPrefix ==
  ASSUME SourceInv, NEW k \in 0..(SerialLast - 1), NEW w \in Nat, NEW n \in Nat,
         w + n <= Len(Pieces[k + 1])
  PROVE  LET done == Upto(Pieces, k) \o SubSeq(Pieces[k + 1], 1, w)
             more == SubSeq(Pieces[k + 1], w + 1, w + n)
         IN /\ done \in Seq(Byte) /\ more \in Seq(Byte) /\ Len(more) = n
            /\ done \o more = Upto(Pieces, k) \o SubSeq(Pieces[k + 1], 1, w + n)
            /\ Begins(Byte, done, SerialOutput)
<1> DEFINE piece == Pieces[k + 1]
           before == Upto(Pieces, k)
<1>1. /\ SerialLast \in Nat /\ k \in 0..SerialLast /\ k < SerialLast
      /\ k + 1 \in 1..SerialLast /\ k + 1 \in 0..SerialLast
  BY SerialEnds DEF SourceInv
<1>2. piece \in Seq(Byte)
  BY <1>1, SerialTyped
<1>3. /\ before \in Seq(Byte) /\ Upto(Pieces, k + 1) = before \o piece
      /\ before \o piece \in Seq(Byte) /\ Begins(Byte, before \o piece, SerialOutput)
  BY <1>1, UptoIsPrefix
<1> HIDE DEF piece, before
<1>4. w + n <= Len(piece) /\ w <= Len(piece) /\ Len(piece) \in Nat
  BY <1>2 DEF piece
<1>5. /\ (before \o SubSeq(piece, 1, w)) \o SubSeq(piece, w + 1, w + n)
           = before \o SubSeq(piece, 1, w + n)
      /\ before \o SubSeq(piece, 1, w) \in Seq(Byte)
      /\ SubSeq(piece, w + 1, w + n) \in Seq(Byte) /\ Len(SubSeq(piece, w + 1, w + n)) = n
      /\ Begins(Byte, before \o SubSeq(piece, 1, w), before \o piece)
  BY <1>2, <1>3, <1>4, StretchesJoinBehind
<1>6. Begins(Byte, before \o SubSeq(piece, 1, w), SerialOutput)
  BY <1>3, <1>5, BeginsTransitive
<1> QED
  BY <1>5, <1>6 DEF piece, before

\* The source and its end are the request's own.
LEMMA AnswerStays ==
  ASSUME [RelayNext]_allVars
  PROVE  /\ source' = source /\ tail' = tail /\ SerialLast' = SerialLast
         /\ Pieces' = Pieces /\ SerialOutput' = SerialOutput
<1>1. source' = source /\ tail' = tail
  BY DEF RelayNext, Loop, Inside, CheckControl, SourceEnds, Oversized, Fill, FillEnds, CallPoll,
     Answered, WaitForFrontier, Woken, Write, Written, Flush, Release, GiveUp, Stopped, Route,
     Redrive, RedriveEnds, sourceVars, relayVars, allVars
<1>2. SerialLast' = SerialLast
  BY <1>1 DEF SerialLast
<1>3. Pieces' = Pieces
  BY <1>1, <1>2 DEF Pieces
<1> QED
  BY <1>1, <1>2, <1>3 DEF SerialOutput

-----------------------------------------------------------------------------
(* Where the loop stands, and what it has handed over and published.       *)

\* Places between two calls of the coordinator, and those of the whole loop.
Calm == {"control", "fill", "poll", "offer", "write", "flush", "ack"}
Running == Calm \cup {"polling", "parked"}

\* Between calls the lane is at rest and has not been stopped; a call that has
\* stopped it never answers as if it had not; what is published is on offer.
CallInv ==
  /\ pc \in Calm => at = "client" /\ ~cancelled
  /\ pc = "parked" => at = "parked" /\ ~cancelled
  /\ pc \in {"offer", "write", "flush", "ack"} => offered_slot # NONE
  /\ pc = "polling" /\ cancelled => answer \notin {"ready", "pending", "complete"}
  /\ pc = "polling" /\ at = "client" /\ answer = "ready" => offered_slot # NONE

\* Ordinals are morsels: the units dispatched are the source's own, in order, and
\* at most one morsel is held back.
JobInv ==
  /\ Len(job) <= Len(source) /\ \A k \in 1..Len(job) : job[k] = Unit(k)
  /\ pc \in Running => \/ held = NONE /\ pulled = Len(job)
                       \/ held = pulled /\ pulled = Len(job) + 1

\* The source is over only when all of it is pulled; unless it is stopped, the
\* coordinator is told to finish only then.
FinishInv ==
  /\ source_done => tail = "exhausted" /\ held = NONE /\ pulled = Len(source)
  /\ dispatch_finished /\ ~cancelled => source_done

\* What a call of the coordinator does to what the loop relies on.
LEMMA DispatchReturns ==
  ASSUME NEW u, NEW own, Dispatch(u, own)
  PROVE  /\ \/ at' = "client" /\ cancelled' = cancelled
            \/ at' = "drain" /\ cancelled'
         /\ \/ at' = "client" /\ answer' = "started" /\ job' = Append(job, u)
            \/ (at' # "client" \/ answer' # "started") /\ job' = job
         /\ UNCHANGED <<next_release_ordinal, dispatch_finished, offered_slot, ready>>
<1> USE DEF counters, flags, scopeVars
<1>1. CASE DispatchRefused(u, own)
  BY <1>1 DEF Dispatch, DispatchRefused, Refuse, Return
<1>2. CASE DispatchFails(u, own)
  BY <1>2 DEF Dispatch, DispatchFails, StartDrain
<1>3. CASE DispatchStarts(u, own)
  BY <1>3 DEF Dispatch, DispatchStarts, Return
<1> QED
  BY <1>1, <1>2, <1>3 DEF Dispatch

\* At rest or parked, only workers move, and the coordinator does not.
LEMMA RestInside ==
  ASSUME at \in {"client", "parked"}, Inside
  PROVE  UNCHANGED coordVars /\ cancelled' = cancelled /\ UNCHANGED relayVars
<1>1. ~PollSteps /\ ~DrainSteps
  BY DEF PollSteps, DrainSteps, ScanSkip, JoinOutcome, JoinFault, ScanEnds, FrontierEmpty,
     FrontierOffers, FrontierStops, DrainSkip, DrainJoin, DrainDrop, DrainEnds
<1> QED
  BY <1>1 DEF Inside, Worker, WorkerEnds, WorkerWakes, EndBody, WakeFrontier

\* Inside a call nothing is dispatched, no scope is revived, and a release is
\* followed by a stop.
LEMMA CallInside ==
  ASSUME IndInv, Inside
  PROVE  /\ job' = job /\ UNCHANGED relayVars /\ (cancelled => cancelled')
         /\ cancelled' \/ UNCHANGED <<next_release_ordinal, dispatch_finished>>
<1> USE DEF counters, flags, coordVars, scopeVars
<1>1. CASE Worker
  BY <1>1 DEF Inside, Worker, WorkerEnds, WorkerWakes, EndBody, WakeFrontier
<1>2. CASE ScanSkip \/ JoinOutcome \/ JoinFault \/ ScanEnds
  BY <1>2 DEF Inside, ScanSkip, JoinOutcome, JoinFault, ScanEnds, Join, StartDrain
<1>3. CASE FrontierEmpty \/ FrontierOffers \/ FrontierStops
  BY <1>3 DEF Inside, FrontierEmpty, FrontierOffers, FrontierStops, StartDrain
<1>4. CASE DrainSteps
  BY <1>4 DEF Inside, DrainSteps, DrainSkip, DrainJoin, DrainDrop, DrainEnds, Join, IndInv,
     CursorInv
<1> QED
  BY <1>1, <1>2, <1>3, <1>4 DEF Inside, PollSteps

\* A running loop finds the coordinator where its last call left it.
LEMMA CallStep ==
  ASSUME IndInv, CallInv, [RelayNext]_allVars
  PROVE  CallInv'
<1> USE DEF counters, flags, coordVars, scopeVars, vars, Calm
<1>1. CASE pc' \notin Running
  BY <1>1 DEF CallInv, Running
<1>2. CASE CheckControl \/ SourceEnds \/ Oversized \/ Written \/ Flush
  BY <1>2 DEF CallInv, CheckControl, SourceEnds, Oversized, Written, Flush, Goto, Leave
<1>3. CASE Write
  BY <1>3 DEF CallInv, Write, Leave
<1>4. CASE Fill
  <2>1. PICK own \in OwnBytes : Dispatch(Unit(Candidate), own)
    BY <1>4 DEF Fill
  <2>2. pc' \in {"fill", "poll", "giveup"} /\ (at' = "drain" => pc' = "giveup") /\ pc = "fill"
    BY <1>4 DEF Fill, Goto, Leave
  <2>3. (at' = "client" /\ cancelled' = cancelled) \/ at' = "drain"
    BY <2>1, DispatchReturns
  <2> QED
    BY <2>2, <2>3 DEF CallInv
<1>5. CASE FillEnds
  BY <1>5 DEF CallInv, FillEnds, FinishDispatch, Return, Goto
<1>6. CASE CallPoll
  BY <1>6 DEF CallInv, CallPoll, Poll, Return, Goto
<1>7. CASE Answered
  BY <1>7 DEF CallInv, Answered, Goto, Leave
<1>8. CASE WaitForFrontier
  BY <1>8 DEF CallInv, WaitForFrontier, Park, Goto
<1>9. CASE Woken
  BY <1>9 DEF CallInv, Woken, Unpark, Unparked, Return, Goto
<1>10. CASE Release
  BY <1>10 DEF CallInv, Release, Acknowledge, Return, StartDrain, Goto, Leave
<1>11. CASE GiveUp \/ Stopped \/ Route \/ Redrive \/ RedriveEnds
  <2>1. pc' \notin Running
    BY <1>11 DEF GiveUp, Stopped, Route, Redrive, RedriveEnds, Goto, Running
  <2> QED
    BY <1>1, <2>1
<1>12. CASE Inside
  <2>1. pc' = pc
    BY <1>12 DEF Inside, relayVars
  <2>2. CASE pc \in Calm \cup {"parked"}
    BY <1>12, <2>1, <2>2, RestInside DEF CallInv
  <2>3. CASE pc = "polling"
    <3>1. CASE Worker
      BY <2>1, <2>3, <3>1 DEF CallInv, Worker, WorkerEnds, WorkerWakes, EndBody, WakeFrontier
    <3>2. CASE DrainSteps
      <4>1. cancelled /\ cancelled' /\ answer' = answer
        BY <3>2 DEF DrainSteps, DrainSkip, DrainJoin, DrainDrop, DrainEnds, IndInv, CursorInv
      <4> QED
        BY <2>1, <2>3, <4>1 DEF CallInv
    <3>3. ASSUME at \in {"scan", "frontier"} PROVE ~cancelled
      BY <3>3 DEF IndInv, StopInv, CompleteInv
    <3>4. CASE ScanSkip \/ JoinOutcome \/ ScanEnds
      BY <2>1, <2>3, <3>3, <3>4 DEF CallInv, ScanSkip, JoinOutcome, ScanEnds
    <3>5. CASE JoinFault
      <4>1. answer' = "internal" \/ (answer' = ended[cursor] /\ ~HasOutcome(cursor))
        BY <3>5 DEF JoinFault, StartDrain
      <4>2. ended[cursor] \in Outcomes
        BY <3>5 DEF JoinFault, Join, IndInv, PermitInv
      <4>3. answer' \in {"internal"} \cup Faults
        BY <4>1, <4>2, OrderedAssumption DEF HasOutcome
      <4>4. at' = "drain"
        BY <3>5 DEF JoinFault, StartDrain
      <4> QED
        BY <2>1, <2>3, <4>3, <4>4 DEF CallInv, Faults
    <3>6. CASE FrontierEmpty
      BY <2>1, <2>3, <3>3, <3>6 DEF CallInv, FrontierEmpty, Return
    <3>7. CASE FrontierOffers
      <4>1. Frontier # NONE
        BY OrderedAssumption, RingIndexInRing DEF Frontier, Ring, IndInv, TypeOK
      <4> QED
        BY <2>1, <2>3, <3>3, <3>7, <4>1 DEF CallInv, FrontierOffers, Return
    <3>8. CASE FrontierStops
      <4>1. answer' \in {"internal"} \cup Terminals
        <5>1. Frontier \in Ring
          BY RingIndexInRing DEF Frontier, IndInv, TypeOK
        <5>2. ready[Frontier].kind \in {Clean} \cup Terminals
          BY <3>8, <5>1 DEF FrontierStops, IndInv, TypeOK, Slot
        <5>3. answer' = "internal" \/ (answer' = ready[Frontier].kind /\ ready[Frontier].kind # Clean)
          BY <3>8 DEF FrontierStops, StartDrain
        <5> QED
          BY <5>2, <5>3
      <4>2. at' = "drain"
        BY <3>8 DEF FrontierStops, StartDrain
      <4> QED
        BY <2>1, <2>3, <4>1, <4>2 DEF CallInv, Terminals
    <3> QED
      BY <1>12, <3>1, <3>2, <3>4, <3>5, <3>6, <3>7, <3>8 DEF Inside, PollSteps
  <2> QED
    BY <1>1, <2>1, <2>2, <2>3 DEF Running
<1>13. CASE UNCHANGED allVars
  BY <1>13 DEF CallInv, allVars, relayVars
<1> QED
  BY <1>2, <1>3, <1>4, <1>5, <1>6, <1>7, <1>8, <1>9, <1>10, <1>11, <1>12, <1>13
     DEF RelayNext, Loop

\* Every ordinal is the morsel of the source in the same place.
LEMMA JobStep ==
  ASSUME IndInv, SourceInv, JobInv, [RelayNext]_allVars
  PROVE  JobInv'
<1> USE DEF counters, flags, coordVars, scopeVars, vars, Calm, Running
<1>1. source' = source
  BY AnswerStays
<1>2. ASSUME job' = job, UNCHANGED <<held, pulled>> \/ pc' \notin Running,
             pc' \in Running => pc \in Running
      PROVE  JobInv'
  BY <1>1, <1>2 DEF JobInv, Unit
<1>3. CASE CheckControl \/ SourceEnds \/ Oversized \/ Written \/ Flush
  BY <1>2, <1>3 DEF CheckControl, SourceEnds, Oversized, Written, Flush, Goto, Leave, sourceVars
<1>4. CASE Write
  BY <1>2, <1>4 DEF Write, Leave, sourceVars
<1>5. CASE Fill
  <2>1. PICK own \in OwnBytes : Dispatch(Unit(Candidate), own)
    BY <1>5 DEF Fill
  <2>2. /\ pc = "fill" /\ Candidate <= Len(source) /\ pulled' = Candidate
        /\ held' = IF at' = "client" /\ answer' # "started" THEN Candidate ELSE NONE
        /\ at' = "drain" => pc' = "giveup"
    BY <1>5 DEF Fill, Leave
  <2>3. Candidate = Len(job) + 1 /\ Candidate \in Nat /\ Candidate # NONE
    BY <2>2, OrderedAssumption DEF JobInv, SourceInv, Candidate, IndInv, TypeOK
  <2>4. at' \in {"client", "drain"}
    BY <2>1, DispatchReturns
  <2>5. CASE job' = job
    <3>1. CASE at' = "drain"
      BY <1>2, <2>2, <2>5, <3>1
    <3>2. CASE at' = "client" /\ answer' # "started"
      BY <1>1, <2>2, <2>3, <2>5, <3>2 DEF JobInv, Unit
    <3> QED
      BY <2>1, <2>3, <2>4, <2>5, <3>1, <3>2 DEF Dispatch, DispatchRefused, Refuse, Return,
         DispatchFails, StartDrain, DispatchStarts, IndInv, TypeOK
  <2>6. CASE at' = "client" /\ answer' = "started" /\ job' = Append(job, Unit(Candidate))
    <3>1. job \in Seq(Units) /\ Unit(Candidate) \in Units
      BY <2>2, CandidateIsUnit DEF IndInv, TypeOK
    <3>2. Len(job') = Len(job) + 1 /\ Len(job) \in Nat
      BY <2>6, <3>1
    <3>3. \A k \in 1..Len(job') : job'[k] = Unit(k)
      <4> SUFFICES ASSUME NEW k \in 1..Len(job') PROVE job'[k] = Unit(k)
        OBVIOUS
      <4>1. CASE k = Len(job) + 1
        BY <2>3, <2>6, <3>1, <3>2, <4>1
      <4>2. CASE k \in 1..Len(job)
        <5>1. job'[k] = job[k]
          BY <2>6, <3>1, <4>2
        <5> QED
          BY <4>2, <5>1 DEF JobInv
      <4> QED
        BY <3>2, <4>1, <4>2
    <3>4. \A k : Unit(k)' = <<k, source[k]>>
      BY <1>1 DEF Unit
    <3> QED
      BY <1>1, <2>2, <2>3, <2>6, <3>2, <3>3, <3>4 DEF JobInv, Unit
  <2> QED
    BY <2>1, <2>5, <2>6, DispatchReturns
<1>6. CASE FillEnds \/ CallPoll \/ WaitForFrontier \/ Woken
  BY <1>2, <1>6 DEF FillEnds, FinishDispatch, CallPoll, Poll, WaitForFrontier, Park, Woken,
     Unpark, Goto, sourceVars
<1>7. CASE Answered
  BY <1>2, <1>7 DEF Answered, sourceVars
<1>8. CASE Release
  BY <1>2, <1>8 DEF Release, Acknowledge, sourceVars
<1>9. CASE GiveUp \/ Stopped \/ Route \/ Redrive \/ RedriveEnds
  BY <1>2, <1>9 DEF GiveUp, CancelAndDrain, Stopped, Route, Redrive, RedriveEnds, Goto, sourceVars
<1>10. CASE Inside
  BY <1>2, <1>10, CallInside DEF relayVars
<1>11. CASE UNCHANGED allVars
  BY <1>2, <1>11 DEF allVars, relayVars
<1> QED
  BY <1>3, <1>4, <1>5, <1>6, <1>7, <1>8, <1>9, <1>10, <1>11 DEF RelayNext, Loop

\* A finished dispatch has handed over the whole source.
LEMMA FinishStep ==
  ASSUME IndInv, FinishInv, [RelayNext]_allVars
  PROVE  FinishInv'
<1> USE DEF counters, flags, coordVars, scopeVars, vars
<1>1. tail' = tail /\ source' = source
  BY AnswerStays
<1>2. ASSUME UNCHANGED <<source_done, held, pulled>>, cancelled => cancelled',
             cancelled' \/ dispatch_finished' = dispatch_finished
      PROVE  FinishInv'
  BY <1>1, <1>2 DEF FinishInv
<1>3. CASE SourceEnds
  BY <1>1, <1>3 DEF SourceEnds, FinishInv, Goto
<1>4. CASE Oversized
  BY <1>4 DEF Oversized, FinishInv
<1>5. CASE Fill
  <2>1. PICK own \in OwnBytes : Dispatch(Unit(Candidate), own)
    BY <1>5 DEF Fill
  <2>2. ~source_done /\ ~source_done'
    BY <1>5 DEF Fill
  <2>3. dispatch_finished' = dispatch_finished /\ (cancelled => cancelled')
    BY <2>1, DispatchReturns
  <2> QED
    BY <2>2, <2>3 DEF FinishInv
<1>6. CASE FillEnds
  BY <1>1, <1>6 DEF FillEnds, FinishDispatch, FinishInv, sourceVars
<1>7. CASE CheckControl \/ CallPoll \/ Answered \/ WaitForFrontier \/ Woken \/ Write \/ Written
           \/ Flush
  BY <1>2, <1>7 DEF CheckControl, CallPoll, Poll, Answered, WaitForFrontier, Park, Woken, Unpark,
     Write, Written, Flush, sourceVars
<1>8. CASE Release \/ GiveUp \/ Stopped \/ Route \/ Redrive \/ RedriveEnds
  BY <1>2, <1>8 DEF Release, Acknowledge, StartDrain, GiveUp, CancelAndDrain, Stopped, Route,
     Redrive, RedriveEnds, sourceVars
<1>9. CASE Inside
  BY <1>2, <1>9, CallInside DEF relayVars
<1>10. CASE UNCHANGED allVars
  BY <1>2, <1>10 DEF allVars, relayVars
<1> QED
  BY <1>3, <1>4, <1>5, <1>6, <1>7, <1>8, <1>9, <1>10 DEF RelayNext, Loop

-----------------------------------------------------------------------------
(* What has been published.                                                *)

\* What the caller's sink has taken is a prefix of the serial answer; while the
\* lane runs it is the morsels released and what is written of the one on offer,
\* and the loop's own count says how many bytes that is.
PublishInv ==
  /\ written \in Nat /\ published_bytes \in Nat
  /\ out \in Seq(Byte) /\ Begins(Byte, out, SerialOutput)
  /\ pc = "write" =>
       /\ written <= ResultBytes[OfferedUnit]
       /\ Len(out) = published_bytes + written
       /\ out = Upto(Pieces, next_release_ordinal)
                \o SubSeq(Pieces[next_release_ordinal + 1], 1, written)
  /\ pc \in {"flush", "ack"} => out = Upto(Pieces, next_release_ordinal + 1)
  /\ pc \in Running \ {"write", "flush", "ack"} /\ ~cancelled =>
       out = Upto(Pieces, next_release_ordinal)
  /\ pc \in Running \ {"write"} => written = 0 /\ Len(out) = published_bytes
  /\ pc \in {"giveup", "stopping", "route"} /\ result = "yield" => Len(out) = published_bytes

\* The redrive has skipped or rewritten what was published and nothing else.
RedriveInv ==
  /\ pc \notin {"redrive", "end"} => redriven = 0
  /\ pc = "redrive" => /\ redriven \in Nat /\ remaining \in Nat /\ result = "yield"
                       /\ Len(out) = redriven + remaining

\* Only a relay that has published everything says it is complete.
ResultInv ==
  /\ pc \in {"giveup", "stopping"} => result \in {"yield", "control", "sink_failed"}
  /\ pc = "route" => result \in {"complete", "yield", "refused", "control", "sink_failed"}
  /\ pc = "route" /\ result = "complete" => out = SerialOutput

\* A clean run of morsels is one the serial drive does not stop in, and each
\* yields its serial bytes.
LEMMA CleanIsSerial ==
  ASSUME IndInv, SourceInv, JobInv, NEW o \in 0..(Len(job) - 1),
         \A j \in 0..o : Clean \in CanEnd[JobOf(j)]
  PROVE  /\ o + 1 \in 1..SerialLast /\ o \in 0..(SerialLast - 1)
         /\ JobOf(o) = <<o + 1, source[o + 1]>>
         /\ ResultBytes[JobOf(o)] = SerialBytes[source[o + 1]]
<1>1. Len(job) \in Nat /\ Len(source) \in Nat /\ Len(job) <= Len(source)
  BY DEF SourceInv, JobInv, IndInv, TypeOK
<1>2. ASSUME NEW j \in 0..o
      PROVE  /\ JobOf(j) = <<j + 1, source[j + 1]>> /\ source[j + 1] \notin SerialStops
             /\ ResultBytes[JobOf(j)] = SerialBytes[source[j + 1]]
  <2>1. j + 1 \in 1..Len(job) /\ j + 1 \in 1..Len(source)
    BY <1>1
  <2>2. JobOf(j) = <<j + 1, source[j + 1]>>
    BY <2>1 DEF JobInv, JobOf, Unit
  <2>3. JobOf(j) \in Units
    BY <2>1 DEF JobOf, IndInv, TypeOK
  <2>4. JobOf(j)[2] = source[j + 1]
    BY <2>2
  <2>5. ResultBytes[JobOf(j)] = SerialBytes[JobOf(j)[2]] /\ JobOf(j)[2] \notin SerialStops
    BY <2>3, CleanMorselLaw
  <2> QED
    BY <2>2, <2>4, <2>5
<1>3. /\ SerialLast \in 0..Len(source)
      /\ SerialLast # Len(source) => source[SerialLast] \in SerialStops /\ SerialLast # 0
  BY SerialEnds
<1>4. o \in 0..o /\ o \in Nat /\ o + 1 <= Len(source)
  BY <1>1
<1>5. o + 1 <= SerialLast
  <2> SUFFICES ASSUME ~(o + 1 <= SerialLast) PROVE FALSE
    OBVIOUS
  <2> DEFINE j == SerialLast - 1
  <2>1. SerialLast # Len(source) /\ SerialLast # 0 /\ source[SerialLast] \in SerialStops
    BY <1>1, <1>3, <1>4
  <2>2. j \in 0..o /\ j + 1 = SerialLast
    BY <1>1, <1>3, <1>4, <2>1
  <2> HIDE DEF j
  <2> QED
    BY <1>2, <2>1, <2>2
<1> QED
  BY <1>2, <1>3, <1>4, <1>5

\* Unless it is stopped, the lane has released a part of the serial answer.
LEMMA ReleasedIsSerial ==
  ASSUME IndInv, SourceInv, JobInv, CleanInv, ~cancelled
  PROVE  next_release_ordinal \in 0..SerialLast
<1>1. /\ next_release_ordinal \in Nat /\ next_release_ordinal <= Len(job) /\ Len(job) \in Nat
      /\ SerialLast \in 0..Len(source) /\ Len(source) \in Nat
  BY SerialEnds DEF IndInv, TypeOK, PlaceInv, SourceInv
<1>2. CASE next_release_ordinal = 0
  BY <1>1, <1>2
<1>3. CASE next_release_ordinal # 0
  <2> DEFINE o == next_release_ordinal - 1
  <2>1. o \in 0..(Len(job) - 1) /\ o + 1 = next_release_ordinal
    BY <1>1, <1>3
  <2>2. \A j \in 0..o : Clean \in CanEnd[JobOf(j)]
    BY DEF CleanInv
  <2> HIDE DEF o
  <2>3. o + 1 \in 1..SerialLast
    BY <2>1, <2>2, CleanIsSerial
  <2> QED
    BY <1>1, <2>1, <2>3
<1> QED
  BY <1>2, <1>3

\* The morsel on offer is the next of the serial answer.
LEMMA OfferIsSerial ==
  ASSUME IndInv, SourceInv, JobInv, CleanInv, CallInv, pc \in {"offer", "write", "flush", "ack"}
  PROVE  /\ next_release_ordinal \in 0..(SerialLast - 1)
         /\ next_release_ordinal \in 0..SerialLast /\ next_release_ordinal < SerialLast
         /\ Pieces[next_release_ordinal + 1] \in Seq(Byte)
         /\ Bytes(OfferedUnit[1], ResultBytes[OfferedUnit]) = Pieces[next_release_ordinal + 1]
         /\ ResultBytes[OfferedUnit] = Len(Pieces[next_release_ordinal + 1])
         /\ ResultBytes[OfferedUnit] \in Nat
<1> DEFINE o == next_release_ordinal
<1>1. at = "client" /\ ~cancelled /\ offered_slot # NONE
  BY DEF CallInv, Calm
<1>2. /\ offered_slot = Frontier /\ Frontier \in Filled
      /\ ready[Frontier].ordinal = o /\ ready[Frontier].kind = Clean
  BY <1>1, RingIndexInRing DEF IndInv, OfferInv, InOrder, Filled, TypeOK, Frontier
<1>3. OfferedUnit = JobOf(o)
  BY <1>2 DEF OfferedUnit, Offered
<1>4. Clean \in CanEnd[JobOf(o)] /\ \A j \in 0..(o - 1) : Clean \in CanEnd[JobOf(j)]
  BY <1>1, <1>2 DEF CleanInv
<1>5. o \in 0..(Len(job) - 1)
  BY <1>2 DEF IndInv, PlaceInv, Window, TypeOK
<1>6. \A j \in 0..o : Clean \in CanEnd[JobOf(j)]
  BY <1>4, <1>5
<1> HIDE DEF o
<1>7. /\ o + 1 \in 1..SerialLast /\ o \in 0..(SerialLast - 1)
      /\ JobOf(o) = <<o + 1, source[o + 1]>>
      /\ ResultBytes[JobOf(o)] = SerialBytes[source[o + 1]]
  BY <1>5, <1>6, CleanIsSerial
<1>8. /\ Pieces[o + 1] = Bytes(o + 1, SerialBytes[source[o + 1]])
      /\ Pieces[o + 1] \in Seq(Byte) /\ Len(Pieces[o + 1]) = SerialBytes[source[o + 1]]
  BY <1>7, SerialTyped
<1>9. OfferedUnit[1] = o + 1
  BY <1>3, <1>7
<1>10. SerialLast \in Nat
  BY SerialEnds DEF SourceInv
<1>11. Len(Pieces[o + 1]) \in Nat
  BY <1>8
<1> QED
  BY <1>3, <1>7, <1>8, <1>9, <1>10, <1>11 DEF o

\* A complete lane that was not stopped has published the serial answer.
LEMMA CompleteIsSerial ==
  ASSUME IndInv, SourceInv, JobInv, FinishInv, CleanInv, AllReleasedInv, EndingInv, CallInv,
         PublishInv, pc = "polling", at = "client", answer = "complete"
  PROVE  out = SerialOutput
<1>1. complete /\ ~cancelled
  BY DEF EndingInv, Endings, CallInv
<1>2. next_release_ordinal = Len(job) /\ dispatch_finished
  BY <1>1 DEF AllReleasedInv, IndInv, PlaceInv
<1>3. tail = "exhausted" /\ held = NONE /\ pulled = Len(source)
  BY <1>1, <1>2 DEF FinishInv
<1>4. NONE # Len(source)
  BY OrderedAssumption DEF SourceInv
<1>5. next_release_ordinal = Len(source)
  BY <1>2, <1>3, <1>4 DEF JobInv, Running
<1>6. next_release_ordinal \in 0..SerialLast
  BY <1>1, ReleasedIsSerial
<1>7. SerialLast = Len(source)
  BY <1>5, <1>6, SerialEnds DEF SourceInv
<1>8. out = Upto(Pieces, next_release_ordinal)
  BY <1>1 DEF PublishInv, Running
<1>9. Pieces \in Seq(Seq(Byte)) /\ Len(Pieces) = SerialLast
  BY SerialTyped
<1>10. FlattenSeq(Pieces) = Upto(Pieces, SerialLast)
  BY <1>9, UptoAll
<1>11. FlattenSeq(Pieces) = out
  BY <1>5, <1>7, <1>8, <1>10
<1>12. SerialOutput = FlattenSeq(Pieces) \o <<>>
  BY <1>3 DEF SerialOutput, Pieces
<1>13. out \in Seq(Byte)
  BY DEF PublishInv
<1>14. out \o <<>> = out
  BY <1>13, ConcatEmptySeq
<1> QED
  BY <1>11, <1>12, <1>14

\* The redrive's writes go on where the caller's sink left off.
LEMMA RedriveWrites ==
  ASSUME SourceInv, PublishInv, RedriveInv, Redrive
  PROVE  /\ out' \in Seq(Byte) /\ Begins(Byte, out', SerialOutput) /\ Begins(Byte, out, out')
         /\ \/ pc' = "end" /\ result' = "sink_failed" /\ out' = out
            \/ pc' = "redrive" /\ RedriveInv'
<1>1. /\ pc = "redrive" /\ redriven \in Nat /\ remaining \in Nat /\ result = "yield"
      /\ Len(out) = redriven + remaining
      /\ out \in Seq(Byte) /\ Begins(Byte, out, SerialOutput)
  BY DEF Redrive, RedriveInv, PublishInv
<1>2. SerialOutput \in Seq(Byte) /\ Len(SerialOutput) \in Nat
  BY SerialTyped
<1>3. Len(out) <= Len(SerialOutput) /\ SubSeq(SerialOutput, 1, Len(out)) = out
  BY <1>1, <1>2, BeginsIsPrefix
<1>4. Begins(Byte, out, out)
  BY <1>1, BeginsReflexive
<1>5. PICK n \in 1..(Len(SerialOutput) - redriven) :
        LET skipped == Min({remaining, n}) IN
        /\ remaining' = remaining - skipped
        /\ \/ \E w \in 0..(n - skipped) :
                /\ skipped + w > 0
                /\ out' = out \o SubSeq(SerialOutput, redriven + skipped + 1,
                                        redriven + skipped + w)
                /\ redriven' = redriven + skipped + w
                /\ UNCHANGED <<pc, result>>
           \/ /\ skipped < n
              /\ pc' = "end" /\ result' = "sink_failed"
              /\ UNCHANGED <<out, redriven>>
  BY DEF Redrive
<1> DEFINE skipped == Min({remaining, n})
<1>6. n \in Nat /\ redriven + n <= Len(SerialOutput)
  BY <1>1, <1>2
<1>7. skipped = IF remaining <= n THEN remaining ELSE n
  <2>1. CASE remaining <= n
    <3>1. remaining \in {remaining, n} /\ \A y \in {remaining, n} : remaining <= y
      BY <1>1, <2>1
    <3>2. \A m \in {remaining, n} : (\A y \in {remaining, n} : m <= y) => m = remaining
      BY <1>1, <1>6, <2>1
    <3> QED
      BY <2>1, <3>1, <3>2 DEF Min
  <2>2. CASE ~(remaining <= n)
    <3>1. n \in {remaining, n} /\ \A y \in {remaining, n} : n <= y
      BY <1>1, <1>6, <2>2
    <3>2. \A m \in {remaining, n} : (\A y \in {remaining, n} : m <= y) => m = n
      BY <1>1, <1>6, <2>2
    <3> QED
      BY <2>2, <3>1, <3>2 DEF Min
  <2> QED
    BY <2>1, <2>2
<1>8. remaining' = remaining - skipped
  BY <1>5
<1> HIDE DEF skipped
<1>9. skipped \in Nat /\ skipped <= n /\ skipped <= remaining /\ remaining' \in Nat
  BY <1>1, <1>6, <1>7, <1>8
<1>10. CASE pc' = "end" /\ result' = "sink_failed" /\ out' = out
  BY <1>1, <1>4, <1>10
<1>11. ASSUME NEW w \in 0..(n - skipped),
              out' = out \o SubSeq(SerialOutput, redriven + skipped + 1, redriven + skipped + w),
              redriven' = redriven + skipped + w, UNCHANGED <<pc, result>>
       PROVE  /\ out' \in Seq(Byte) /\ Begins(Byte, out', SerialOutput) /\ Begins(Byte, out, out')
              /\ pc' = "redrive" /\ RedriveInv'
  <2>1. w \in Nat /\ redriven' \in Nat /\ redriven + skipped \in Nat
    BY <1>1, <1>6, <1>9, <1>11
  <2>2. out' \in Seq(Byte) /\ Begins(Byte, out', SerialOutput) /\ Begins(Byte, out, out')
        /\ Len(out') = Len(out) + w
    <3>1. CASE w = 0
      <4>1. SubSeq(SerialOutput, redriven + skipped + 1, redriven + skipped + w) = <<>>
        BY <2>1, <3>1, SubSeqEmpty
      <4>2. out' = out
        BY <1>1, <1>11, <4>1, ConcatEmptySeq
      <4> QED
        BY <1>1, <1>4, <3>1, <4>2
    <3>2. CASE w # 0
      <4> DEFINE m == Len(out)
      <4>1. m = redriven + skipped /\ m \in Nat /\ m + w <= Len(SerialOutput)
            /\ m + w \in Nat /\ (m + w) + 0 <= Len(SerialOutput)
        BY <1>1, <1>2, <1>6, <1>7, <1>9, <2>1, <3>2
      <4>2. out = SubSeq(SerialOutput, 1, m)
        BY <1>3
      <4>3. out' = out \o SubSeq(SerialOutput, m + 1, m + w)
        BY <1>11, <4>1
      <4> HIDE DEF m
      <4>4. SubSeq(SerialOutput, 1, m) \o SubSeq(SerialOutput, m + 1, m + w)
              = SubSeq(SerialOutput, 1, m + w)
            /\ SubSeq(SerialOutput, m + 1, m + w) \in Seq(Byte)
        <5>1. PICK s : s = SerialOutput
          OBVIOUS
        <5>2. PICK k : k = m
          OBVIOUS
        <5>3. s \in Seq(Byte) /\ k \in Nat /\ w \in Nat /\ k + w <= Len(s)
          BY <1>2, <2>1, <4>1, <5>1, <5>2
        <5>4. SubSeq(s, 1, k) \o SubSeq(s, k + 1, k + w) = SubSeq(s, 1, k + w)
              /\ SubSeq(s, k + 1, k + w) \in Seq(Byte)
          BY <5>3, StretchesJoin
        <5> QED
          BY <5>1, <5>2, <5>4
      <4>5. out' = SubSeq(SerialOutput, 1, m + w)
        BY <4>2, <4>3, <4>4
      <4>6. /\ SubSeq(SerialOutput, 1, m + w) \in Seq(Byte)
            /\ Len(SubSeq(SerialOutput, 1, m + w)) = m + w
            /\ Begins(Byte, SubSeq(SerialOutput, 1, m + w), SerialOutput)
        BY <1>2, <4>1, StretchesJoin
      <4>7. Begins(Byte, out, out')
        BY <4>3, <4>4 DEF Begins
      <4> QED
        BY <4>5, <4>6, <4>7 DEF m
    <3> QED
      BY <3>1, <3>2
  <2>3. Len(out') = redriven' + remaining'
    <3>1. redriven' = redriven + skipped + w /\ remaining' = remaining - skipped
      BY <1>8, <1>11
    <3>2. redriven \in Nat /\ remaining \in Nat /\ skipped \in Nat /\ w \in Nat
      BY <1>1, <1>9, <2>1
    <3>3. redriven' + remaining' = (redriven + remaining) + w
      BY <3>1, <3>2
    <3> QED
      BY <1>1, <2>2, <3>3
  <2> QED
    BY <1>1, <1>9, <1>11, <2>1, <2>2, <2>3 DEF RedriveInv
<1> QED
  BY <1>5, <1>10, <1>11 DEF skipped

\* What has been published is the released morsels, and the part of the
\* offered one that its count says.
LEMMA PublishStep ==
  ASSUME IndInv, SourceInv, JobInv, CleanInv, CallInv, RedriveInv, PublishInv, [RelayNext]_allVars
  PROVE  PublishInv'
<1> USE DEF counters, flags, coordVars, scopeVars, vars, sinkVars
<1> DEFINE r == next_release_ordinal
           Between == Running \ {"write", "flush", "ack"}
<1>1. /\ Pieces' = Pieces /\ SerialOutput' = SerialOutput
      /\ written \in Nat /\ published_bytes \in Nat /\ out \in Seq(Byte) /\ Len(out) \in Nat
      /\ Begins(Byte, out, SerialOutput)
  BY AnswerStays DEF PublishInv
<1>2. ASSUME UNCHANGED <<out, written, published_bytes>>, pc' \notin Running,
             pc' \in {"giveup", "stopping", "route"} /\ result' = "yield" => Len(out) = published_bytes
      PROVE  PublishInv'
  BY <1>1, <1>2 DEF PublishInv, Running, Calm
<1>3. ASSUME UNCHANGED <<out, written, published_bytes, next_release_ordinal>>,
             pc \in Between, pc' \in Between, ~cancelled' => ~cancelled
      PROVE  PublishInv'
  BY <1>1, <1>3 DEF PublishInv, Running, Calm
<1>4. ASSUME UNCHANGED <<out, written, published_bytes>>, pc \in Running \ {"write"}, pc' = "giveup"
      PROVE  PublishInv'
  BY <1>2, <1>4 DEF PublishInv, Running, Calm
<1>5. ASSUME UNCHANGED <<out, written, published_bytes, next_release_ordinal, ready, job, offered_slot,
                         pc, result, cancelled>>
      PROVE  PublishInv'
  BY <1>1, <1>5 DEF PublishInv, OfferedUnit, Offered, JobOf
<1>6. CASE CheckControl
  <2>1. UNCHANGED <<out, written, published_bytes>> /\ UNCHANGED vars
    BY <1>6 DEF CheckControl
  <2>2. CASE pc' = "giveup" \/ pc = "control"
    BY <1>3, <1>4, <1>6, <2>1, <2>2 DEF CheckControl, Goto, Leave, Running, Calm
  <2>3. CASE pc = "offer" /\ pc' = "write"
    <3>1. /\ r \in 0..SerialLast /\ ResultBytes[OfferedUnit] \in Nat
          /\ Pieces[r + 1] \in Seq(Byte)
      BY <2>3, OfferIsSerial
    <3>2. OfferedUnit' = OfferedUnit /\ r' = r /\ ~cancelled
      BY <2>1, <2>3 DEF OfferedUnit, Offered, JobOf, CallInv, Calm
    <3>3. written = 0 /\ Len(out) = published_bytes /\ out = Upto(Pieces, r)
      BY <2>3, <3>2 DEF PublishInv, Running, Calm
    <3>4. SubSeq(Pieces[r + 1], 1, 0) = <<>>
      BY SubSeqEmpty
    <3>5. out \o <<>> = out
      BY <1>1, ConcatEmptySeq
    <3>6. out = Upto(Pieces, r) \o SubSeq(Pieces[r + 1], 1, written)
      BY <3>3, <3>4, <3>5
    <3> HIDE DEF r
    <3>7. (out = Upto(Pieces, r) \o SubSeq(Pieces[r + 1], 1, written))'
      BY <1>1, <2>1, <3>2, <3>6
    <3> QED
      BY <1>1, <2>1, <2>3, <3>1, <3>2, <3>3, <3>7 DEF PublishInv, Running, Calm, r
  <2> QED
    BY <1>6, <2>2, <2>3 DEF CheckControl, Goto, Leave
<1>7. CASE SourceEnds
  BY <1>3, <1>4, <1>7 DEF SourceEnds, Goto, Leave, Running, Calm
<1>8. CASE Oversized
  BY <1>4, <1>8 DEF Oversized, Leave, Running, Calm
<1>9. CASE Fill
  <2>1. PICK own \in OwnBytes : Dispatch(Unit(Candidate), own)
    BY <1>9 DEF Fill
  <2>2. r' = r /\ (~cancelled' => ~cancelled)
    BY <2>1, DispatchReturns
  <2>3. /\ UNCHANGED <<out, written, published_bytes>>
        /\ pc = "fill" /\ pc' \in {"fill", "poll", "giveup"}
    BY <1>9 DEF Fill, Goto, Leave
  <2> QED
    BY <1>3, <1>4, <2>2, <2>3 DEF Running, Calm
<1>10. CASE FillEnds \/ CallPoll \/ WaitForFrontier \/ Woken
  BY <1>3, <1>10 DEF FillEnds, FinishDispatch, CallPoll, Poll, WaitForFrontier, Park, Woken,
     Unpark, Goto, Running, Calm
<1>11. CASE Answered
  <2>1. UNCHANGED <<out, written, published_bytes>> /\ UNCHANGED vars /\ pc = "polling"
    BY <1>11 DEF Answered
  <2>2. pc' \in {"offer", "route", "giveup"}
    BY <1>11 DEF Answered, Goto, Leave
  <2>3. Len(out) = published_bytes
    BY <2>1 DEF PublishInv, Running, Calm
  <2> QED
    BY <1>2, <1>3, <1>4, <2>1, <2>2, <2>3 DEF Running, Calm
<1>12. CASE Write
  <2>1. /\ r \in 0..(SerialLast - 1) /\ ResultBytes[OfferedUnit] = Len(Pieces[r + 1])
        /\ Bytes(OfferedUnit[1], ResultBytes[OfferedUnit]) = Pieces[r + 1]
        /\ Len(Pieces[r + 1]) \in Nat
    BY <1>12, OfferIsSerial DEF Write
  <2>2. UNCHANGED vars /\ OfferedUnit' = OfferedUnit /\ r' = r /\ pc = "write"
    BY <1>12 DEF Write, OfferedUnit, Offered, JobOf
  <2>3. /\ written <= Len(Pieces[r + 1]) /\ Len(out) = published_bytes + written
        /\ out = Upto(Pieces, r) \o SubSeq(Pieces[r + 1], 1, written)
    BY <2>1, <2>2 DEF PublishInv
  <2> HIDE DEF r
  <2>4. ASSUME NEW n \in 1..(Len(Pieces[r + 1]) - written),
               out' = out \o SubSeq(Pieces[r + 1], written + 1, written + n),
               written' = written + n, UNCHANGED <<pc, published_bytes>>
        PROVE  PublishInv'
    <3>1. n \in Nat /\ written + n \in Nat /\ written + n <= Len(Pieces[r + 1])
      BY <1>1, <2>1
    <3>2. LET more == SubSeq(Pieces[r + 1], written + 1, written + n)
          IN /\ more \in Seq(Byte) /\ Len(more) = n
             /\ out \o more = Upto(Pieces, r) \o SubSeq(Pieces[r + 1], 1, written + n)
      BY <1>1, <2>1, <2>3, <3>1, PartIsPrefix
    <3>3. LET done == Upto(Pieces, r) \o SubSeq(Pieces[r + 1], 1, written + n)
          IN done \in Seq(Byte) /\ Begins(Byte, done, SerialOutput)
      <4>1. 0 \in Nat /\ (written + n) + 0 <= Len(Pieces[r + 1])
        BY <3>1
      <4> QED
        BY <2>1, <3>1, <4>1, PartIsPrefix
    <3>4. out' = Upto(Pieces, r) \o SubSeq(Pieces[r + 1], 1, written + n)
      BY <2>4, <3>2
    <3>5. out' \in Seq(Byte) /\ Begins(Byte, out', SerialOutput)
      BY <3>3, <3>4
    <3>6. Len(out') = Len(out) + n
      BY <1>1, <2>4, <3>2, ConcatProperties
    <3>7. (out = Upto(Pieces, r) \o SubSeq(Pieces[r + 1], 1, written))'
      BY <1>1, <2>2, <2>4, <3>4
    <3>8. (Len(out) = published_bytes + written)' /\ written' <= ResultBytes[OfferedUnit]
      BY <1>1, <2>1, <2>3, <2>4, <3>1, <3>6
    <3> QED
      BY <1>1, <2>2, <2>4, <3>1, <3>5, <3>7, <3>8 DEF PublishInv, Running, Calm, r
  <2>5. CASE published_bytes' = published_bytes + written /\ pc' = "giveup" /\ UNCHANGED <<out, written>>
    BY <1>1, <2>3, <2>5 DEF PublishInv, Running, Calm
  <2>6. CASE pc' = "giveup" /\ result' = "sink_failed" /\ UNCHANGED <<out, written, published_bytes>>
    BY <1>2, <2>6 DEF Running, Calm
  <2> QED
    BY <1>12, <2>1, <2>4, <2>5, <2>6 DEF Write, Leave
<1>13. CASE Written
  <2>1. /\ r \in 0..SerialLast /\ r < SerialLast
        /\ ResultBytes[OfferedUnit] = Len(Pieces[r + 1]) /\ Pieces[r + 1] \in Seq(Byte)
    BY <1>13, OfferIsSerial DEF Written
  <2>2. /\ UNCHANGED vars /\ r' = r /\ pc = "write" /\ pc' = "flush" /\ out' = out
        /\ written = ResultBytes[OfferedUnit]
        /\ published_bytes' = published_bytes + written /\ written' = 0
    BY <1>13 DEF Written, Goto
  <2>3. /\ Len(out) = published_bytes + written
        /\ out = Upto(Pieces, r) \o SubSeq(Pieces[r + 1], 1, written)
    BY <2>2 DEF PublishInv
  <2> HIDE DEF r
  <2>4. SubSeq(Pieces[r + 1], 1, written) = Pieces[r + 1]
    BY <2>1, <2>2, SubSeqFull
  <2>5. Upto(Pieces, r + 1) = Upto(Pieces, r) \o Pieces[r + 1]
    BY <2>1, UptoIsPrefix
  <2>6. (out = Upto(Pieces, r + 1))'
    BY <1>1, <2>2, <2>3, <2>4, <2>5
  <2>7. Len(out') = published_bytes' /\ published_bytes' \in Nat
    BY <1>1, <2>2, <2>3
  <2> QED
    BY <1>1, <2>2, <2>6, <2>7 DEF PublishInv, Running, Calm, r
<1>14. CASE Flush
  <2>1. UNCHANGED <<out, written, published_bytes>> /\ UNCHANGED vars /\ pc = "flush"
        /\ (pc' = "ack" \/ pc' = "giveup")
    BY <1>14 DEF Flush, Goto, Leave
  <2> QED
    BY <1>1, <1>4, <2>1 DEF PublishInv, Running, Calm
<1>15. CASE Release
  <2>1. UNCHANGED <<out, written, published_bytes>> /\ pc = "ack"
    BY <1>15 DEF Release
  <2>2. CASE ReleaseCounts
    <3>1. r' = r + 1 /\ pc' = "control"
      BY <1>15, <2>2 DEF Release, Acknowledge, ReleaseSlot, Return, Goto
    <3>2. out = Upto(Pieces, r + 1) /\ written = 0 /\ Len(out) = published_bytes
      BY <2>1 DEF PublishInv, Running, Calm
    <3> QED
      BY <1>1, <2>1, <3>1, <3>2 DEF PublishInv, Running, Calm
  <2>3. CASE ~ReleaseCounts
    BY <1>4, <1>15, <2>1, <2>3 DEF Release, Acknowledge, StartDrain, Leave, Running, Calm
  <2> QED
    BY <2>2, <2>3
<1>16. CASE GiveUp \/ Stopped \/ Route
  <2>1. UNCHANGED <<out, written, published_bytes>> /\ pc \in {"giveup", "stopping", "route"}
        /\ pc' \in {"stopping", "route", "redrive", "end"} /\ result' = result
    BY <1>16 DEF GiveUp, Stopped, Route, Goto
  <2> QED
    BY <1>2, <2>1 DEF PublishInv, Running, Calm
<1>17. CASE Redrive
  <2>1. pc = "redrive" /\ UNCHANGED <<written, published_bytes>> /\ pc' \in {"redrive", "end"}
    BY <1>17 DEF Redrive
  <2>2. out' \in Seq(Byte) /\ Begins(Byte, out', SerialOutput)
    BY <1>17, RedriveWrites
  <2> QED
    BY <1>1, <2>1, <2>2 DEF PublishInv, Running, Calm
<1>18. CASE RedriveEnds
  BY <1>2, <1>18 DEF RedriveEnds, Running, Calm
<1>19. CASE Inside
  <2>1. UNCHANGED <<out, written, published_bytes, pc, result>>
    BY <1>19 DEF Inside, relayVars
  <2>2. CASE pc \in Calm \cup {"parked"}
    <3>1. UNCHANGED coordVars /\ cancelled' = cancelled
      BY <1>19, <2>2, RestInside DEF CallInv
    <3> QED
      BY <1>5, <2>1, <3>1
  <2>3. CASE pc = "polling"
    <3>1. cancelled' \/ (r' = r /\ ~cancelled)
      BY <1>19, CallInside
    <3> QED
      BY <1>1, <2>1, <2>3, <3>1 DEF PublishInv, Running, Calm
  <2>4. CASE pc \notin Running
    BY <1>2, <2>1, <2>4 DEF PublishInv
  <2> QED
    BY <2>2, <2>3, <2>4 DEF Running
<1>20. CASE UNCHANGED allVars
  BY <1>5, <1>20 DEF allVars, relayVars
<1> QED
  BY <1>6, <1>7, <1>8, <1>9, <1>10, <1>11, <1>12, <1>13, <1>14, <1>15, <1>16, <1>17, <1>18,
     <1>19, <1>20 DEF RelayNext, Loop

\* What has been published stays what the redrive has written and has
\* left to skip.
LEMMA RedriveStep ==
  ASSUME SourceInv, PublishInv, RedriveInv, ResultInv, [RelayNext]_allVars
  PROVE  RedriveInv'
<1>1. ASSUME UNCHANGED redriven, pc \notin {"redrive", "end"}, pc' # "redrive"
      PROVE  RedriveInv'
  BY <1>1 DEF RedriveInv
<1>2. ASSUME pc' = "end" PROVE RedriveInv'
  BY <1>2 DEF RedriveInv
<1>3. ASSUME UNCHANGED <<pc, result, redriven, remaining, out>> PROVE RedriveInv'
  BY <1>3 DEF RedriveInv
<1>4. CASE CheckControl \/ SourceEnds \/ Oversized \/ FillEnds \/ CallPoll \/ WaitForFrontier
           \/ Woken \/ Written \/ Flush \/ Stopped \/ GiveUp
  BY <1>1, <1>4 DEF CheckControl, SourceEnds, Oversized, FillEnds, CallPoll, WaitForFrontier,
     Woken, Written, Flush, Stopped, GiveUp, Goto, Leave, redriveVars
<1>5. CASE Fill \/ Answered \/ Release
  BY <1>1, <1>5 DEF Fill, Answered, Release, Goto, Leave, redriveVars
<1>6. CASE Write
  BY <1>1, <1>6 DEF Write, Leave, redriveVars
<1>7. CASE Route
  <2>1. CASE result = "yield"
    BY <1>7, <2>1 DEF Route, Goto, RedriveInv, PublishInv, sinkVars
  <2>2. CASE result # "yield"
    BY <1>2, <1>7, <2>2 DEF Route, Goto
  <2> QED
    BY <2>1, <2>2
<1>8. CASE Redrive
  BY <1>2, <1>8, RedriveWrites
<1>9. CASE RedriveEnds
  BY <1>2, <1>9 DEF RedriveEnds
<1>10. CASE Inside \/ UNCHANGED allVars
  BY <1>3, <1>10 DEF Inside, relayVars, allVars
<1> QED
  BY <1>4, <1>5, <1>6, <1>7, <1>8, <1>9, <1>10 DEF RelayNext, Loop

\* A result of the relay means what its caller takes it to mean.
LEMMA ResultStep ==
  ASSUME IndInv, SourceInv, JobInv, FinishInv, CleanInv, AllReleasedInv, EndingInv, CallInv,
         PublishInv, ResultInv, [RelayNext]_allVars
  PROVE  ResultInv'
<1>1. SerialOutput' = SerialOutput
  BY AnswerStays
<1>2. ASSUME pc' \notin {"giveup", "stopping", "route"} PROVE ResultInv'
  BY <1>2 DEF ResultInv
<1>3. ASSUME pc' = "giveup", result' \in {"yield", "control", "sink_failed"} PROVE ResultInv'
  BY <1>3 DEF ResultInv
<1>4. ASSUME UNCHANGED <<pc, result, out>> PROVE ResultInv'
  BY <1>1, <1>4 DEF ResultInv
<1>5. CASE CheckControl \/ SourceEnds \/ Oversized \/ FillEnds \/ CallPoll \/ WaitForFrontier
           \/ Woken \/ Written \/ Flush
  BY <1>2, <1>3, <1>5 DEF CheckControl, SourceEnds, Oversized, FillEnds, CallPoll,
     WaitForFrontier, Woken, Written, Flush, Goto, Leave
<1>6. CASE Fill \/ Release
  BY <1>2, <1>3, <1>6 DEF Fill, Release, Goto, Leave
<1>7. CASE Write
  BY <1>2, <1>3, <1>7 DEF Write, Leave
<1>8. CASE Answered
  <2>1. CASE answer = "complete"
    <3>1. pc' = "route" /\ result' = "complete" /\ out' = out
      BY <1>8, <2>1 DEF Answered, Goto, Leave, Terminals, sinkVars
    <3>2. out = SerialOutput
      BY <1>8, <2>1, CompleteIsSerial DEF Answered
    <3> QED
      BY <1>1, <3>1, <3>2 DEF ResultInv
  <2>2. CASE answer # "complete"
    <3>1. \/ pc' = "offer"
          \/ pc' = "giveup" /\ result' = "yield"
          \/ pc' = "route" /\ result' \in {"yield", "refused", "control"}
      BY <1>8, <2>2 DEF Answered, Goto, Leave
    <3> QED
      BY <1>2, <1>3, <3>1 DEF ResultInv
  <2> QED
    BY <2>1, <2>2
<1>9. CASE GiveUp \/ Stopped
  <2>1. pc \in {"giveup", "stopping"} /\ pc' \in {"stopping", "route"} /\ result' = result
    BY <1>9 DEF GiveUp, Stopped, Goto
  <2> QED
    BY <2>1 DEF ResultInv
<1>10. CASE Route \/ Redrive \/ RedriveEnds
  BY <1>2, <1>10 DEF Route, Redrive, RedriveEnds, Goto
<1>11. CASE Inside \/ UNCHANGED allVars
  BY <1>4, <1>11 DEF Inside, relayVars, allVars
<1> QED
  BY <1>5, <1>6, <1>7, <1>8, <1>9, <1>10, <1>11 DEF RelayNext, Loop

-----------------------------------------------------------------------------
(* The relay serves the serial answer.                                     *)

StreamInv ==
  /\ RelayInv /\ CleanInv /\ AllReleasedInv /\ CallInv /\ JobInv /\ FinishInv
  /\ PublishInv /\ RedriveInv /\ ResultInv

\* The invariant of the stream holds of a new request.
LEMMA StreamInvStarts == RelayInit => StreamInv
<1> SUFFICES ASSUME RelayInit PROVE StreamInv
  OBVIOUS
<1>1. PICK own \in OwnBytes : InitWith(AffordableWorkers(own))
  BY DEF RelayInit
<1>2. RelayInv /\ SourceInv
  BY RelayInvStarts DEF RelayInv
<1>3. /\ job = <<>> /\ next_release_ordinal = 0 /\ at = "client" /\ ~cancelled /\ ~complete
      /\ ~dispatch_finished /\ Filled = {}
  BY <1>1 DEF InitWith, ScopeInit, Filled
<1>4. pc \in {"control", "route"} /\ (pc = "route" => result = "yield")
  BY DEF RelayInit
<1>5. CleanInv
  <2>1. \A s \in Slots : ended[s] # Clean
    BY <1>1, OrderedAssumption, ScopeAssumption DEF InitWith, ScopeInit
  <2> QED
    BY <1>3, <2>1 DEF CleanInv
<1>6. AllReleasedInv /\ CallInv /\ FinishInv
  BY <1>3, <1>4 DEF AllReleasedInv, CallInv, FinishInv, RelayInit, Calm
<1>7. JobInv
  BY <1>2, <1>3 DEF JobInv, SourceInv, RelayInit
<1>8. PublishInv
  <2>1. /\ written = 0 /\ published_bytes = 0 /\ out = <<>> /\ out \in Seq(Byte) /\ Len(out) = 0
    BY DEF RelayInit
  <2>2. SerialOutput \in Seq(Byte)
    BY <1>2, SerialTyped
  <2>3. Begins(Byte, out, SerialOutput)
    BY <2>1, <2>2, BeginsReflexive
  <2>4. out = Upto(Pieces, next_release_ordinal)
    BY <1>3, <2>1 DEF Upto
  <2> QED
    BY <1>4, <2>1, <2>3, <2>4 DEF PublishInv
<1>9. RedriveInv /\ ResultInv
  BY <1>4 DEF RelayInit, RedriveInv, ResultInv
<1> QED
  BY <1>2, <1>5, <1>6, <1>7, <1>8, <1>9 DEF StreamInv

\* Every step of the relay preserves the invariant of the stream.
LEMMA StreamInvStep == IndInv /\ StreamInv /\ [RelayNext]_allVars => StreamInv'
<1> SUFFICES ASSUME IndInv, StreamInv, [RelayNext]_allVars PROVE StreamInv'
  OBVIOUS
<1> USE DEF StreamInv, RelayInv
<1>1. [Next]_vars
  BY RelaySteps
<1>2. SourceInv' /\ EndingInv' /\ LeavingInv'
  BY <1>1, SourceStep, EndingStep, LeavingStep
<1>3. CleanInv' /\ AllReleasedInv'
  BY <1>1, CleanStep, AllReleasedStep
<1>4. CallInv' /\ JobInv' /\ FinishInv'
  BY CallStep, JobStep, FinishStep
<1>5. PublishInv' /\ RedriveInv' /\ ResultInv'
  BY PublishStep, RedriveStep, ResultStep
<1> QED
  BY <1>2, <1>3, <1>4, <1>5

\* A write to the caller's sink adds to what it has taken.
LEMMA WriteGrows ==
  ASSUME IndInv, StreamInv, Write
  PROVE  out' = out \/ Begins(Byte, out, out')
<1> DEFINE r == next_release_ordinal
<1>1. /\ r \in 0..(SerialLast - 1) /\ ResultBytes[OfferedUnit] = Len(Pieces[r + 1])
      /\ Bytes(OfferedUnit[1], ResultBytes[OfferedUnit]) = Pieces[r + 1]
      /\ Pieces[r + 1] \in Seq(Byte) /\ written \in Nat
  BY OfferIsSerial DEF Write, StreamInv, RelayInv, PublishInv
<1> HIDE DEF r
<1>2. ASSUME NEW n \in 1..(Len(Pieces[r + 1]) - written),
             out' = out \o SubSeq(Pieces[r + 1], written + 1, written + n)
      PROVE  Begins(Byte, out, out')
  <2>1. n \in Nat /\ written + n <= Len(Pieces[r + 1])
    BY <1>1
  <2>2. SubSeq(Pieces[r + 1], written + 1, written + n) \in Seq(Byte)
    BY <1>1, <2>1, StretchesJoin
  <2> QED
    BY <1>2, <2>2 DEF Begins
<1> QED
  BY <1>1, <1>2 DEF Write

\* Every step of the relay is a step of the serial stream, or none at all.
LEMMA StreamStep ==
  ASSUME IndInv, StreamInv, StreamInv', [RelayNext]_allVars
  PROVE  [Stream!StreamNext]_(Stream!streamVars)
<1> USE DEF Stream!streamVars, Stream!StreamNext
<1>1. SerialOutput' = SerialOutput
  BY AnswerStays
<1>2. ASSUME out' = out, pc # "end", pc' # "end" PROVE UNCHANGED Stream!streamVars
  BY <1>1, <1>2
<1>3. ASSUME UNCHANGED <<out, pc, result>> PROVE UNCHANGED Stream!streamVars
  BY <1>1, <1>3 DEF Served
<1>4. ASSUME Begins(Byte, out, out'), pc # "end", pc' # "end" PROVE Stream!Publish
  <2>1. /\ out \in Seq(Byte) /\ out' \in Seq(Byte) /\ SerialOutput' \in Seq(Byte)
        /\ Begins(Byte, out', SerialOutput')
    BY <1>1, SerialTyped DEF StreamInv, RelayInv, PublishInv
  <2>2. Stream!IsPrefix(out, out') /\ Stream!IsPrefix(out', SerialOutput')
    BY <1>4, <2>1, BeginsIsPrefix DEF Stream!IsPrefix
  <2> QED
    BY <1>1, <1>4, <2>2 DEF Stream!Publish
<1>5. ASSUME pc # "end", pc' = "end", result' \in Stream!Stops, out' = out PROVE Stream!Stop
  BY <1>1, <1>5 DEF Stream!Stop, Stream!Stops, Served
<1>6. ASSUME pc # "end", pc' = "end", result' \in {"complete", "yield"}, out' = out,
             out = SerialOutput
      PROVE  Stream!Serve
  BY <1>1, <1>6 DEF Stream!Serve, Served
<1>7. CASE CheckControl \/ SourceEnds \/ Oversized \/ FillEnds \/ CallPoll \/ WaitForFrontier
           \/ Woken \/ Written \/ Flush \/ GiveUp \/ Stopped
  BY <1>2, <1>7 DEF CheckControl, SourceEnds, Oversized, FillEnds, CallPoll, WaitForFrontier,
     Woken, Written, Flush, GiveUp, Stopped, Goto, Leave, sinkVars
<1>8. CASE Fill \/ Answered \/ Release
  BY <1>2, <1>8 DEF Fill, Answered, Release, Goto, Leave, sinkVars
<1>9. CASE Write
  <2>1. pc # "end" /\ pc' # "end"
    BY <1>9 DEF Write, Leave
  <2> QED
    BY <1>2, <1>4, <1>9, <2>1, WriteGrows
<1>10. CASE Route
  <2>1. pc = "route" /\ out' = out /\ result' = result
    BY <1>10 DEF Route, Goto, sinkVars
  <2>2. CASE result = "yield"
    BY <1>2, <1>10, <2>1, <2>2 DEF Route, Goto
  <2>3. CASE result # "yield"
    <3>1. pc' = "end"
      BY <1>10, <2>3 DEF Route, Goto
    <3>2. result \in {"complete"} \cup Stream!Stops
      BY <2>1, <2>3 DEF StreamInv, ResultInv, Stream!Stops
    <3>3. result = "complete" => out = SerialOutput
      BY <2>1 DEF StreamInv, ResultInv
    <3> QED
      BY <1>5, <1>6, <2>1, <3>1, <3>2, <3>3
  <2> QED
    BY <2>2, <2>3
<1>11. CASE Redrive
  <2>1. pc = "redrive"
    BY <1>11 DEF Redrive
  <2>2. /\ Begins(Byte, out, out')
        /\ \/ pc' = "end" /\ result' = "sink_failed" /\ out' = out
           \/ pc' = "redrive"
    BY <1>11, RedriveWrites DEF StreamInv, RelayInv
  <2> QED
    BY <1>4, <1>5, <2>1, <2>2 DEF Stream!Stops
<1>12. CASE RedriveEnds
  <2>1. pc = "redrive" /\ pc' = "end" /\ out' = out
    BY <1>12 DEF RedriveEnds, sinkVars
  <2>2. CASE result' \in {"control", "refused"}
    BY <1>5, <2>1, <2>2 DEF Stream!Stops
  <2>3. CASE redriven = Len(SerialOutput) /\ result' = result
    <3>1. /\ redriven \in Nat /\ remaining \in Nat /\ result = "yield"
          /\ Len(out) = redriven + remaining
          /\ out \in Seq(Byte) /\ Begins(Byte, out, SerialOutput)
      BY <2>1 DEF StreamInv, RedriveInv, PublishInv
    <3>2. SerialOutput \in Seq(Byte)
      BY SerialTyped DEF StreamInv, RelayInv
    <3>3. Len(out) <= Len(SerialOutput) /\ SubSeq(SerialOutput, 1, Len(out)) = out
      BY <3>1, <3>2, BeginsIsPrefix
    <3>4. Len(out) = Len(SerialOutput)
      BY <2>3, <3>1, <3>3
    <3>5. out = SerialOutput
      BY <3>2, <3>3, <3>4, SubSeqFull
    <3> QED
      BY <1>6, <2>1, <2>3, <3>1, <3>5
  <2> QED
    BY <1>12, <2>2, <2>3 DEF RedriveEnds
<1>13. CASE Inside \/ UNCHANGED allVars
  BY <1>3, <1>13 DEF Inside, relayVars, allVars
<1> QED
  BY <1>7, <1>8, <1>9, <1>10, <1>11, <1>12, <1>13 DEF RelayNext, Loop

\* A parallel request is a serial one to its caller, for every source, worker
\* count, window, sink and stop: what the relay publishes, yields and skips makes
\* up the serial answer, in order and once, and all of it unless a typed stop says
\* otherwise (relay_morsels, SkippingSink, execute_record_request).
THEOREM RelayIsSerial == RelaySpec => ImplementsSerialStream
<1>1. RelayInit => StreamInv /\ Stream!StreamInit
  <2>1. RelayInit => Stream!StreamInit
    BY DEF RelayInit, Stream!StreamInit, Served
  <2> QED
    BY <2>1, StreamInvStarts
<1>2. IndInv /\ StreamInv /\ [RelayNext]_allVars => StreamInv'
  BY StreamInvStep
<1>3. IndInv /\ StreamInv /\ StreamInv' /\ [RelayNext]_allVars
        => [Stream!StreamNext]_(Stream!streamVars)
  BY StreamStep
<1>4. RelaySpec => []IndInv
  BY RelayIsAClient, Invariance
<1> QED
  BY <1>1, <1>2, <1>3, <1>4, PTL DEF RelaySpec, ImplementsSerialStream, Stream!StreamSpec

=============================================================================
