--------------------------- MODULE RequestLedger ---------------------------
(***************************************************************************)
(* One memory ledger (jqf-resource/src/account.rs): the live bytes of the  *)
(* four categories and their total.  A request's ledger has one ceiling; a *)
(* worker's also divides it into three groups (limits.rs).  The peaks, which*)
(* nothing but a report reads, are left out.                               *)
(***************************************************************************)
EXTENDS Naturals

Category == {"Retained", "Working", "Diagnostic", "PendingIo"}

Ledger == [cur : [Category -> Nat], total : Nat]

\* `memory` is the ceiling; a group of a request's ledger is as large as that.
Limits == [memory : Nat, retained : Nat, working : Nat, pendingIo : Nat]

RequestLimits(memory) ==
  [memory |-> memory, retained |-> memory, working |-> memory, pendingIo |-> memory]


GroupLimit(limits, c) == CASE c = "Retained" -> limits.retained
                           [] c \in {"Working", "Diagnostic"} -> limits.working
                           [] c = "PendingIo" -> limits.pendingIo

GroupBytes(l, c) == CASE c = "Retained" -> l.cur["Retained"]
                      [] c \in {"Working", "Diagnostic"} -> l.cur["Working"] + l.cur["Diagnostic"]
                      [] c = "PendingIo" -> l.cur["PendingIo"]

\* A new ledger books its own allocation.
Opened(bytes) ==
  [cur |-> [c \in Category |-> IF c = "Retained" THEN bytes ELSE 0], total |-> bytes]

Lower(a, b) == IF a < b THEN a ELSE b

\* charge_residency and admit_task_memory_group.
Admits(l, limits, c, n) ==
  /\ l.total + n <= limits.memory
  /\ GroupBytes(l, c) + n <= GroupLimit(limits, c)

Charged(l, c, n) == [cur |-> [l.cur EXCEPT ![c] = @ + n], total |-> l.total + n]

\* Mutant: each number has a clamp of its own.
ReleasedTwice(l, c, n) ==
  [cur |-> [l.cur EXCEPT ![c] = @ - Lower(n, @)], total |-> l.total - Lower(n, l.total)]

\* release_residency: one clamp, by the category, for both numbers.
Released(l, c, n) ==
  LET given == Lower(n, l.cur[c])
  IN  [cur |-> [l.cur EXCEPT ![c] = @ - given], total |-> l.total - given]

-----------------------------------------------------------------------------

\* The total is that of the categories, and neither it nor a group is past its
\* ceiling.
Sound(l, limits) ==
  /\ l.total = l.cur["Retained"] + l.cur["Working"] + l.cur["Diagnostic"] + l.cur["PendingIo"]
  /\ l.total <= limits.memory
  /\ \A c \in Category : GroupBytes(l, c) <= GroupLimit(limits, c)

=============================================================================
