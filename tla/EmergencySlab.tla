--------------------------- MODULE EmergencySlab ---------------------------
(***************************************************************************)
(* The process-wide emergency slab and the scopes that own it              *)
(* (jqf-resource/src/ambient.rs, slab.rs and counting_alloc.rs).           *)
(*                                                                         *)
(* A thread whose charge is refused claims the slab and is served from its *)
(* bump; the last outermost scope to drop, or the next to be installed,    *)
(* rewinds the bump and gives the claim back.  Every atomic operation on   *)
(* LIVE_SCOPES, BUMP and LIVE_BLOCKS is a step of its own; a load whose    *)
(* compare-exchange succeeds is one step, as is taking or leaving QUIESCE  *)
(* with the operation beside it.                                           *)
(***************************************************************************)
EXTENDS Integers, FiniteSets

CONSTANTS
  Threads,
  Blocks,     (* names of the regions callers can hold at once              *)
  Layouts,    (* [size, align] a refused allocation may ask for             *)
  SlabBytes,
  Base,       (* the slab's own address                                     *)
  MaxDepth,   (* bound: nested scopes of one thread                         *)
  NONE

ASSUME SlabAssumption ==
  /\ IsFiniteSet(Threads) /\ IsFiniteSet(Blocks)
  /\ Layouts \subseteq [size : Nat \ {0}, align : Nat \ {0}]
  /\ SlabBytes \in Nat /\ Base \in Nat /\ MaxDepth \in Nat \ {0}
  /\ NONE \notin Threads \cup Blocks
  /\ NONE \notin [start : Nat, end : Nat]

VARIABLES
  live,        (* LIVE_SCOPES, its count                                    *)
  pending,     (* LIVE_SCOPES, its RESET_PENDING bit                        *)
  quiesce,     (* who holds QUIESCE                                         *)
  bump,        (* BUMP                                                      *)
  liveBlocks,  (* LIVE_BLOCKS                                               *)
  block,       (* the regions callers hold                                  *)
  account,     (* per thread: its slot holds an account                     *)
  depth,       (* per thread: scope guards not yet dropped                  *)
  outermost,   (* per thread: the first of them found the slot empty        *)
  owns,        (* per thread: owns_slab                                     *)
  pc,          (* per thread: where it is in a call                         *)
  fresh,       (* per thread: the region its call is making                 *)
  old,         (* per thread: the region its realloc moves from             *)
  late,        (* history: the reset at work found no claim to give back    *)
  spoiled      (* history: a claim was made under such a reset, and no reset *)
               (* of a standing claim has ended since                       *)

scopeWord == <<live, pending>>
slabVars == <<bump, liveBlocks, block>>
threadVars == <<account, depth, outermost, owns>>
callVars == <<pc, fresh, old>>
history == <<late, spoiled>>
vars == <<scopeWord, quiesce, slabVars, threadVars, callVars, history>>

Region == [start : Nat, end : Nat]
Places == {"idle", "lock", "reset", "rewind", "clear", "count", "made", "moved"}

TypeOK ==
  /\ live \in 0..Cardinality(Threads)
  /\ pending \in BOOLEAN
  /\ quiesce \in Threads \cup {NONE}
  /\ bump \in 0..SlabBytes
  /\ liveBlocks \in 0..Cardinality(Blocks)
  /\ block \in [Blocks -> Region \cup {NONE}]
  /\ account \in [Threads -> BOOLEAN]
  /\ depth \in [Threads -> 0..MaxDepth]
  /\ outermost \in [Threads -> BOOLEAN]
  /\ owns \in [Threads -> BOOLEAN]
  /\ pc \in [Threads -> Places]
  /\ fresh \in [Threads -> Blocks \cup {NONE}]
  /\ old \in [Threads -> Blocks \cup {NONE}]
  /\ late \in BOOLEAN /\ spoiled \in BOOLEAN

Init ==
  /\ live = 0 /\ pending = FALSE /\ quiesce = NONE
  /\ bump = 0 /\ liveBlocks = 0
  /\ block = [b \in Blocks |-> NONE]
  /\ account = [t \in Threads |-> FALSE]
  /\ depth = [t \in Threads |-> 0]
  /\ outermost = [t \in Threads |-> FALSE]
  /\ owns = [t \in Threads |-> FALSE]
  /\ pc = [t \in Threads |-> "idle"]
  /\ fresh = [t \in Threads |-> NONE]
  /\ old = [t \in Threads |-> NONE]
  /\ late = FALSE /\ spoiled = FALSE

At(t, place) == pc[t] = place
Goto(t, place) == pc' = [pc EXCEPT ![t] = place]

-----------------------------------------------------------------------------
(* install.                                                                *)

InstallNested(t) ==
  /\ At(t, "idle") /\ account[t] /\ depth[t] < MaxDepth
  /\ depth' = [depth EXCEPT ![t] = @ + 1]
  /\ UNCHANGED <<scopeWord, quiesce, slabVars, account, outermost, owns, callVars,
                 history>>

\* The slot is filled before the scope is counted.
FillSlot(t) ==
  /\ At(t, "idle") /\ ~account[t]
  /\ account' = [account EXCEPT ![t] = TRUE]
  /\ depth' = [depth EXCEPT ![t] = @ + 1]
  /\ outermost' = [outermost EXCEPT ![t] = TRUE]
  /\ UNCHANGED <<pending, quiesce, slabVars, owns, fresh, old, history>>

InstallFast(t) ==
  /\ ~pending
  /\ FillSlot(t)
  /\ live' = live + 1
  /\ UNCHANGED pc

InstallSlow(t) ==
  /\ pending
  /\ FillSlot(t)
  /\ Goto(t, "lock")
  /\ UNCHANGED live

\* A thread at QUIESCE is joining if its slot is filled, rewinding if not.
\* Mutant: the scopes still live are not looked at.
JoinUnchecked(t) ==
  /\ At(t, "lock") /\ account[t] /\ quiesce = NONE
  /\ quiesce' = t
  /\ Goto(t, IF pending THEN "reset" ELSE "count")
  /\ UNCHANGED <<scopeWord, slabVars, threadVars, fresh, old, history>>

JoinLocked(t) ==
  /\ At(t, "lock") /\ account[t] /\ quiesce = NONE
  /\ quiesce' = t
  /\ Goto(t, IF pending /\ live = 0 THEN "reset" ELSE "count")
  /\ UNCHANGED <<scopeWord, slabVars, threadVars, fresh, old, history>>

CountScope(t) ==
  /\ At(t, "count")
  /\ live' = live + 1
  /\ quiesce' = NONE
  /\ Goto(t, "idle")
  /\ UNCHANGED <<pending, slabVars, threadVars, fresh, old, history>>

-----------------------------------------------------------------------------
(* ScopeGuard::drop.                                                       *)

LastGuard(t) == depth[t] = 1 /\ outermost[t]

\* Mutant: every guard gives its scope back.
DropNestedCounting(t) ==
  /\ At(t, "idle") /\ depth[t] > 0 /\ ~LastGuard(t)
  /\ depth' = [depth EXCEPT ![t] = @ - 1]
  /\ live' = live - 1
  /\ UNCHANGED <<pending, quiesce, slabVars, account, outermost, owns, callVars,
                 history>>

DropNested(t) ==
  /\ At(t, "idle") /\ depth[t] > 0 /\ ~LastGuard(t)
  /\ depth' = [depth EXCEPT ![t] = @ - 1]
  /\ UNCHANGED <<scopeWord, quiesce, slabVars, account, outermost, owns, callVars,
                 history>>

\* Inside a live `with_account` the slot is left as it stands, and an outermost
\* scope stays counted for good.
DropViewed(t) ==
  /\ At(t, "idle") /\ depth[t] > 0
  /\ depth' = [depth EXCEPT ![t] = @ - 1]
  /\ outermost' = IF depth[t] = 1 THEN [outermost EXCEPT ![t] = FALSE] ELSE outermost
  /\ UNCHANGED <<scopeWord, quiesce, slabVars, account, owns, callVars, history>>

DropOutermost(t) ==
  /\ At(t, "idle") /\ LastGuard(t)
  /\ account' = [account EXCEPT ![t] = FALSE]
  /\ depth' = [depth EXCEPT ![t] = 0]
  /\ outermost' = [outermost EXCEPT ![t] = FALSE]
  /\ owns' = [owns EXCEPT ![t] = FALSE]
  /\ live' = live - 1
  /\ Goto(t, IF live = 1 /\ pending THEN "lock" ELSE "idle")
  /\ UNCHANGED <<pending, quiesce, slabVars, fresh, old, history>>

\* rewind_slab: an install that landed meanwhile keeps the slab as it is; the
\* pending bit is not looked at again.
RewindLocked(t) ==
  /\ At(t, "lock") /\ ~account[t] /\ quiesce = NONE
  /\ IF live # 0
     THEN Goto(t, "idle") /\ UNCHANGED <<quiesce, late>>
     ELSE /\ Goto(t, "reset")
          /\ quiesce' = t
          /\ late' = ~pending
  /\ UNCHANGED <<scopeWord, slabVars, threadVars, fresh, old, spoiled>>

-----------------------------------------------------------------------------
(* reset_pending_slab and slab::reset.                                     *)

\* A join goes on to count its scope, a rewind leaves the lock.
AfterReset(t) ==
  /\ IF account[t]
     THEN Goto(t, "count") /\ UNCHANGED quiesce
     ELSE Goto(t, "idle") /\ quiesce' = NONE
  /\ late' = FALSE

\* Mutant: live regions are not looked at.
ResetBlindly(t) ==
  /\ At(t, "reset")
  /\ Goto(t, "rewind")
  /\ UNCHANGED <<scopeWord, quiesce, slabVars, threadVars, fresh, old, history>>

ResetLooks(t) ==
  /\ At(t, "reset")
  /\ IF liveBlocks = 0 THEN Goto(t, "rewind") /\ UNCHANGED <<quiesce, late>> ELSE AfterReset(t)
  /\ UNCHANGED <<scopeWord, slabVars, threadVars, fresh, old, spoiled>>

Rewind(t) ==
  /\ At(t, "rewind")
  /\ bump' = 0
  /\ Goto(t, "clear")
  /\ UNCHANGED <<scopeWord, quiesce, liveBlocks, block, threadVars, fresh, old, history>>

ClearPending(t) ==
  /\ At(t, "clear")
  /\ pending' = FALSE
  /\ AfterReset(t)
  /\ spoiled' = (spoiled /\ late)
  /\ UNCHANGED <<live, slabVars, threadVars, fresh, old>>

-----------------------------------------------------------------------------
(* The allocator's refused path.                                           *)

\* Mutant: whoever trips owns the slab.
ClaimAlways(t) ==
  /\ At(t, "idle") /\ account[t] /\ ~owns[t]
  /\ pending' = TRUE
  /\ owns' = [owns EXCEPT ![t] = TRUE]
  /\ spoiled' = (spoiled \/ late)
  /\ UNCHANGED <<live, quiesce, slabVars, account, depth, outermost, callVars, late>>

\* claim_emergency_slab: the first to trip owns the slab, later threads get null.
\* Only a thread with an account is ever refused a charge.
Claim(t) ==
  /\ At(t, "idle") /\ account[t] /\ ~owns[t]
  /\ pending' = TRUE
  /\ owns' = IF pending THEN owns ELSE [owns EXCEPT ![t] = TRUE]
  /\ spoiled' = (spoiled \/ late)
  /\ UNCHANGED <<live, quiesce, slabVars, account, depth, outermost, callVars, late>>

\* The address, not the offset, is aligned.
Aligned(align) == (((Base + bump + align - 1) \div align) * align) - Base

Placed(l) == [start |-> Aligned(l.align), end |-> Aligned(l.align) + l.size]

Fits(l) == l.align <= SlabBytes /\ Aligned(l.align) + l.size <= SlabBytes

\* slab::alloc, up to its compare-exchange.
Bump(t, l, from) ==
  /\ Fits(l)
  /\ \E b \in Blocks :
       /\ block[b] = NONE
       /\ block' = [block EXCEPT ![b] = Placed(l)]
       /\ fresh' = [fresh EXCEPT ![t] = b]
  /\ old' = [old EXCEPT ![t] = from]
  /\ bump' = Placed(l).end
  /\ Goto(t, "made")
  /\ UNCHANGED <<scopeWord, quiesce, liveBlocks, threadVars, history>>

\* A refused allocation, or a refused growth of a heap block, by the owner.
Alloc(t) ==
  /\ At(t, "idle") /\ account[t] /\ owns[t]
  /\ \E l \in Layouts : Bump(t, l, NONE)

\* A region no call is making or moving.
Held == {b \in Blocks : block[b] # NONE /\ \A t \in Threads : b \notin {fresh[t], old[t]}}

\* slab::realloc: any thread may grow a region it holds, claim or no claim.
Grow(t) ==
  /\ At(t, "idle")
  /\ \E b \in Held, l \in Layouts : Bump(t, l, b)

CountBlock(t) ==
  /\ At(t, "made")
  /\ liveBlocks' = liveBlocks + 1
  /\ fresh' = [fresh EXCEPT ![t] = NONE]
  /\ Goto(t, IF old[t] = NONE THEN "idle" ELSE "moved")
  /\ UNCHANGED <<scopeWord, quiesce, bump, block, threadVars, old, history>>

FreeOld(t) ==
  /\ At(t, "moved")
  /\ block' = [block EXCEPT ![old[t]] = NONE]
  /\ liveBlocks' = liveBlocks - 1
  /\ old' = [old EXCEPT ![t] = NONE]
  /\ Goto(t, "idle")
  /\ UNCHANGED <<scopeWord, quiesce, bump, threadVars, fresh, history>>

\* dealloc, by any thread, in a scope or out of one.
Free(t) ==
  /\ At(t, "idle")
  /\ \E b \in Held : block' = [block EXCEPT ![b] = NONE]
  /\ liveBlocks' = liveBlocks - 1
  /\ UNCHANGED <<scopeWord, quiesce, bump, threadVars, callVars, history>>

-----------------------------------------------------------------------------

Scope(t) == \/ InstallNested(t) \/ InstallFast(t) \/ InstallSlow(t) \/ JoinLocked(t)
            \/ CountScope(t) \/ DropNested(t) \/ DropViewed(t) \/ DropOutermost(t)
            \/ RewindLocked(t)

Reset(t) == ResetLooks(t) \/ Rewind(t) \/ ClearPending(t)

Serve(t) == Claim(t) \/ Alloc(t) \/ Grow(t) \/ CountBlock(t) \/ FreeOld(t) \/ Free(t)

Next == \E t \in Threads : Scope(t) \/ Reset(t) \/ Serve(t)

Spec == Init /\ [][Next]_vars

-----------------------------------------------------------------------------
(* Properties.                                                             *)

Regions == {b \in Blocks : block[b] # NONE}

\* Threads whose outermost scope has been counted.
Counted == {t \in Threads : account[t] /\ pc[t] \notin {"lock", "reset", "rewind", "clear", "count"}}

\* Regions whose allocation has been counted.
CountedBlocks == {b \in Regions : \A t \in Threads : fresh[t] # b}

\* LIVE_SCOPES counts the threads that have an account, a leaked scope included,
\* and LIVE_BLOCKS the regions out, through every nesting and every half-done
\* realloc: the reset is judged by these two numbers alone.
CountsExact ==
  /\ live = Cardinality(Counted)
  /\ liveBlocks = Cardinality(CountedBlocks)

\* A reset that found the claim standing has the slab to itself: from the lock to
\* the store that gives the claim back no scope is counted and no thread owns, and
\* once it has looked at LIVE_BLOCKS there is no region to take the bump from under,
\* an uncounted one of a half-done call included (join_outermost_scope: "resets only
\* the current zero-scope generation"; slab::reset).  It holds whatever the race
\* below has done before.
ResetIsAlone ==
  \A t \in Threads : pc[t] \in {"reset", "rewind", "clear"} /\ ~late =>
    /\ pending /\ live = 0
    /\ \A u \in Threads : ~owns[u]
    /\ pc[t] # "reset" => Regions = {}

\* The first to trip owns the slab, later threads get null (slab.rs:3-4,
\* claim_emergency_slab).  The code does not keep it: rewind_slab does not look at
\* RESET_PENDING again once it has QUIESCE, and an install that finds the bit clear
\* does not take QUIESCE, so a scope may be admitted, claim and be served while a
\* reset is at work that then gives its claim back.
OneOwner == \A t, u \in Threads : owns[t] /\ owns[u] => t = u

\* The claim stands as long as its owner's scope.
ClaimStands == \A t \in Threads : owns[t] => pending /\ live > 0

\* Two regions never share a byte, none is empty and none lies above the bump.
NoOverlap ==
  /\ \A b, c \in Regions : b # c => block[b].end <= block[c].start \/ block[c].end <= block[b].start
  /\ \A b \in Regions : block[b].start < block[b].end /\ block[b].end <= bump

\* When the claim has been given back the slab is as new: a healthy scope's
\* install, which looks at the pending bit only, starts from an empty bump.
UnclaimedIsFresh == ~pending => Regions = {} /\ bump = 0

\* One owner whose claim stands, regions apart, a fresh slab when nobody claims it:
\* the race of OneOwner is the only way to lose any of them, whichever threads
\* reset, claim, move and free in between, and the next reset that finds its claim
\* standing brings them all back.  Exempt are the states from a claim made while a
\* reset was at work that had found none, up to the end of that next reset: there
\* two threads may own the slab and regions may overlap.
OnlyThatRaceSpoils == spoiled \/ (OneOwner /\ ClaimStands /\ NoOverlap /\ UnclaimedIsFresh)

=============================================================================
