------------------------- MODULE EmergencySlabProofs -------------------------
(***************************************************************************)
(* Proofs about the emergency slab, for every number of threads and        *)
(* regions, every slab size and every layout.                              *)
(***************************************************************************)
EXTENDS EmergencySlab, FiniteSetTheorems, TLAPS

-----------------------------------------------------------------------------
(* The inductive invariant.                                                *)

InLock == {"reset", "rewind", "clear", "count"}

\* Guards, claims and places of one thread agree.
ThreadInv ==
  \A t \in Threads :
    /\ outermost[t] => account[t] /\ depth[t] > 0
    /\ ~account[t] => depth[t] = 0
    /\ owns[t] => account[t] /\ pc[t] \in {"idle", "made", "moved"}
    /\ pc[t] = "count" => account[t]

\* QUIESCE is held exactly while its holder looks, resets or counts.
LockInv == \A t \in Threads : quiesce = t <=> pc[t] \in InLock

\* A region a call is making or moving is that call's alone, and a region made
\* outside a realloc is made by the owner.
CallInv ==
  \A t \in Threads :
    /\ fresh[t] # NONE <=> pc[t] = "made"
    /\ old[t] # NONE => pc[t] \in {"made", "moved"}
    /\ pc[t] = "moved" => old[t] # NONE
    /\ fresh[t] # NONE => block[fresh[t]] # NONE
    /\ old[t] # NONE => block[old[t]] # NONE
    /\ \A u \in Threads : fresh[t] # NONE => fresh[t] # old[u]
    /\ \A u \in Threads : fresh[t] # NONE /\ fresh[t] = fresh[u] => t = u
    /\ \A u \in Threads : old[t] # NONE /\ old[t] = old[u] => t = u
    /\ pc[t] = "made" /\ old[t] = NONE => owns[t]

\* A reset that found the claim standing keeps it, with no scope live; once it has
\* looked there is no region; once it has rewound the bump is at its start.
ResetInv ==
  \A t \in Threads : ~late =>
    /\ pc[t] \in {"reset", "rewind", "clear"} => live = 0 /\ pending
    /\ pc[t] \in {"rewind", "clear"} => Regions = {}
    /\ pc[t] = "clear" => bump = 0

\* A late reset is one that is at work.
LateInv == late => \E t \in Threads : pc[t] \in {"reset", "rewind", "clear"}

Owner == \A t, u \in Threads : owns[t] /\ owns[u] => t = u /\ pending

\* Unless the race has been: nobody has claimed under a late reset, so what it
\* rewinds is the empty slab it began on.
GenerationInv ==
  ~spoiled => (late => ~pending) /\ Owner /\ UnclaimedIsFresh /\ NoOverlap

IInv == /\ TypeOK /\ ThreadInv /\ LockInv /\ CallInv /\ CountsExact
        /\ ResetInv /\ LateInv /\ GenerationInv

-----------------------------------------------------------------------------
(* Placing a region, counting threads and regions.                         *)

\* Rounding an address up never takes it below where it was.
LEMMA AlignedIsAbove ==
  ASSUME bump \in Nat, NEW a \in Nat \ {0}
  PROVE  Aligned(a) \in Int /\ Aligned(a) >= bump
<1> DEFINE x == Base + bump + a - 1
<1>1. Base \in Nat /\ x \in Nat
  BY SlabAssumption
<1>2. x = a * (x \div a) + (x % a) /\ x % a \in 0..(a - 1) /\ x \div a \in Int
  BY <1>1
<1>3. (x \div a) * a = x - (x % a)
  BY <1>1, <1>2
<1>4. Aligned(a) = (x \div a) * a - Base
  BY DEF Aligned
<1> QED BY <1>1, <1>2, <1>3, <1>4

\* Where a region that fits is put.
LEMMA PlacedRegion ==
  ASSUME TypeOK, NEW l \in Layouts, Fits(l)
  PROVE  /\ Placed(l) \in Region
         /\ bump <= Placed(l).start /\ Placed(l).start < Placed(l).end
         /\ Placed(l).end \in 0..SlabBytes
<1>1. l.size \in Nat \ {0} /\ l.align \in Nat \ {0} /\ bump \in Nat /\ SlabBytes \in Nat
  BY SlabAssumption DEF TypeOK
<1>2. Aligned(l.align) \in Int /\ Aligned(l.align) >= bump
  BY <1>1, AlignedIsAbove
<1> QED BY <1>1, <1>2 DEF Placed, Fits, Region

LEMMA FinitePieces ==
  /\ IsFiniteSet(Counted) /\ IsFiniteSet(CountedBlocks)
  /\ Cardinality(Counted) \in 0..Cardinality(Threads)
  /\ Cardinality(CountedBlocks) \in 0..Cardinality(Blocks)
  /\ Cardinality(Threads) \in Nat /\ Cardinality(Blocks) \in Nat
<1>1. Counted \subseteq Threads /\ CountedBlocks \subseteq Blocks
  BY DEF Counted, CountedBlocks, Regions
<1>2. IsFiniteSet(Threads) /\ IsFiniteSet(Blocks)
  BY SlabAssumption
<1>3. /\ IsFiniteSet(Counted) /\ Cardinality(Counted) <= Cardinality(Threads)
      /\ IsFiniteSet(CountedBlocks) /\ Cardinality(CountedBlocks) <= Cardinality(Blocks)
  BY <1>1, <1>2, FS_Subset
<1> QED BY <1>2, <1>3, FS_CardinalityType

\* Something counted means a count above zero.
LEMMA CountedIsPositive ==
  ASSUME CountsExact
  PROVE  /\ live \in Nat /\ liveBlocks \in Nat
         /\ \A t \in Counted : live > 0
         /\ \A b \in CountedBlocks : liveBlocks > 0
<1>1. /\ live \in Nat /\ liveBlocks \in Nat
      /\ live = 0 => Counted = {}
      /\ liveBlocks = 0 => CountedBlocks = {}
  BY FinitePieces, FS_EmptySet, FS_CardinalityType DEF CountsExact
<1> QED BY <1>1


-----------------------------------------------------------------------------
(* Places, guards and calls of one thread.                                 *)

LEMMA ThreadStep ==
  ASSUME TypeOK, ThreadInv, NEW t \in Threads, Scope(t) \/ Reset(t) \/ Serve(t)
  PROVE  ThreadInv'
<1> USE DEF TypeOK, ThreadInv, At, Goto, LastGuard, threadVars, callVars
<1>1. CASE InstallNested(t) \/ InstallFast(t) \/ InstallSlow(t)
  BY <1>1 DEF InstallNested, InstallFast, InstallSlow, FillSlot
<1>2. CASE JoinLocked(t) \/ CountScope(t) \/ RewindLocked(t)
  BY <1>2 DEF JoinLocked, CountScope, RewindLocked
<1>3. CASE DropNested(t)
  BY <1>3, SlabAssumption DEF DropNested
<1>7. CASE DropViewed(t)
  <2>1. /\ depth[t] \in Nat /\ depth[t] > 0
        /\ depth' = [depth EXCEPT ![t] = depth[t] - 1]
        /\ outermost'[t] => outermost[t] /\ depth[t] > 1
        /\ \A u \in Threads \ {t} : outermost'[u] = outermost[u] /\ depth'[u] = depth[u]
        /\ account' = account /\ owns' = owns /\ pc' = pc
    BY <1>7, SlabAssumption DEF DropViewed
  <2>2. \A u \in Threads : depth[u] \in Nat
    BY SlabAssumption
  <2> QED BY <2>1, <2>2
<1>8. CASE DropOutermost(t)
  BY <1>8, SlabAssumption DEF DropOutermost
<1>4. CASE Reset(t)
  BY <1>4 DEF Reset, ResetLooks, Rewind, ClearPending, AfterReset
<1>5. CASE Claim(t) \/ CountBlock(t) \/ FreeOld(t) \/ Free(t)
  BY <1>5 DEF Claim, CountBlock, FreeOld, Free
<1>6. CASE Alloc(t) \/ Grow(t)
  BY <1>6 DEF Alloc, Grow, Bump
<1> QED BY <1>1, <1>2, <1>3, <1>4, <1>5, <1>6, <1>7, <1>8 DEF Scope, Serve

LEMMA LockStep ==
  ASSUME TypeOK, LockInv, NEW t \in Threads, Scope(t) \/ Reset(t) \/ Serve(t)
  PROVE  LockInv'
<1> USE SlabAssumption DEF TypeOK, LockInv, InLock, At, Goto, LastGuard, callVars
<1>1. CASE InstallNested(t) \/ InstallFast(t) \/ InstallSlow(t)
  BY <1>1 DEF InstallNested, InstallFast, InstallSlow, FillSlot
<1>2. CASE JoinLocked(t) \/ CountScope(t) \/ RewindLocked(t)
  BY <1>2 DEF JoinLocked, CountScope, RewindLocked
<1>3. CASE DropNested(t) \/ DropViewed(t) \/ DropOutermost(t)
  BY <1>3 DEF DropNested, DropViewed, DropOutermost
<1>4. CASE Reset(t)
  BY <1>4 DEF Reset, ResetLooks, Rewind, ClearPending, AfterReset
<1>5. CASE Claim(t) \/ CountBlock(t) \/ FreeOld(t) \/ Free(t)
  BY <1>5 DEF Claim, CountBlock, FreeOld, Free
<1>6. CASE Alloc(t) \/ Grow(t)
  BY <1>6 DEF Alloc, Grow, Bump
<1> QED BY <1>1, <1>2, <1>3, <1>4, <1>5, <1>6 DEF Scope, Serve

\* A call in progress keeps its regions: nobody frees or moves them.
LEMMA CallStep ==
  ASSUME TypeOK, ThreadInv, CallInv, NEW t \in Threads, Scope(t) \/ Reset(t) \/ Serve(t)
  PROVE  CallInv'
<1> USE SlabAssumption DEF TypeOK, CallInv, At, Goto, LastGuard, slabVars, threadVars, callVars
<1>1. CASE InstallNested(t) \/ InstallFast(t) \/ InstallSlow(t)
  BY <1>1 DEF InstallNested, InstallFast, InstallSlow, FillSlot
<1>2. CASE JoinLocked(t) \/ CountScope(t) \/ RewindLocked(t)
  BY <1>2 DEF JoinLocked, CountScope, RewindLocked
<1>3. CASE DropNested(t) \/ DropViewed(t) \/ DropOutermost(t)
  BY <1>3 DEF DropNested, DropViewed, DropOutermost
<1>4. CASE Reset(t)
  BY <1>4 DEF Reset, ResetLooks, Rewind, ClearPending, AfterReset
<1>5. CASE Claim(t)
  BY <1>5 DEF Claim
<1>6. CASE CountBlock(t)
  BY <1>6 DEF CountBlock
<1>7. CASE FreeOld(t)
  BY <1>7 DEF FreeOld
<1>8. CASE Free(t)
  BY <1>8 DEF Free, Held
<1>9. CASE Alloc(t) \/ Grow(t)
  <2>1. PICK l \in Layouts, b \in Blocks, from \in Blocks \cup {NONE} :
          /\ At(t, "idle") /\ Fits(l) /\ block[b] = NONE
          /\ from # NONE => from \in Held
          /\ from = NONE => owns[t]
          /\ block' = [block EXCEPT ![b] = Placed(l)]
          /\ fresh' = [fresh EXCEPT ![t] = b]
          /\ old' = [old EXCEPT ![t] = from]
          /\ pc' = [pc EXCEPT ![t] = "made"]
          /\ owns' = owns
    BY <1>9 DEF Alloc, Grow, Bump, Held, threadVars
  <2>2. Placed(l) # NONE
    BY <2>1, PlacedRegion DEF Region
  <2> QED BY <2>1, <2>2 DEF Held
<1> QED BY <1>1, <1>2, <1>3, <1>4, <1>5, <1>6, <1>7, <1>8, <1>9 DEF Scope, Serve

-----------------------------------------------------------------------------
(* The two counts.                                                         *)

\* One scope more or one less.
LEMMA LiveStep ==
  ASSUME TypeOK, ThreadInv, LockInv, CountsExact,
         NEW t \in Threads, Scope(t) \/ Reset(t) \/ Serve(t)
  PROVE  live' = Cardinality(Counted')
<1> USE DEF TypeOK, ThreadInv, At, Goto, LastGuard, threadVars, callVars, scopeWord
<1> DEFINE Outside == {"lock", "reset", "rewind", "clear", "count"}
<1>1. IsFiniteSet(Counted) /\ live = Cardinality(Counted)
  BY FinitePieces DEF CountsExact
<1>2. CASE Counted' = Counted \cup {t} /\ t \notin Counted /\ live' = live + 1
  BY <1>1, <1>2, FS_AddElement
<1>3. CASE Counted' = Counted \ {t} /\ t \in Counted /\ live' = live - 1
  BY <1>1, <1>3, FS_RemoveElement
<1>4. CASE Counted' = Counted /\ live' = live
  BY <1>1, <1>4
<1>5. CASE InstallNested(t) \/ InstallSlow(t) \/ JoinLocked(t) \/ RewindLocked(t)
           \/ DropNested(t) \/ DropViewed(t)
  <2>1. Counted' = Counted /\ live' = live
    BY <1>5 DEF InstallNested, InstallSlow, FillSlot, JoinLocked, RewindLocked, DropNested,
                DropViewed, Counted
  <2> QED BY <2>1, <1>4
<1>6. CASE InstallFast(t) \/ CountScope(t)
  <2>1. Counted' = Counted \cup {t} /\ t \notin Counted /\ live' = live + 1
    BY <1>6 DEF InstallFast, CountScope, FillSlot, Counted
  <2> QED BY <2>1, <1>2
<1>7. CASE DropOutermost(t)
  <2>1. Counted' = Counted \ {t} /\ t \in Counted /\ live' = live - 1
    BY <1>7 DEF DropOutermost, Counted
  <2> QED BY <2>1, <1>3
<1>8. CASE Reset(t)
  <2>1. Counted' = Counted /\ live' = live
    BY <1>8 DEF Reset, ResetLooks, Rewind, ClearPending, AfterReset, Counted
  <2> QED BY <2>1, <1>4
<1>9. CASE Serve(t)
  <2>1. Counted' = Counted /\ live' = live
    BY <1>9 DEF Serve, Claim, Alloc, Grow, Bump, CountBlock, FreeOld, Free, Counted
  <2> QED BY <2>1, <1>4
<1> QED BY <1>5, <1>6, <1>7, <1>8, <1>9 DEF Scope

\* One region more or one less.
LEMMA BlockStep ==
  ASSUME TypeOK, CallInv, CountsExact,
         NEW t \in Threads, Scope(t) \/ Reset(t) \/ Serve(t)
  PROVE  liveBlocks' = Cardinality(CountedBlocks')
<1> USE SlabAssumption DEF TypeOK, CallInv, At, Goto, slabVars, callVars
<1>1. IsFiniteSet(CountedBlocks) /\ liveBlocks = Cardinality(CountedBlocks)
  BY FinitePieces DEF CountsExact
<1>2. ASSUME NEW b \in Blocks, CountedBlocks' = CountedBlocks \cup {b}, b \notin CountedBlocks,
             liveBlocks' = liveBlocks + 1
      PROVE  liveBlocks' = Cardinality(CountedBlocks')
  BY <1>1, <1>2, FS_AddElement
<1>3. ASSUME NEW b \in Blocks, CountedBlocks' = CountedBlocks \ {b}, b \in CountedBlocks,
             liveBlocks' = liveBlocks - 1
      PROVE  liveBlocks' = Cardinality(CountedBlocks')
  BY <1>1, <1>3, FS_RemoveElement
<1>4. ASSUME CountedBlocks' = CountedBlocks, liveBlocks' = liveBlocks
      PROVE  liveBlocks' = Cardinality(CountedBlocks')
  BY <1>1, <1>4
<1>5. CASE Scope(t) \/ Reset(t) \/ Claim(t)
  <2>1. block' = block /\ fresh' = fresh /\ liveBlocks' = liveBlocks
    BY <1>5 DEF Scope, InstallNested, InstallFast, InstallSlow, FillSlot, JoinLocked,
                CountScope, RewindLocked, DropNested, DropViewed, DropOutermost,
                Reset, ResetLooks, Rewind, ClearPending, Claim
  <2> QED BY <2>1, <1>4 DEF CountedBlocks, Regions
<1>6. CASE Alloc(t) \/ Grow(t)
  <2>1. PICK l \in Layouts, b \in Blocks :
          /\ At(t, "idle") /\ Fits(l) /\ block[b] = NONE
          /\ block' = [block EXCEPT ![b] = Placed(l)]
          /\ fresh' = [fresh EXCEPT ![t] = b]
          /\ liveBlocks' = liveBlocks
    BY <1>6 DEF Alloc, Grow, Bump
  <2>2. \A u \in Threads : fresh[u] # b
    BY <2>1
  <2>3. CountedBlocks' = CountedBlocks
    BY <2>1, <2>2 DEF CountedBlocks, Regions
  <2> QED BY <2>1, <2>3, <1>4
<1>7. CASE CountBlock(t)
  <2>1. CountedBlocks' = CountedBlocks \cup {fresh[t]}
    BY <1>7 DEF CountBlock, CountedBlocks, Regions
  <2>2. fresh[t] \in Blocks /\ fresh[t] \notin CountedBlocks /\ liveBlocks' = liveBlocks + 1
    BY <1>7 DEF CountBlock, CountedBlocks
  <2> QED BY <2>1, <2>2, <1>2
<1>8. CASE FreeOld(t)
  <2>1. CountedBlocks' = CountedBlocks \ {old[t]}
    BY <1>8 DEF FreeOld, CountedBlocks, Regions
  <2>2. old[t] \in CountedBlocks /\ old[t] \in Blocks /\ liveBlocks' = liveBlocks - 1
    BY <1>8 DEF FreeOld, CountedBlocks, Regions
  <2> QED BY <2>1, <2>2, <1>3
<1>9. CASE Free(t)
  <2>1. PICK b \in Held : block' = [block EXCEPT ![b] = NONE]
    BY <1>9 DEF Free
  <2>2. b \in CountedBlocks /\ b \in Blocks /\ CountedBlocks' = CountedBlocks \ {b}
    BY <1>9, <2>1 DEF Free, Held, CountedBlocks, Regions
  <2>3. liveBlocks' = liveBlocks - 1
    BY <1>9 DEF Free
  <2> QED BY <2>2, <2>3, <1>3
<1> QED BY <1>5, <1>6, <1>7, <1>8, <1>9 DEF Serve

LEMMA CountStep ==
  ASSUME TypeOK, ThreadInv, LockInv, CallInv, CountsExact,
         NEW t \in Threads, Scope(t) \/ Reset(t) \/ Serve(t)
  PROVE  /\ CountsExact'
         /\ live' \in 0..Cardinality(Threads) /\ liveBlocks' \in 0..Cardinality(Blocks)
<1>1. live' = Cardinality(Counted') /\ liveBlocks' = Cardinality(CountedBlocks')
  BY LiveStep, BlockStep
<1>2. Counted' \subseteq Threads /\ CountedBlocks' \subseteq Blocks
  BY DEF Counted, CountedBlocks, Regions
<1>3. IsFiniteSet(Threads) /\ IsFiniteSet(Blocks)
  BY SlabAssumption
<1>4. /\ IsFiniteSet(Counted') /\ Cardinality(Counted') <= Cardinality(Threads)
      /\ IsFiniteSet(CountedBlocks') /\ Cardinality(CountedBlocks') <= Cardinality(Blocks)
  BY <1>2, <1>3, FS_Subset
<1>5. /\ Cardinality(Counted') \in Nat /\ Cardinality(CountedBlocks') \in Nat
      /\ Cardinality(Threads) \in Nat /\ Cardinality(Blocks) \in Nat
  BY <1>3, <1>4, FS_CardinalityType
<1> QED BY <1>1, <1>4, <1>5 DEF CountsExact

LEMMA TypeStep ==
  ASSUME TypeOK, ThreadInv, LockInv, CallInv, CountsExact,
         NEW t \in Threads, Scope(t) \/ Reset(t) \/ Serve(t)
  PROVE  TypeOK'
<1>1. live' \in 0..Cardinality(Threads) /\ liveBlocks' \in 0..Cardinality(Blocks)
  BY CountStep
<1> USE SlabAssumption, <1>1 DEF TypeOK, At, Goto, LastGuard, scopeWord, slabVars, threadVars,
        callVars, history, Places
<1>2. CASE InstallNested(t) \/ InstallFast(t) \/ InstallSlow(t)
  <2>1. depth'[t] \in 0..MaxDepth
    BY <1>2 DEF InstallNested, InstallFast, InstallSlow, FillSlot, ThreadInv
  <2> QED BY <1>2, <2>1 DEF InstallNested, InstallFast, InstallSlow, FillSlot
<1>3. CASE JoinLocked(t) \/ CountScope(t) \/ RewindLocked(t)
  BY <1>3 DEF JoinLocked, CountScope, RewindLocked
<1>4. CASE DropNested(t) \/ DropViewed(t)
  <2>1. depth' \in [Threads -> 0..MaxDepth] /\ outermost' \in [Threads -> BOOLEAN]
    <3>1. depth[t] - 1 \in 0..MaxDepth
      BY <1>4 DEF DropNested, DropViewed
    <3>2. depth' = [depth EXCEPT ![t] = depth[t] - 1]
      BY <1>4 DEF DropNested, DropViewed
    <3>3. outermost' = outermost \/ outermost' = [outermost EXCEPT ![t] = FALSE]
      BY <1>4 DEF DropNested, DropViewed
    <3>4. depth' \in [Threads -> 0..MaxDepth]
      BY <3>1, <3>2
    <3>5. outermost' \in [Threads -> BOOLEAN]
      BY <3>3
    <3> QED BY <3>4, <3>5
  <2> QED BY <1>4, <2>1 DEF DropNested, DropViewed
<1>8. CASE DropOutermost(t)
  BY <1>8 DEF DropOutermost
<1>5. CASE ResetLooks(t) \/ ClearPending(t)
  BY <1>5 DEF ResetLooks, ClearPending, AfterReset
<1>9. CASE Rewind(t)
  BY <1>9 DEF Rewind
<1>6. CASE Claim(t) \/ CountBlock(t) \/ FreeOld(t) \/ Free(t)
  BY <1>6 DEF Claim, CountBlock, FreeOld, Free, Held
<1>7. CASE Alloc(t) \/ Grow(t)
  <2>1. PICK l \in Layouts, b \in Blocks, from \in Blocks \cup {NONE} :
          /\ Fits(l)
          /\ block' = [block EXCEPT ![b] = Placed(l)]
          /\ fresh' = [fresh EXCEPT ![t] = b]
          /\ old' = [old EXCEPT ![t] = from]
          /\ bump' = Placed(l).end
    BY <1>7 DEF Alloc, Grow, Bump, Held
  <2>2. Placed(l) \in Region /\ bump' \in 0..SlabBytes
    BY <2>1, PlacedRegion
  <2>3. /\ block' \in [Blocks -> Region \cup {NONE}]
        /\ fresh' \in [Threads -> Blocks \cup {NONE}]
        /\ old' \in [Threads -> Blocks \cup {NONE}]
    BY <2>1, <2>2
  <2>4. /\ pc' = [pc EXCEPT ![t] = "made"]
        /\ pending' = pending /\ quiesce' = quiesce /\ account' = account /\ depth' = depth
        /\ outermost' = outermost /\ owns' = owns /\ late' = late /\ spoiled' = spoiled
    BY <1>7 DEF Alloc, Grow, Bump
  <2> QED BY <2>2, <2>3, <2>4
<1> QED BY <1>2, <1>3, <1>4, <1>5, <1>6, <1>7, <1>8, <1>9 DEF Scope, Reset, Serve

-----------------------------------------------------------------------------
(* One generation of the slab.                                             *)

\* Looking with nothing live and nothing counted, a reset finds no region: one
\* being made outside a realloc is the owner's, whose scope is counted, and one
\* being made inside has its old region counted.
LEMMA LookFindsNone ==
  ASSUME TypeOK, ThreadInv, CallInv, CountsExact, live = 0, liveBlocks = 0
  PROVE  Regions = {}
<1> SUFFICES ASSUME NEW b \in Regions PROVE FALSE
  OBVIOUS
<1>1. b \notin CountedBlocks
  BY CountedIsPositive
<1>2. PICK t \in Threads : fresh[t] = b
  BY <1>1 DEF CountedBlocks
<1>3. pc[t] = "made" /\ fresh[t] # NONE
  BY <1>2, SlabAssumption DEF CallInv, Regions
<1>4. CASE old[t] = NONE
  <2>1. t \in Counted
    BY <1>3, <1>4 DEF CallInv, ThreadInv, Counted
  <2> QED BY <2>1, CountedIsPositive
<1>5. CASE old[t] # NONE
  <2>1. old[t] \in CountedBlocks
    BY <1>3, <1>5 DEF CallInv, TypeOK, CountedBlocks, Regions
  <2> QED BY <2>1, CountedIsPositive
<1> QED BY <1>4, <1>5

\* A thread that holds an account and is in no install is counted.
LEMMA IdleIsLive ==
  ASSUME CountsExact, NEW t \in Threads, account[t], pc[t] \in {"idle", "made", "moved"}
  PROVE  live > 0
<1>1. t \in Counted
  BY DEF Counted
<1> QED BY <1>1, CountedIsPositive

\* An owner's scope is counted.
LEMMA OwnerIsLive ==
  ASSUME ThreadInv, CountsExact
  PROVE  \A u \in Threads : owns[u] => live > 0
BY IdleIsLive DEF ThreadInv

\* A region laid above the bump keeps the regions apart.
LEMMA BumpKeepsApart ==
  ASSUME TypeOK, NoOverlap, NEW l \in Layouts, NEW b \in Blocks, Fits(l), block[b] = NONE,
         block' = [block EXCEPT ![b] = Placed(l)], bump' = Placed(l).end
  PROVE  NoOverlap'
<1>1. /\ Placed(l) \in Region /\ Placed(l) # NONE
      /\ bump <= Placed(l).start /\ Placed(l).start < Placed(l).end
      /\ Placed(l).end \in Nat
  BY PlacedRegion, SlabAssumption DEF Region
<1>2. Regions' = Regions \cup {b} /\ b \notin Regions
  BY <1>1 DEF Regions, TypeOK
<1>3. \A c \in Regions : block'[c] = block[c] /\ block[c] \in Region
  BY <1>2 DEF Regions, TypeOK
<1>4. block'[b] = Placed(l)
  BY DEF TypeOK
<1>5. \A c \in Regions : /\ block[c].start \in Nat /\ block[c].end \in Nat
                         /\ block[c].end <= bump /\ block[c].start < block[c].end
  BY <1>3 DEF NoOverlap, Region
<1>6. bump \in Nat /\ Placed(l).start \in Nat
  BY <1>1, SlabAssumption DEF TypeOK, Region
<1>7. \A c \in Regions' : block'[c].start < block'[c].end /\ block'[c].end <= bump'
  BY <1>1, <1>2, <1>3, <1>4, <1>5, <1>6
<1>8. \A c, d \in Regions' : c # d => block'[c].end <= block'[d].start \/ block'[d].end <= block'[c].start
  <2> SUFFICES ASSUME NEW c \in Regions', NEW d \in Regions', c # d
               PROVE  block'[c].end <= block'[d].start \/ block'[d].end <= block'[c].start
    OBVIOUS
  <2>1. CASE c \in Regions /\ d \in Regions
    BY <2>1, <1>3 DEF NoOverlap
  <2>2. CASE c = b /\ d \in Regions
    BY <2>2, <1>1, <1>3, <1>4, <1>5, <1>6
  <2>3. CASE d = b /\ c \in Regions
    BY <2>3, <1>1, <1>3, <1>4, <1>5, <1>6
  <2> QED BY <2>1, <2>2, <2>3, <1>2
<1> QED BY <1>7, <1>8 DEF NoOverlap

\* Fewer regions are still apart.
LEMMA FewerKeepApart ==
  ASSUME TypeOK, NoOverlap, NEW b \in Blocks, block' = [block EXCEPT ![b] = NONE], bump' = bump
  PROVE  NoOverlap' /\ Regions' = Regions \ {b}
<1>1. Regions' = Regions \ {b} /\ \A c \in Regions' : block'[c] = block[c]
  BY DEF Regions, TypeOK
<1> QED BY <1>1 DEF NoOverlap

\* Where a thread is while it resets the slab.
Resetting == {"reset", "rewind", "clear"}

\* Nobody is admitted, claims or is served under a reset whose claim stands.
LEMMA ResetStep ==
  ASSUME TypeOK, ThreadInv, LockInv, CallInv, CountsExact, ResetInv, LateInv,
         NEW t \in Threads, Scope(t) \/ Reset(t) \/ Serve(t)
  PROVE  ResetInv'
<1>1. live \in Nat /\ liveBlocks \in Nat
  BY CountedIsPositive
<1>2. \A u \in Threads : owns[u] => live > 0
  BY OwnerIsLive
<1>3. \A u, v \in Threads : pc[u] \in InLock /\ pc[v] \in InLock => u = v
  BY DEF LockInv
<1> USE SlabAssumption DEF TypeOK, At, Goto, LastGuard, scopeWord, slabVars, threadVars,
        callVars, history
\* Whoever is at a reset after the step was there before it, and nothing it rests on
\* has changed.
<1>4. ASSUME live' = live, pending' = pending, bump' = bump, late' = late,
             Regions' \subseteq Regions,
             \A u \in Threads : pc'[u] \in Resetting => pc'[u] = pc[u]
      PROVE  ResetInv'
  BY <1>4 DEF ResetInv, Resetting
\* Nobody is at a reset after the step.
<1>5. ASSUME \A u \in Threads : pc'[u] \notin Resetting
      PROVE  ResetInv'
  BY <1>5 DEF ResetInv, Resetting
<1>6. CASE InstallNested(t) \/ InstallSlow(t) \/ DropNested(t) \/ DropViewed(t)
  BY <1>4, <1>6 DEF InstallNested, InstallSlow, FillSlot, DropNested, DropViewed, Regions,
                    Resetting
<1>7. CASE InstallFast(t)
  <2>1. ~pending /\ late' = late /\ pc' = pc
    BY <1>7 DEF InstallFast, FillSlot
  <2>2. ~late => \A u \in Threads : pc'[u] \notin Resetting
    BY <2>1 DEF ResetInv, Resetting
  <2> QED BY <2>1, <2>2 DEF ResetInv, Resetting
<1>8. CASE JoinLocked(t) \/ RewindLocked(t)
  <2>1. quiesce = NONE /\ \A u \in Threads : pc[u] \notin InLock
    BY <1>8 DEF JoinLocked, RewindLocked, LockInv
  <2>2. ~late
    BY <2>1 DEF LateInv, InLock
  <2>3. pc'[t] \notin {"rewind", "clear"} /\ \A u \in Threads \ {t} : pc'[u] = pc[u]
    BY <1>8 DEF JoinLocked, RewindLocked
  <2>4. pc'[t] = "reset" /\ ~late' => live' = 0 /\ pending'
    BY <1>8, <2>2 DEF JoinLocked, RewindLocked
  <2> QED BY <2>1, <2>3, <2>4 DEF ResetInv, InLock
<1>9. CASE CountScope(t) \/ ClearPending(t)
  <2>1. pc[t] \in InLock /\ pc'[t] \notin Resetting /\ \A u \in Threads \ {t} : pc'[u] = pc[u]
    BY <1>9 DEF CountScope, ClearPending, AfterReset, InLock, Resetting
  <2>2. \A u \in Threads \ {t} : pc[u] \notin Resetting
    BY <1>3, <2>1 DEF InLock, Resetting
  <2> QED BY <1>5, <2>1, <2>2
<1>10. CASE DropOutermost(t)
  <2>1. live > 0 /\ late' = late
    BY <1>10, IdleIsLive DEF DropOutermost, ThreadInv
  <2>2. \A u \in Threads : pc'[u] \in Resetting => pc[u] \in Resetting
    BY <1>10 DEF DropOutermost, Resetting
  <2> QED BY <2>1, <2>2 DEF ResetInv, Resetting
<1>11. CASE ResetLooks(t)
  <2>1. /\ live' = live /\ pending' = pending /\ bump' = bump /\ Regions' = Regions
        /\ pc[t] = "reset"
    BY <1>11 DEF ResetLooks, Regions
  <2>2. CASE liveBlocks = 0
    <3>1. pc' = [pc EXCEPT ![t] = "rewind"] /\ late' = late
      BY <1>11, <2>2 DEF ResetLooks
    <3>2. ~late => live = 0 /\ pending /\ Regions = {}
      BY <2>1, <2>2, LookFindsNone DEF ResetInv
    <3> QED BY <2>1, <3>1, <3>2 DEF ResetInv
  <2>3. CASE liveBlocks # 0
    <3>1. pc'[t] \notin Resetting /\ \A u \in Threads \ {t} : pc'[u] = pc[u]
      BY <1>11, <2>3 DEF ResetLooks, AfterReset, Resetting
    <3>2. \A u \in Threads \ {t} : pc[u] \notin Resetting
      BY <1>3, <2>1 DEF InLock, Resetting
    <3> QED BY <1>5, <3>1, <3>2
  <2> QED BY <2>2, <2>3
<1>12. CASE Rewind(t)
  BY <1>12 DEF Rewind, ResetInv, Regions
<1>13. CASE Claim(t)
  <2>1. live' = live /\ pc' = pc /\ pending' /\ bump' = bump /\ late' = late /\ Regions' = Regions
    BY <1>13 DEF Claim, Regions
  <2> QED BY <2>1 DEF ResetInv
<1>14. CASE Alloc(t) \/ Grow(t)
  <2>1. /\ live' = live /\ pending' = pending /\ late' = late
        /\ pc' = [pc EXCEPT ![t] = "made"]
    BY <1>14 DEF Alloc, Grow, Bump
  <2>2. live > 0 \/ Regions # {}
    BY <1>2, <1>14 DEF Alloc, Grow, Held, Regions
  <2> QED BY <2>1, <2>2 DEF ResetInv
<1>15. CASE CountBlock(t)
  BY <1>4, <1>15 DEF CountBlock, Regions, Resetting
<1>16. CASE FreeOld(t) \/ Free(t)
  <2>1. /\ live' = live /\ pending' = pending /\ bump' = bump /\ late' = late
        /\ \A u \in Threads : pc'[u] \in Resetting => pc'[u] = pc[u]
    BY <1>16 DEF FreeOld, Free, Resetting
  <2>2. Regions' \subseteq Regions
    BY <1>16 DEF FreeOld, Free, Held, CallInv, Regions
  <2> QED BY <1>4, <2>1, <2>2
<1> QED BY <1>6, <1>7, <1>8, <1>9, <1>10, <1>11, <1>12, <1>13, <1>14, <1>15, <1>16
        DEF Scope, Reset, Serve

\* The mark of a late reset ends with it.
LEMMA LateStep ==
  ASSUME TypeOK, LockInv, LateInv,
         NEW t \in Threads, Scope(t) \/ Reset(t) \/ Serve(t)
  PROVE  LateInv'
<1> USE SlabAssumption DEF TypeOK, At, Goto, LastGuard, scopeWord, slabVars, threadVars,
        callVars, history
<1>1. ASSUME late' = late, pc[t] \in Resetting => pc'[t] \in Resetting,
             \A u \in Threads \ {t} : pc'[u] = pc[u]
      PROVE  LateInv'
  BY <1>1 DEF LateInv, Resetting
<1>2. CASE InstallNested(t) \/ InstallFast(t) \/ InstallSlow(t) \/ JoinLocked(t) \/ CountScope(t)
  BY <1>1, <1>2 DEF InstallNested, InstallFast, InstallSlow, FillSlot, JoinLocked, CountScope,
                    Resetting
<1>3. CASE DropNested(t) \/ DropViewed(t) \/ DropOutermost(t)
  BY <1>1, <1>3 DEF DropNested, DropViewed, DropOutermost, Resetting
<1>4. CASE RewindLocked(t)
  <2>1. ~late
    BY <1>4 DEF RewindLocked, LockInv, LateInv, InLock
  <2>2. late' => pc'[t] = "reset"
    BY <1>4, <2>1 DEF RewindLocked
  <2> QED BY <2>2 DEF LateInv
<1>5. CASE ResetLooks(t)
  <2>1. late' => pc'[t] = "rewind"
    BY <1>5 DEF ResetLooks, AfterReset
  <2> QED BY <2>1 DEF LateInv
<1>6. CASE Rewind(t) \/ ClearPending(t)
  <2>1. late' => pc'[t] = "clear"
    BY <1>6 DEF Rewind, ClearPending, AfterReset
  <2> QED BY <2>1 DEF LateInv
<1>7. CASE Claim(t) \/ CountBlock(t) \/ FreeOld(t) \/ Free(t)
  BY <1>1, <1>7 DEF Claim, CountBlock, FreeOld, Free, Resetting
<1>8. CASE Alloc(t) \/ Grow(t)
  BY <1>1, <1>8 DEF Alloc, Grow, Bump, Resetting
<1> QED BY <1>2, <1>3, <1>4, <1>5, <1>6, <1>7, <1>8 DEF Scope, Reset, Serve

\* The end of a reset that found its claim standing makes the slab as new whatever
\* was before; every other step keeps a sound slab sound, or is the claim under a
\* late reset that spoils it.
LEMMA GenerationStep ==
  ASSUME TypeOK, ThreadInv, CallInv, CountsExact, ResetInv, GenerationInv,
         NEW t \in Threads, Scope(t) \/ Reset(t) \/ Serve(t)
  PROVE  GenerationInv'
<1>1. \A u \in Threads : owns[u] => live > 0
  BY OwnerIsLive
<1> USE SlabAssumption DEF TypeOK, At, Goto, LastGuard, scopeWord, slabVars, threadVars,
        callVars, history
\* The end of a reset that found the claim standing, whatever was before it.
<1>2. CASE ClearPending(t) /\ ~late
  <2>1. /\ block' = block /\ bump' = bump /\ owns' = owns /\ ~pending' /\ ~late'
        /\ pc[t] = "clear"
    BY <1>2 DEF ClearPending, AfterReset
  <2>2. live = 0 /\ Regions = {} /\ bump = 0
    BY <1>2, <2>1 DEF ResetInv
  <2>3. Regions' = {} /\ \A u \in Threads : ~owns'[u]
    BY <1>1, <2>1, <2>2 DEF Regions
  <2> QED BY <2>1, <2>2, <2>3 DEF GenerationInv, Owner, UnclaimedIsFresh, NoOverlap
<1>3. CASE ~(ClearPending(t) /\ ~late)
  <2> SUFFICES ASSUME ~spoiled'
               PROVE  (late' => ~pending') /\ Owner' /\ UnclaimedIsFresh' /\ NoOverlap'
    BY DEF GenerationInv
  <2>1. ~spoiled
    BY <1>3 DEF Scope, InstallNested, InstallFast, InstallSlow, FillSlot, JoinLocked,
           CountScope, RewindLocked, DropNested, DropViewed, DropOutermost,
           Reset, ResetLooks, Rewind, ClearPending,
           Serve, Claim, Alloc, Grow, Bump, CountBlock, FreeOld, Free
  <2>2. (late => ~pending) /\ Owner /\ UnclaimedIsFresh /\ NoOverlap
    BY <2>1 DEF GenerationInv
  <2>3. \A u \in Threads : owns[u] => pending
    BY <2>2 DEF Owner
  \* A step that leaves the slab and the claim as they are.
  <2>4. ASSUME block' = block, bump' = bump, pending' = pending, late' => ~pending,
               \A u \in Threads : owns'[u] => owns[u]
        PROVE  (late' => ~pending') /\ Owner' /\ UnclaimedIsFresh' /\ NoOverlap'
    BY <2>2, <2>4 DEF Owner, UnclaimedIsFresh, NoOverlap, Regions
  <2>5. CASE InstallNested(t) \/ InstallFast(t) \/ InstallSlow(t)
    BY <2>2, <2>4, <2>5 DEF InstallNested, InstallFast, InstallSlow, FillSlot
  <2>6. CASE JoinLocked(t) \/ CountScope(t) \/ RewindLocked(t)
    BY <2>2, <2>4, <2>6 DEF JoinLocked, CountScope, RewindLocked
  <2>7. CASE DropNested(t) \/ DropViewed(t) \/ DropOutermost(t)
    BY <2>2, <2>4, <2>7 DEF DropNested, DropViewed, DropOutermost
  <2>8. CASE ResetLooks(t) \/ CountBlock(t)
    BY <2>2, <2>4, <2>8 DEF ResetLooks, AfterReset, CountBlock
  \* A late reset rewinds the empty slab it began on.
  <2>9. CASE Rewind(t)
    <3>1. Regions = {}
      BY <2>2, <2>9 DEF Rewind, ResetInv, UnclaimedIsFresh
    <3>2. block' = block /\ bump' = 0 /\ pending' = pending /\ owns' = owns /\ late' = late
      BY <2>9 DEF Rewind
    <3>3. Regions' = {}
      BY <3>1, <3>2 DEF Regions
    <3> QED BY <2>2, <3>2, <3>3 DEF Owner, UnclaimedIsFresh, NoOverlap
  <2>10. CASE ClearPending(t)
    <3>1. late /\ ~pending
      BY <1>3, <2>2, <2>10
    <3>2. block' = block /\ bump' = bump /\ owns' = owns /\ ~late'
      BY <2>10 DEF ClearPending, AfterReset
    <3>3. pending' = pending
      BY <2>10, <3>1 DEF ClearPending
    <3> QED BY <2>4, <3>2, <3>3
  <2>11. CASE Claim(t)
    <3>1. block' = block /\ bump' = bump /\ pending' /\ late' = late /\ ~late
      BY <2>11 DEF Claim
    <3>2. Owner'
      <4>1. CASE pending
        BY <2>2, <2>11, <3>1, <4>1 DEF Claim, Owner
      <4>2. CASE ~pending
        BY <2>3, <2>11, <3>1, <4>2 DEF Claim, Owner
      <4> QED BY <4>1, <4>2
    <3> QED BY <2>2, <3>1, <3>2 DEF UnclaimedIsFresh, NoOverlap, Regions
  <2>12. CASE Alloc(t) \/ Grow(t)
    <3>1. PICK l \in Layouts, b \in Blocks :
            /\ Fits(l) /\ block[b] = NONE
            /\ block' = [block EXCEPT ![b] = Placed(l)] /\ bump' = Placed(l).end
            /\ pending' = pending /\ owns' = owns /\ late' = late
      BY <2>12 DEF Alloc, Grow, Bump
    <3>2. owns[t] \/ Regions # {}
      BY <2>12 DEF Alloc, Grow, Held, Regions
    <3>3. pending
      BY <2>2, <2>3, <3>2 DEF UnclaimedIsFresh
    <3>4. NoOverlap'
      BY <2>2, <3>1, BumpKeepsApart
    <3> QED BY <2>2, <3>1, <3>3, <3>4 DEF Owner, UnclaimedIsFresh
  <2>13. CASE FreeOld(t) \/ Free(t)
    <3>1. PICK b \in Blocks : block' = [block EXCEPT ![b] = NONE]
      <4>1. CASE FreeOld(t)
        BY <4>1 DEF FreeOld, CallInv
      <4>2. CASE Free(t)
        BY <4>2 DEF Free, Held
      <4> QED BY <2>13, <4>1, <4>2
    <3>2. bump' = bump /\ owns' = owns /\ pending' = pending /\ late' = late
      BY <2>13 DEF FreeOld, Free
    <3>3. NoOverlap' /\ Regions' = Regions \ {b}
      BY <2>2, <3>1, <3>2, FewerKeepApart
    <3> QED BY <2>2, <3>2, <3>3 DEF Owner, UnclaimedIsFresh
  <2> QED BY <2>5, <2>6, <2>7, <2>8, <2>9, <2>10, <2>11, <2>12, <2>13
          DEF Scope, Reset, Serve
<1> QED BY <1>2, <1>3

-----------------------------------------------------------------------------

LEMMA InitInv == Init => IInv
<1> SUFFICES ASSUME Init PROVE IInv
  OBVIOUS
<1>1. Cardinality(Threads) \in Nat /\ Cardinality(Blocks) \in Nat
  BY SlabAssumption, FS_CardinalityType
<1>2. TypeOK
  <2>1. live \in 0..Cardinality(Threads) /\ liveBlocks \in 0..Cardinality(Blocks)
    BY <1>1 DEF Init
  <2>2. bump \in 0..SlabBytes /\ depth \in [Threads -> 0..MaxDepth]
    BY SlabAssumption DEF Init
  <2> QED BY <2>1, <2>2 DEF Init, TypeOK, Places
<1>3. ThreadInv /\ LockInv /\ CallInv
  BY SlabAssumption DEF Init, ThreadInv, LockInv, CallInv, InLock
<1>4. Counted = {} /\ CountedBlocks = {} /\ Regions = {}
  BY DEF Init, Counted, CountedBlocks, Regions
<1>5. CountsExact
  BY <1>4, FS_EmptySet DEF Init, CountsExact
<1>6. GenerationInv
  BY <1>4 DEF Init, GenerationInv, Owner, UnclaimedIsFresh, NoOverlap
<1>7. ResetInv /\ LateInv
  BY DEF Init, ResetInv, LateInv
<1> QED BY <1>2, <1>3, <1>5, <1>6, <1>7 DEF IInv

LEMMA StepInv == IInv /\ [Next]_vars => IInv'
<1>1. ASSUME IInv, NEW t \in Threads, Scope(t) \/ Reset(t) \/ Serve(t)
      PROVE  IInv'
  BY <1>1, ThreadStep, LockStep, CallStep, CountStep, TypeStep, ResetStep, LateStep,
     GenerationStep DEF IInv
<1>2. ASSUME IInv, UNCHANGED vars
      PROVE  IInv'
  BY <1>2 DEF IInv, vars, scopeWord, slabVars, threadVars, callVars, history, TypeOK,
       ThreadInv, LockInv, CallInv, CountsExact, Counted, CountedBlocks, Regions,
       GenerationInv, ResetInv, LateInv, Owner, UnclaimedIsFresh, NoOverlap
<1> QED BY <1>1, <1>2 DEF Next

THEOREM Invariance == Spec => []IInv
BY InitInv, StepInv, PTL DEF Spec

\* The two counters, the claim and every thread's place keep their types: the bump
\* never leaves the slab, whatever the address it starts from and whatever
\* alignment a layout asks for (slab::alloc).
THEOREM SlabTypeCorrect == Spec => []TypeOK
<1>1. IInv => TypeOK
  BY DEF IInv
<1> QED BY <1>1, Invariance, PTL

\* LIVE_SCOPES and LIVE_BLOCKS are exact, in every interleaving.
THEOREM CountersAreExact == Spec => []CountsExact
<1>1. IInv => CountsExact
  BY DEF IInv
<1> QED BY <1>1, Invariance, PTL

\* Whatever threads have done before, the race included, a reset that found the
\* claim standing has the slab to itself (join_outermost_scope, slab::reset).
THEOREM StandingResetsAreAlone == Spec => []ResetIsAlone
<1>1. IInv => ResetIsAlone
  <2> SUFFICES ASSUME IInv, ~late, NEW t \in Threads, pc[t] \in {"reset", "rewind", "clear"}
               PROVE  /\ pending /\ live = 0
                      /\ \A u \in Threads : ~owns[u]
                      /\ pc[t] # "reset" => Regions = {}
    BY DEF ResetIsAlone
  <2>1. pending /\ live = 0 /\ (pc[t] # "reset" => Regions = {})
    BY DEF IInv, ResetInv
  <2>2. \A u \in Threads : owns[u] => live > 0
    BY OwnerIsLive DEF IInv
  <2> QED BY <2>1, <2>2
<1> QED BY <1>1, Invariance, PTL

\* A claim made while a late reset is at work is the only way to a second owner, to a
\* claim lost, to overlapping regions or to an unclaimed slab that is not fresh, and
\* the next reset that finds its claim standing ends it.
THEOREM NothingElseSpoils == Spec => []OnlyThatRaceSpoils
<1>1. IInv => OnlyThatRaceSpoils
  <2> SUFFICES ASSUME IInv, ~spoiled
               PROVE  OneOwner /\ ClaimStands /\ NoOverlap /\ UnclaimedIsFresh
    BY DEF OnlyThatRaceSpoils
  <2>1. Owner /\ NoOverlap /\ UnclaimedIsFresh
    BY DEF IInv, GenerationInv
  <2>2. \A u \in Threads : owns[u] => live > 0
    BY OwnerIsLive DEF IInv
  <2> QED BY <2>1, <2>2 DEF Owner, OneOwner, ClaimStands
<1> QED BY <1>1, Invariance, PTL
=============================================================================
