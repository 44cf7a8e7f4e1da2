-------------------------- MODULE ValueShardsProofs --------------------------
(***************************************************************************)
(* Proofs about the adjacent-value scan and its two callers, for every     *)
(* input, shard target and probe limit.                                    *)
(***************************************************************************)
EXTENDS ValueShards, FoldLemmas

-----------------------------------------------------------------------------
(* The inductive invariant.                                                *)

Blank == \A k \in (start + 1)..Size : input[k] \in {"space", "feed"}

\* Who may have asked for the answer the scan is working on.
CallerInv ==
  /\ step # "none" => phase \in {"prove", "pull"}
  /\ phase = "prove" => pulled = <<>>
  /\ phase = "pull" => emitted >= 2
  /\ phase = "pull" /\ step # "none" => pending = <<>>
  /\ step = "scanning" => ~done
  /\ step = "exhausted" => done
  /\ emitted = 0 => start = 0

\* A scan that ended without failing has left at most blanks behind.
EndInv ==
  done /\ phase \in {"prove", "pull"} /\ step \notin {"decline", "malformed"} => Blank

IndInv == TypeOK /\ ShardsTile /\ DeclineIsFirst /\ CallerInv /\ EndInv /\ NothingDropped

\* The part of ShardsTile that speaks of a sequence of shards.
Tiles(all, count, end) ==
  /\ Len(all) = count
  /\ \A i \in 1..Len(all) :
       /\ all[i].start < all[i].end
       /\ all[i].start = (IF i = 1 THEN 0 ELSE all[i - 1].end)
  /\ all # <<>> => all[Len(all)].end = end

-----------------------------------------------------------------------------
(* Sequences of shards.                                                    *)

\* A shard that begins where the last one ended extends the tiling.
LEMMA TilesExtend ==
  ASSUME NEW all \in Seq(Shard), NEW count \in Nat, NEW s \in Nat, NEW e \in Nat,
         Tiles(all, count, s), count = 0 => s = 0, s < e
  PROVE  Tiles(all \o <<[start |-> s, end |-> e]>>, count + 1, e)
<1> DEFINE one == <<[start |-> s, end |-> e]>>
           more == all \o one
<1>1. one \in Seq(Shard) /\ Len(one) = 1 /\ one[1] = [start |-> s, end |-> e]
  BY DEF Shard
<1>2. /\ more \in Seq(Shard) /\ Len(more) = count + 1
      /\ \A i \in 1..count : more[i] = all[i]
      /\ more[count + 1] = [start |-> s, end |-> e]
  <2>1. /\ more \in Seq(Shard) /\ Len(more) = Len(all) + Len(one)
        /\ \A i \in 1..(Len(all) + Len(one)) :
             more[i] = IF i <= Len(all) THEN all[i] ELSE one[i - Len(all)]
    BY <1>1, ConcatProperties, Zenon
  <2> QED BY <1>1, <2>1 DEF Tiles
<1> HIDE DEF more
<1>3. \A i \in 1..(count + 1) :
        /\ more[i].start < more[i].end
        /\ more[i].start = (IF i = 1 THEN 0 ELSE more[i - 1].end)
  <2> SUFFICES ASSUME NEW i \in 1..(count + 1)
               PROVE  /\ more[i].start < more[i].end
                      /\ more[i].start = (IF i = 1 THEN 0 ELSE more[i - 1].end)
    OBVIOUS
  <2>1. CASE i <= count
    BY <2>1, <1>2 DEF Tiles
  <2>2. CASE i = count + 1 /\ count = 0
    BY <2>2, <1>2
  <2>3. CASE i = count + 1 /\ count # 0
    <3>1. all # <<>> /\ all[count].end = s /\ more[count] = all[count]
      BY <2>3, <1>2 DEF Tiles
    <3> QED BY <3>1, <2>3, <1>2
  <2>4. i <= count \/ (i = count + 1 /\ count = 0) \/ (i = count + 1 /\ count # 0)
    OBVIOUS
  <2> QED BY <2>1, <2>2, <2>3, <2>4
<1>4. more # <<>>
  BY <1>2
<1>5. Tiles(more, count + 1, e)
  BY <1>2, <1>3, <1>4 DEF Tiles
<1> QED BY <1>5 DEF more

\* One answer joins the cuts already held or pulled.
LEMMA AllShardsType ==
  ASSUME TypeOK
  PROVE  AllShards \in Seq(Shard)
<1>1. pulled \o pending \in Seq(Shard)
  BY ConcatProperties DEF TypeOK
<1>2. (IF step = "shard" THEN <<cut>> ELSE <<>>) \in Seq(Shard)
  BY DEF TypeOK
<1> QED BY <1>1, <1>2, ConcatProperties DEF AllShards

\* A step that leaves the queues alone and answers with a shard adds that shard.
LEMMA AnswerExtends ==
  ASSUME TypeOK, step # "shard", step' = "shard", cut' \in Shard,
         UNCHANGED <<pending, pulled>>
  PROVE  AllShards' = AllShards \o <<cut'>>
<1>1. AllShards = pulled \o pending
  BY ConcatProperties, ConcatEmptySeq DEF AllShards, TypeOK
<1> QED BY <1>1 DEF AllShards

\* A step that leaves the queues alone and answers nothing keeps every shard.
LEMMA SilenceKeeps ==
  ASSUME step # "shard", step' # "shard", UNCHANGED <<pending, pulled>>
  PROVE  AllShards' = AllShards
BY DEF AllShards

\* A new drive holds the invariant.
LEMMA InitInv == Init => IndInv
<1> SUFFICES ASSUME Init PROVE IndInv
  OBVIOUS
<1>1. input \in Seq(Bytes) /\ Size \in Nat
  BY ShardAssumption DEF Init, Size
<1>2. TypeOK
  <2>1. <<>> \in Seq(Shard) /\ [start |-> 0, end |-> 0] \in Shard
    BY DEF Shard
  <2>2. start \in 0..Size /\ offset \in start..Size
    BY <1>1 DEF Init
  <2>3. step \in Steps /\ phase \in Phases
    BY DEF Init, Steps, Phases
  <2> QED BY <1>1, <2>1, <2>2, <2>3 DEF Init, TypeOK, NoCut
<1>3. AllShards = <<>>
  BY DEF Init, AllShards
<1>4. ShardsTile
  BY <1>3 DEF Init, ShardsTile
<1> QED BY <1>2, <1>4 DEF Init, IndInv, DeclineIsFirst, CallerInv, EndInv, NothingDropped

-----------------------------------------------------------------------------
(* What a step does to the sequence of shards.                             *)

\* A round of the scan answers with a shard, or answers none and keeps `start`.
LEMMA ScanCuts ==
  ASSUME IndInv, Scan
  PROVE  /\ step = "scanning" /\ TypeOK' /\ Size' = Size
         /\ \/ step' # "shard" /\ UNCHANGED <<start, emitted>>
            \/ /\ step' = "shard" /\ emitted' = emitted + 1
               /\ cut' = [start |-> start, end |-> start'] /\ start < start'
         /\ step' \in {"scanning", "shard", "decline", "malformed", "exhausted"}
<1> USE DEF IndInv, TypeOK
<1>1. Size \in Nat /\ Size' = Size /\ step = "scanning"
  BY DEF Scan, Size, ProbeFails, ReadString, StringUnclosed, ReadOpen, CloseUnopened,
         ReadClose, ReadOther, EndUnclosed, EndTail, EndBlank, Scanning
<1> SUFFICES /\ start' \in 0..Size /\ offset' \in start'..Size /\ depth' \in Nat
             /\ emitted' \in Nat /\ closed_a_value' \in BOOLEAN /\ done' \in BOOLEAN
             /\ step' \in Steps \ {"none"} /\ cut' \in Shard
             /\ \/ step' # "shard" /\ UNCHANGED <<start, emitted>>
                \/ /\ step' = "shard" /\ emitted' = emitted + 1
                   /\ cut' = [start |-> start, end |-> start'] /\ start < start'
  BY <1>1 DEF Scan, Steps
<1>2. ASSUME Fail, UNCHANGED <<start, depth, offset>>
      PROVE  /\ start' \in 0..Size /\ offset' \in start'..Size /\ depth' \in Nat
             /\ emitted' \in Nat /\ closed_a_value' \in BOOLEAN /\ done' \in BOOLEAN
             /\ step' \in Steps \ {"none"} /\ cut' \in Shard
             /\ step' # "shard" /\ UNCHANGED <<start, emitted>>
  BY <1>2 DEF Fail, Steps
<1>3. CASE ProbeFails \/ StringUnclosed \/ CloseUnopened \/ EndUnclosed
  BY <1>2, <1>3 DEF ProbeFails, StringUnclosed, CloseUnopened, EndUnclosed, Fail
<1>4. CASE ReadString
  BY <1>1, <1>4 DEF ReadString, Closers, Scanning, Steps
<1>5. CASE ReadOpen
  BY <1>1, <1>5 DEF ReadOpen, Scanning, Steps
<1>6. CASE ReadClose
  <2>1. /\ offset' = offset + 1 /\ offset' \in start..Size /\ depth' \in Nat
        /\ closed_a_value' \in BOOLEAN /\ UNCHANGED done
    BY <1>1, <1>6 DEF ReadClose, Scanning
  <2>2. CASE depth = 1 /\ Reaches(offset + 1)
    <3>1. Emit(offset + 1)
      BY <1>6, <2>2 DEF ReadClose
    <3>2. start < offset + 1
      BY <2>2, ShardAssumption DEF Reaches, ShardTarget
    <3> QED BY <1>1, <2>1, <3>1, <3>2 DEF Emit, Steps, Shard
  <2>3. CASE ~(depth = 1 /\ Reaches(offset + 1))
    BY <1>1, <1>6, <2>1, <2>3 DEF ReadClose, Scanning, Steps
  <2> QED BY <2>2, <2>3
<1>7. CASE ReadOther
  BY <1>1, <1>7 DEF ReadOther, Scanning, Steps
<1>8. CASE EndTail
  BY <1>1, <1>8 DEF EndTail, Emit, Steps, Shard
<1>9. CASE EndBlank
  BY <1>1, <1>9 DEF EndBlank, Steps
<1> QED BY <1>3, <1>4, <1>5, <1>6, <1>7, <1>8, <1>9 DEF Scan

\* A caller's step moves shards along and touches the scan's variables not at all.
LEMMA CallerMoves ==
  ASSUME IndInv, CallNext \/ ProveTakes \/ ProveHolds \/ PullPending \/ PullTakes
  PROVE  /\ TypeOK' /\ Size' = Size /\ UNCHANGED <<input, scanVars>>
         /\ AllShards' = AllShards
<1> USE DEF IndInv, TypeOK
<1>1. Size' = Size /\ UNCHANGED <<input, scanVars, cut>>
  BY DEF CallNext, ProveTakes, ProveHolds, PullPending, PullTakes, Size
<1> SUFFICES /\ pending' \in Seq(Shard) /\ pulled' \in Seq(Shard)
             /\ step' \in Steps /\ phase' \in Phases /\ AllShards' = AllShards
  BY <1>1 DEF scanVars
<1> DEFINE answer == IF step = "shard" THEN <<cut>> ELSE <<>>
<1>2. answer \in Seq(Shard) /\ <<cut>> \in Seq(Shard)
  OBVIOUS
<1>3. CASE CallNext \/ ProveHolds
  BY <1>3 DEF CallNext, ProveHolds, AllShards, Steps, Phases
<1>4. CASE ProveTakes
  <2>1. CASE step = "shard"
    <3>1. /\ pending' = Append(pending, cut) /\ step' = "none"
          /\ UNCHANGED <<pulled, phase>>
      BY <1>4, <2>1 DEF ProveTakes
    <3>2. pending' = pending \o <<cut>> /\ pending' \in Seq(Shard)
      BY <3>1, AppendIsConcat, AppendProperties
    <3>3. AllShards' = pulled \o (pending \o <<cut>>)
      BY <3>1, <3>2, ConcatProperties, ConcatEmptySeq DEF AllShards
    <3>4. AllShards = (pulled \o pending) \o <<cut>>
      BY <2>1 DEF AllShards
    <3> QED BY <3>1, <3>2, <3>3, <3>4, <1>2, ConcatAssociative DEF Steps, Phases
  <2>2. CASE step # "shard"
    BY <1>4, <2>2 DEF ProveTakes, AllShards, Steps, Phases
  <2> QED BY <2>1, <2>2
<1>5. CASE PullPending
  <2>1. /\ pending # <<>> /\ pulled' = Append(pulled, Head(pending))
        /\ pending' = Tail(pending) /\ step = "none" /\ UNCHANGED <<step, phase>>
    BY <1>5 DEF PullPending
  <2>2. Head(pending) \in Shard /\ Tail(pending) \in Seq(Shard)
    BY <2>1, HeadTailProperties
  <2>3. pulled' = pulled \o <<Head(pending)>> /\ pulled' \in Seq(Shard)
    BY <2>1, <2>2, AppendIsConcat, AppendProperties
  <2>4. pending = <<Head(pending)>> \o Tail(pending)
    BY <2>1, <2>2
  <2>5. pulled' \o pending' = pulled \o (<<Head(pending)>> \o Tail(pending))
    <3>1. PICK all, first, rest, X : /\ all = pulled /\ first = <<Head(pending)>>
                                    /\ rest = Tail(pending) /\ X = Shard
      OBVIOUS
    <3>2. all \in Seq(X) /\ first \in Seq(X) /\ rest \in Seq(X)
      BY <2>2, <3>1
    <3>3. (all \o first) \o rest = all \o (first \o rest)
      BY <3>2, ConcatAssociative
    <3> QED
      BY <2>1, <2>3, <3>1, <3>3
  <2> QED BY <2>1, <2>2, <2>3, <2>4, <2>5 DEF AllShards
<1>6. CASE PullTakes
  <2>1. /\ phase = "pull" /\ step # "none" /\ step' = "none" /\ UNCHANGED pending
        /\ phase' \in Phases
    BY <1>6 DEF PullTakes, Phases
  <2>2. pending = <<>>
    BY <2>1 DEF CallerInv
  <2>3. CASE step = "shard"
    <3>1. pulled' = pulled \o <<cut>> /\ pulled' \in Seq(Shard)
      BY <1>6, <2>3, AppendIsConcat, AppendProperties DEF PullTakes
    <3>2. AllShards = pulled \o <<cut>>
      BY <2>2, <2>3, ConcatEmptySeq DEF AllShards
    <3>3. AllShards' = pulled'
      BY <2>1, <2>2, <3>1, ConcatEmptySeq DEF AllShards
    <3> QED BY <2>1, <3>1, <3>2, <3>3 DEF Steps
  <2>4. CASE step # "shard"
    BY <1>6, <2>1, <2>4 DEF PullTakes, AllShards, Steps
  <2> QED BY <2>3, <2>4
<1> QED BY <1>3, <1>4, <1>5, <1>6

-----------------------------------------------------------------------------
(* Every step keeps the invariant.                                         *)

\* Each shard cut extends the tiling; every other step leaves it as it is.
LEMMA TilesStep ==
  ASSUME IndInv, Next
  PROVE  ShardsTile' /\ TypeOK' /\ (emitted' = 0 => start' = 0)
<1> USE DEF IndInv
<1>1. Tiles(AllShards, emitted, start) /\ AllShards \in Seq(Shard)
  BY AllShardsType DEF ShardsTile, Tiles
<1>2. CASE Scan
  <2>1. UNCHANGED <<pending, pulled>> /\ step = "scanning" /\ TypeOK'
    BY <1>2, ScanCuts DEF Scan
  <2>2. CASE step' # "shard"
    BY <1>1, <1>2, <2>1, <2>2, ScanCuts, SilenceKeeps DEF ShardsTile, Tiles, CallerInv
  <2>3. CASE step' = "shard"
    <3>1. /\ emitted' = emitted + 1 /\ start < start'
          /\ cut' = [start |-> start, end |-> start']
      BY <1>2, <2>3, ScanCuts
    <3>2. /\ start \in Nat /\ start' \in Nat /\ emitted \in Nat /\ cut' \in Shard
          /\ emitted = 0 => start = 0
      BY <2>1 DEF TypeOK, CallerInv
    <3>3. AllShards' = AllShards \o <<cut'>>
      BY <2>1, <2>3, <3>2, AnswerExtends
    <3>4. Tiles(AllShards', emitted', start')
      BY <1>1, <3>1, <3>2, <3>3, TilesExtend
    <3> QED BY <2>1, <3>1, <3>2, <3>4 DEF ShardsTile, Tiles
  <2> QED BY <2>2, <2>3
<1>3. CASE ~Scan
  <2>1. /\ TypeOK' /\ AllShards' = AllShards /\ UNCHANGED <<start, emitted>>
    BY <1>3, CallerMoves DEF Next, scanVars
  <2> QED BY <1>1, <2>1 DEF ShardsTile, Tiles, CallerInv
<1> QED BY <1>2, <1>3

\* A round of the scan: who asked has not changed, and a finished scan has read all.
LEMMA ScanStep ==
  ASSUME IndInv, Scan
  PROVE  DeclineIsFirst' /\ CallerInv' /\ EndInv' /\ NothingDropped'
<1> USE DEF IndInv
<1>1. /\ UNCHANGED <<input, pending, pulled, phase>> /\ Size' = Size
      /\ step = "scanning" /\ step' # "none" /\ phase \in {"prove", "pull"}
      /\ emitted \in Nat /\ start \in 0..Size /\ Size \in Nat /\ ~done
  BY ScanCuts DEF Scan, CallerInv, TypeOK, Size
<1>2. /\ step' = "scanning" => UNCHANGED done
      /\ step' = "decline" => emitted' = 0
      /\ step' = "exhausted" => done'
  BY <1>1 DEF Scan, Fail, Emit, ProbeFails, ReadString, StringUnclosed, ReadOpen,
     CloseUnopened, ReadClose, ReadOther, EndUnclosed, EndTail, EndBlank
<1>3. emitted' >= emitted /\ (emitted' = 0 => start' = 0)
  BY <1>1, ScanCuts, TilesStep DEF Next
<1>4. CallerInv'
  BY <1>1, <1>2, <1>3, ScanCuts, TilesStep DEF CallerInv, TypeOK
<1>5. DeclineIsFirst'
  BY <1>1, <1>2, <1>3, ScanCuts DEF DeclineIsFirst, CallerInv
<1>6. ASSUME done', step' \notin {"decline", "malformed"}
      PROVE  Blank'
  <2>1. EndTail \/ EndBlank
    BY <1>1, <1>6 DEF Scan, Fail, Emit, ProbeFails, ReadString, StringUnclosed, ReadOpen,
       CloseUnopened, ReadClose, ReadOther, EndUnclosed
  <2>2. CASE EndTail
    BY <1>1, <2>2 DEF EndTail, Emit, Blank
  <2>3. CASE EndBlank
    BY <1>1, <2>3 DEF EndBlank, TailIsBlank, Blank
  <2> QED BY <2>1, <2>2, <2>3
<1>7. EndInv'
  BY <1>6 DEF EndInv
<1>8. NothingDropped'
  BY <1>1 DEF NothingDropped
<1> QED BY <1>4, <1>5, <1>7, <1>8

\* A caller asks, takes an answer, or moves a cut along.
LEMMA CallerStep ==
  ASSUME IndInv, CallNext \/ ProveTakes \/ ProveHolds \/ PullPending \/ PullTakes
  PROVE  DeclineIsFirst' /\ CallerInv' /\ EndInv' /\ NothingDropped'
<1> USE DEF IndInv
<1>1. /\ UNCHANGED <<input, start, depth, offset, closed_a_value, emitted, done>>
      /\ Size' = Size /\ Blank' = Blank /\ emitted \in Nat
  BY CallerMoves DEF scanVars, Blank, TypeOK
<1>2. CASE CallNext
  BY <1>1, <1>2 DEF CallNext, DeclineIsFirst, CallerInv, EndInv, NothingDropped
<1>3. CASE ProveTakes
  BY <1>1, <1>3 DEF ProveTakes, DeclineIsFirst, CallerInv, EndInv, NothingDropped
<1>4. CASE ProveHolds
  <2>1. /\ step = "none" /\ Len(pending) = 2 /\ pulled = <<>> /\ phase' = "pull"
        /\ UNCHANGED step
    BY <1>4 DEF ProveHolds, CallerInv
  <2>2. AllShards = pending
    BY <2>1, ConcatEmptySeq DEF AllShards, TypeOK
  <2>3. emitted = 2
    BY <2>1, <2>2 DEF ShardsTile
  <2> QED BY <1>1, <1>4, <2>1, <2>3
          DEF ProveHolds, DeclineIsFirst, CallerInv, EndInv, NothingDropped
<1>5. CASE PullPending
  BY <1>1, <1>5 DEF PullPending, DeclineIsFirst, CallerInv, EndInv, NothingDropped
<1>6. CASE PullTakes
  <2>1. /\ phase = "pull" /\ step \notin {"none", "scanning", "decline"} /\ step' = "none"
        /\ emitted >= 2 /\ step \in Steps
    BY <1>6 DEF PullTakes, CallerInv, DeclineIsFirst, TypeOK
  <2>2. CASE step = "exhausted"
    <3>1. Blank /\ phase' = "complete"
      BY <1>6, <2>1, <2>2 DEF PullTakes, CallerInv, EndInv
    <3> QED BY <1>1, <1>6, <2>1, <3>1
            DEF PullTakes, DeclineIsFirst, CallerInv, EndInv, NothingDropped, Blank
  <2>3. CASE step \in {"shard", "malformed"}
    BY <1>1, <1>6, <2>1, <2>3
       DEF PullTakes, DeclineIsFirst, CallerInv, EndInv, NothingDropped
  <2> QED BY <2>1, <2>2, <2>3 DEF Steps
<1> QED BY <1>2, <1>3, <1>4, <1>5, <1>6

\* Every step keeps it.
LEMMA StepInv == IndInv /\ [Next]_vars => IndInv'
<1> SUFFICES ASSUME IndInv, [Next]_vars PROVE IndInv'
  OBVIOUS
<1>1. CASE Next
  BY <1>1, TilesStep, ScanStep, CallerStep DEF Next, IndInv
<1>2. CASE UNCHANGED vars
  BY <1>2 DEF vars, scanVars, IndInv, TypeOK, Size, ShardsTile, AllShards, DeclineIsFirst,
     CallerInv, EndInv, Blank, NothingDropped
<1> QED BY <1>1, <1>2

\* So it always holds.
LEMMA Inductive == Spec => []IndInv
BY InitInv, StepInv, PTL DEF Spec

-----------------------------------------------------------------------------
(* Serial's reader, one byte after the other.                              *)

\* The recursion by which ReadAll folds the bytes, as an equation.
IsReading(bytes, iter) ==
  iter = [s \in SUBSET (DOMAIN [i \in DOMAIN bytes |-> i]) |->
            IF s = {} THEN Reader0
            ELSE Step(iter[s \ {Max(s)}], bytes[[i \in DOMAIN bytes |-> i][Max(s)]],
                      [i \in DOMAIN bytes |-> i][Max(s)] - 1)]
Reading(bytes) == CHOOSE iter : IsReading(bytes, iter)

\* The reader after the first k bytes.
After(bytes, k) == Reading(bytes)[1..k]

\* A word at the end of the range is whole.
Finish(r, end) == IF r.mode = "word" THEN Complete(r, end) ELSE r

\* What the fold comes to.
LEMMA ReadAllUnfolds ==
  ASSUME NEW bytes
  PROVE  ReadAll(bytes) = Finish(Reading(bytes)[DOMAIN [i \in DOMAIN bytes |-> i]], Len(bytes))
BY Zenon DEF ReadAll, Finish, Reading, IsReading, FoldLeftDomain, FoldLeft, MapThenFoldSet

Modes == {"gap", "word", "string", "escape", "dead"}
Fill == {"empty", "full"}
Spans == Seq(Nat \X Nat)
Readers == [mode : Modes, stack : Seq(Fill), from : Nat, values : Spans]

\* The top of the stack is filled in place; a closed container leaves the rest.
LEMMA TopFilled ==
  ASSUME NEW stack \in Seq(Fill), stack # <<>>
  PROVE  /\ stack[Len(stack)] \in Fill
         /\ [stack EXCEPT ![Len(stack)] = "full"] \in Seq(Fill)
         /\ [stack EXCEPT ![Len(stack)] = "full"] # <<>>
         /\ Front(stack) \in Seq(Fill)
<1> DEFINE filled == [stack EXCEPT ![Len(stack)] = "full"]
<1>1. stack \in [1..Len(stack) -> Fill] /\ Len(stack) \in Nat /\ Len(stack) > 0
  BY LenProperties
<1>2. filled \in [1..Len(stack) -> Fill]
  BY <1>1 DEF Fill
<1> HIDE DEF filled
<1>3. filled \in Seq(Fill) /\ Len(filled) = Len(stack)
  BY <1>1, <1>2, IsASeq, LenProperties
<1>4. filled # <<>>
  BY <1>1, <1>3
<1>5. Front(stack) \in Seq(Fill)
  BY <1>1 DEF Front
<1> QED
  BY <1>1, <1>3, <1>4, <1>5 DEF filled

\* What completing a value leaves, field by field.
LEMMA CompleteFields ==
  ASSUME NEW r \in Readers, NEW end \in Nat
  PROVE  /\ Complete(r, end) \in Readers
         /\ Complete(r, end).mode = "gap" /\ Complete(r, end).from = r.from
         /\ r.stack = <<>> => /\ Complete(r, end).stack = <<>>
                              /\ Complete(r, end).values = Append(r.values, <<r.from, end>>)
         /\ r.stack # <<>> => /\ Complete(r, end).stack = [r.stack EXCEPT ![Len(r.stack)] = "full"]
                              /\ Complete(r, end).values = r.values
<1>1. r.mode \in Modes /\ r.stack \in Seq(Fill) /\ r.from \in Nat /\ r.values \in Spans
  BY DEF Readers
<1>2. CASE r.stack = <<>>
  <2>1. Complete(r, end) = [r EXCEPT !.mode = "gap", !.values = Append(@, <<r.from, end>>)]
    BY <1>2 DEF Complete
  <2>2. Append(r.values, <<r.from, end>>) \in Spans
    BY <1>1, AppendProperties DEF Spans
  <2> QED
    BY <1>1, <1>2, <2>1, <2>2 DEF Readers, Modes
<1>3. CASE r.stack # <<>>
  <2>1. Complete(r, end) = [r EXCEPT !.mode = "gap", !.stack[Len(r.stack)] = "full"]
    BY <1>3 DEF Complete
  <2>2. [r.stack EXCEPT ![Len(r.stack)] = "full"] \in Seq(Fill)
    BY <1>1, <1>3, TopFilled
  <2> DEFINE filled == [r.stack EXCEPT ![Len(r.stack)] = "full"]
  <2>3. Complete(r, end) = [r EXCEPT !.mode = "gap", !.stack = filled]
    BY <2>1
  <2> HIDE DEF filled
  <2>4. filled \in Seq(Fill)
    BY <2>2 DEF filled
  <2>5. /\ Complete(r, end) \in Readers
        /\ Complete(r, end).mode = "gap" /\ Complete(r, end).from = r.from
        /\ Complete(r, end).stack = filled /\ Complete(r, end).values = r.values
    BY <1>1, <2>3, <2>4 DEF Readers, Modes
  <2> QED
    BY <1>3, <2>5 DEF filled
<1> QED
  BY <1>2, <1>3

\* What beginning a value leaves, field by field.
LEMMA BeginFields ==
  ASSUME NEW r \in Readers, NEW at \in Nat, NEW mode \in Modes \ {"dead"}
  PROVE  /\ Begin(r, at, mode) \in Readers
         /\ Begin(r, at, mode).stack = r.stack /\ Begin(r, at, mode).values = r.values
         /\ r.stack = <<>> => Begin(r, at, mode).mode = mode /\ Begin(r, at, mode).from = at
         /\ r.stack # <<>> => /\ Begin(r, at, mode).from = r.from
                              /\ Begin(r, at, mode).mode =
                                   (IF r.stack[Len(r.stack)] = "full" THEN "dead" ELSE mode)
BY DEF Readers, Begin, Dead, Modes

\* A dead reader keeps everything but its mode.
LEMMA DeadFields ==
  ASSUME NEW r \in Readers
  PROVE  /\ Dead(r) \in Readers /\ Dead(r).mode = "dead"
         /\ Dead(r).stack = r.stack /\ Dead(r).values = r.values /\ Dead(r).from = r.from
BY DEF Readers, Dead, Modes

\* What opening a container leaves.
LEMMA OpenFields ==
  ASSUME NEW r \in Readers
  PROVE  /\ [r EXCEPT !.stack = Append(@, "empty")] \in Readers
         /\ [r EXCEPT !.stack = Append(@, "empty")].stack = Append(r.stack, "empty")
         /\ [r EXCEPT !.stack = Append(@, "empty")].stack # <<>>
         /\ [r EXCEPT !.stack = Append(@, "empty")].mode = r.mode
         /\ [r EXCEPT !.stack = Append(@, "empty")].from = r.from
         /\ [r EXCEPT !.stack = Append(@, "empty")].values = r.values
<1>1. r.stack \in Seq(Fill) /\ "empty" \in Fill
  BY DEF Readers, Fill
<1>2. Append(r.stack, "empty") \in Seq(Fill) /\ Append(r.stack, "empty") # <<>>
  BY <1>1, AppendProperties
<1> QED
  BY <1>2 DEF Readers

\* What closing one leaves.
LEMMA CloseFields ==
  ASSUME NEW r \in Readers, r.stack # <<>>
  PROVE  /\ [r EXCEPT !.stack = Front(@)] \in Readers
         /\ [r EXCEPT !.stack = Front(@)].stack = Front(r.stack)
         /\ [r EXCEPT !.stack = Front(@)].mode = r.mode
         /\ [r EXCEPT !.stack = Front(@)].from = r.from
         /\ [r EXCEPT !.stack = Front(@)].values = r.values
<1>1. Front(r.stack) \in Seq(Fill)
  BY TopFilled DEF Readers
<1> QED
  BY <1>1 DEF Readers

\* Between tokens a reader stays a reader.
LEMMA BetweenTyped ==
  ASSUME NEW r \in Readers, NEW byte \in Bytes, NEW at \in Nat
  PROVE  Between(r, byte, at) \in Readers
<1>0. at + 1 \in Nat /\ {"gap", "word", "string"} \subseteq Modes \ {"dead"}
  BY DEF Modes
<1>1. Dead(r) \in Readers
  BY DeadFields
<1>2. \A m \in {"gap", "word", "string"} : Begin(r, at, m) \in Readers
  BY <1>0, BeginFields
<1>3. [Begin(r, at, "gap") EXCEPT !.stack = Append(@, "empty")] \in Readers
  BY <1>2, OpenFields
<1>4. r.stack # <<>> => Complete([r EXCEPT !.stack = Front(@)], at + 1) \in Readers
  BY <1>0, CloseFields, CompleteFields
<1> QED
  BY <1>1, <1>2, <1>3, <1>4 DEF Between

\* A step takes readers to readers.
LEMMA StepTyped ==
  ASSUME NEW r \in Readers, NEW byte \in Bytes, NEW at \in Nat
  PROVE  Step(r, byte, at) \in Readers
<1>1. Dead(r) \in Readers
  BY DeadFields
<1>2. Complete(r, at) \in Readers /\ Complete(r, at + 1) \in Readers
  <2>1. at + 1 \in Nat
    OBVIOUS
  <2> QED
    BY <2>1, CompleteFields
<1>3. Between(r, byte, at) \in Readers /\ Between(Complete(r, at), byte, at) \in Readers
  BY <1>2, BetweenTyped
<1>4. InWord(r, byte, at) \in Readers
  BY <1>1, <1>3 DEF InWord
<1>5. [r EXCEPT !.mode = "escape"] \in Readers /\ [r EXCEPT !.mode = "string"] \in Readers
  BY DEF Readers, Modes
<1>6. InString(r, byte, at) \in Readers
  BY <1>1, <1>2, <1>5 DEF InString
<1>7. AfterEscape(r, byte) \in Readers
  BY <1>1, <1>5 DEF AfterEscape
<1> QED
  BY <1>3, <1>4, <1>6, <1>7 DEF Step

\* The reading begins with a reader.
LEMMA Reader0Typed == Reader0 \in Readers
<1>1. <<>> \in Seq(Fill) /\ <<>> \in Spans
  BY DEF Spans
<1> QED
  BY <1>1 DEF Reader0, Readers, Modes

\* The recursion has a solution.
LEMMA ReadingIsReading ==
  ASSUME NEW bytes \in Seq(Bytes)
  PROVE  IsReading(bytes, Reading(bytes))
<1> DEFINE n == Len(bytes)
           op == [p \in Readers \X (1..n) |-> Step(p[1], bytes[p[2]], p[2] - 1)]
<1>1. n \in Nat /\ \A i \in 1..n : bytes[i] \in Bytes /\ i - 1 \in Nat
  BY LenProperties, ElementOfSeq
<1>2. \A x \in Readers, i \in 1..n : Step(x, bytes[i], i - 1) \in Readers
  BY <1>1, StepTyped
<1>3. op \in [Readers \X (1..n) -> Readers]
  <2> SUFFICES ASSUME NEW p \in Readers \X (1..n)
               PROVE  Step(p[1], bytes[p[2]], p[2] - 1) \in Readers
    OBVIOUS
  <2> QED
    BY <1>2
<1>4. \A x \in Readers, i \in 1..n : op[<<x, i>>] = Step(x, bytes[i], i - 1)
  <2> SUFFICES ASSUME NEW x \in Readers, NEW i \in 1..n
               PROVE  op[<<x, i>>] = Step(x, bytes[i], i - 1)
    OBVIOUS
  <2>1. <<x, i>> \in Readers \X (1..n)
    OBVIOUS
  <2> QED
    BY <2>1
<1> HIDE DEF op
<1>5. PICK iter : IsFold(Reader0, op, SUBSET (1..n), iter)
  BY <1>1, <1>3, Reader0Typed, FoldsExist
<1>6. \A s \in SUBSET (1..n) : iter[s] \in Readers
  <2>1. Follows(n, Readers, Reader0, op, iter)
    BY <1>5, FoldFolds
  <2> HIDE DEF n
  <2> QED
    BY <1>1, <1>3, <2>1, Reader0Typed, FoldTyped
<1>7. DOMAIN [i \in DOMAIN bytes |-> i] = 1..n /\ \A i \in 1..n : [j \in DOMAIN bytes |-> j][i] = i
  BY <1>1, LenProperties
<1>8. IsReading(bytes, iter)
  <2> DEFINE same == [i \in DOMAIN bytes |-> i]
             F(s) == IF s = {} THEN Reader0
                     ELSE Step(iter[s \ {Max(s)}], bytes[same[Max(s)]], same[Max(s)] - 1)
  <2>1. \A s \in SUBSET (1..n) : FoldStep(Reader0, op, iter, s) = F(s)
    <3> SUFFICES ASSUME NEW s \in SUBSET (1..n), s # {}
                 PROVE  FoldStep(Reader0, op, iter, s) = F(s)
      BY DEF FoldStep
    <3>1. Max(s) \in 1..n /\ s \ {Max(s)} \in SUBSET (1..n)
      BY <1>1, FewerPositions
    <3>2. same[Max(s)] = Max(s)
      BY <3>1, <1>7
    <3>3. op[<<iter[s \ {Max(s)}], Max(s)>>] = Step(iter[s \ {Max(s)}], bytes[Max(s)], Max(s) - 1)
      BY <1>4, <1>6, <3>1
    <3> QED
      BY <3>2, <3>3 DEF FoldStep
  <2>2. iter = [s \in SUBSET (1..n) |-> FoldStep(Reader0, op, iter, s)]
    BY <1>5 DEF IsFold
  <2> HIDE DEF F
  <2>3. iter = [s \in SUBSET (1..n) |-> F(s)]
    BY <2>1, <2>2
  <2> QED
    BY <2>3, <1>7 DEF IsReading, F
<1> QED
  BY <1>8 DEF Reading

\* The reader, one byte after the other.
LEMMA AfterSteps ==
  ASSUME NEW bytes \in Seq(Bytes)
  PROVE  /\ After(bytes, 0) = Reader0
         /\ \A k \in 0..Len(bytes) : After(bytes, k) \in Readers
         /\ \A k \in 0..(Len(bytes) - 1) :
              After(bytes, k + 1) = Step(After(bytes, k), bytes[k + 1], k)
         /\ ReadAll(bytes) = Finish(After(bytes, Len(bytes)), Len(bytes))
<1> DEFINE n == Len(bytes)
           J == Reading(bytes)
           same == [i \in DOMAIN bytes |-> i]
           F(s) == IF s = {} THEN Reader0
                   ELSE Step(J[s \ {Max(s)}], bytes[same[Max(s)]], same[Max(s)] - 1)
           op == [p \in Readers \X (1..n) |-> Step(p[1], bytes[p[2]], p[2] - 1)]
<1>1. n \in Nat /\ DOMAIN same = 1..n /\ \A i \in 1..n : same[i] = i
  BY LenProperties
<1>2. \A s \in SUBSET (1..n) : J[s] = F(s)
  BY <1>1, ReadingIsReading, Zenon DEF IsReading
<1>3. ReadAll(bytes) = Finish(J[1..n], n)
  BY <1>1, ReadAllUnfolds
<1>4. op \in [Readers \X (1..n) -> Readers]
  <2>1. \A i \in 1..n : bytes[i] \in Bytes /\ i - 1 \in Nat
    BY <1>1, ElementOfSeq
  <2> SUFFICES ASSUME NEW p \in Readers \X (1..n)
               PROVE  Step(p[1], bytes[p[2]], p[2] - 1) \in Readers
    OBVIOUS
  <2> QED
    BY <2>1, StepTyped
<1>5. \A x \in Readers, i \in 1..n : op[<<x, i>>] = Step(x, bytes[i], i - 1)
  <2> SUFFICES ASSUME NEW x \in Readers, NEW i \in 1..n
               PROVE  op[<<x, i>>] = Step(x, bytes[i], i - 1)
    OBVIOUS
  <2>1. <<x, i>> \in Readers \X (1..n)
    OBVIOUS
  <2> QED
    BY <2>1
<1> HIDE DEF op, J, F, same
<1>6. \A s \in SUBSET (1..n) : Folds(Readers, Reader0, op, J, s)
  <2> SUFFICES ASSUME NEW s \in SUBSET (1..n) PROVE Folds(Readers, Reader0, op, J, s)
    OBVIOUS
  <2>1. CASE s = {}
    BY <1>2, <2>1 DEF F, Folds
  <2>2. CASE s # {} /\ J[s \ {Max(s)}] \in Readers
    <3>1. Max(s) \in 1..n
      BY <1>1, <2>2, FewerPositions
    <3>2. J[s] = Step(J[s \ {Max(s)}], bytes[Max(s)], Max(s) - 1)
      BY <1>1, <1>2, <2>2, <3>1 DEF F
    <3> QED
      BY <1>5, <2>2, <3>1, <3>2 DEF Folds
  <2>3. CASE s # {} /\ J[s \ {Max(s)}] \notin Readers
    BY <2>3 DEF Folds
  <2> QED
    BY <2>1, <2>2, <2>3
<1>7. n \in Nat /\ Follows(n, Readers, Reader0, op, J)
  BY <1>1, <1>6 DEF Follows
<1> HIDE DEF n
<1>8. IsStages(n, Readers, Reader0, op, Stages(n, J))
  BY <1>4, <1>7, Reader0Typed, StagesStep
<1>9. ASSUME NEW k \in 0..n PROVE After(bytes, k) = Stages(n, J)[k] /\ After(bytes, k) \in Readers
  <2>1. Stages(n, J)[k] = J[1..k] /\ Stages(n, J)[k] \in Readers
    BY <1>8 DEF IsStages, Stages
  <2> QED
    BY <2>1 DEF After, J
<1>10. ASSUME NEW k \in 0..(n - 1)
       PROVE  After(bytes, k + 1) = Step(After(bytes, k), bytes[k + 1], k)
  <2>1. k \in 0..n /\ k + 1 \in 0..n /\ k + 1 \in 1..n /\ (k + 1) - 1 = k
    BY <1>7
  <2>2. Stages(n, J)[k + 1] = op[<<Stages(n, J)[k], k + 1>>]
    BY <1>8, <2>1 DEF IsStages
  <2>3. After(bytes, k) = Stages(n, J)[k] /\ After(bytes, k) \in Readers
        /\ After(bytes, k + 1) = Stages(n, J)[k + 1]
    BY <1>9, <2>1
  <2> QED
    BY <1>5, <2>1, <2>2, <2>3
<1>11. After(bytes, 0) = Reader0 /\ After(bytes, n) = J[1..n]
  <2>1. 0 \in 0..n /\ n \in 0..n
    BY <1>7
  <2>2. Stages(n, J)[0] = Reader0 /\ Stages(n, J)[n] = J[1..n]
    BY <1>8, <2>1 DEF IsStages, Stages
  <2> QED
    BY <1>9, <2>1, <2>2
<1> QED
  BY <1>3, <1>9, <1>10, <1>11 DEF n

-----------------------------------------------------------------------------
(* Reading a shard on its own.                                             *)

Moved(values, by) == [i \in DOMAIN values |-> <<by + values[i][1], by + values[i][2]>>]

\* `r` read the whole input up to some place, `s` only a stretch of it from
\* offset `by` on, before which the values `before` were read.
Alike(r, s, by, before) ==
  /\ r.mode = s.mode /\ r.stack = s.stack
  /\ r.values = before \o Moved(s.values, by)
  /\ s.mode \in {"word", "string", "escape"} \/ s.stack # <<>> => r.from = by + s.from

\* Moved spans are spans, and the last of them can be moved apart.
LEMMA MovedAppend ==
  ASSUME NEW values \in Spans, NEW by \in Nat, NEW from \in Nat, NEW end \in Nat
  PROVE  /\ Moved(values, by) \in Spans
         /\ Moved(Append(values, <<from, end>>), by) = Append(Moved(values, by), <<by + from, by + end>>)
<1> DEFINE n == Len(values)
           e == <<from, end>>
           f == <<by + from, by + end>>
           more == Append(values, e)
           moved == Moved(values, by)
<1>1. n \in Nat /\ DOMAIN values = 1..n /\ \A i \in 1..n : values[i] \in Nat \X Nat
  BY LenProperties, ElementOfSeq DEF Spans
<1>2. e \in Nat \X Nat /\ f \in Nat \X Nat
  OBVIOUS
<1>3. /\ more \in Spans /\ Len(more) = n + 1 /\ DOMAIN more = 1..(n + 1)
      /\ \A i \in 1..n : more[i] = values[i]
      /\ more[n + 1] = e
  BY <1>2, AppendProperties, LenProperties DEF Spans
<1>4. moved \in [1..n -> Nat \X Nat]
  <2>1. \A i \in 1..n : <<by + values[i][1], by + values[i][2]>> \in Nat \X Nat
    BY <1>1
  <2> QED
    BY <1>1, <2>1 DEF Moved
<1> HIDE DEF moved
<1>5. moved \in Spans /\ Len(moved) = n
  <2> HIDE DEF n
  <2>1. moved \in Seq(Nat \X Nat) /\ Len(moved) = n
    BY <1>1, <1>4, TableIsSeq
  <2> QED
    BY <2>1 DEF Spans
<1>6. /\ Append(moved, f) \in Spans /\ Len(Append(moved, f)) = n + 1
      /\ DOMAIN Append(moved, f) = 1..(n + 1)
      /\ \A i \in 1..n : Append(moved, f)[i] = moved[i]
      /\ Append(moved, f)[n + 1] = f
  BY <1>2, <1>5, AppendProperties, LenProperties DEF Spans
<1>7. Moved(more, by) = [i \in 1..(n + 1) |-> <<by + more[i][1], by + more[i][2]>>]
  BY <1>3 DEF Moved
<1>8. \A i \in 1..(n + 1) : <<by + more[i][1], by + more[i][2]>> = Append(moved, f)[i]
  <2> SUFFICES ASSUME NEW i \in 1..(n + 1)
               PROVE  <<by + more[i][1], by + more[i][2]>> = Append(moved, f)[i]
    OBVIOUS
  <2>1. CASE i = n + 1
    BY <2>1, <1>3, <1>6
  <2>2. CASE i \in 1..n
    <3>1. moved[i] = <<by + values[i][1], by + values[i][2]>>
      BY <2>2, <1>1 DEF moved, Moved
    <3> QED
      BY <3>1, <2>2, <1>3, <1>6
  <2>3. i = n + 1 \/ i \in 1..n
    <3> HIDE DEF n
    <3> QED
      BY <1>1
  <2> QED
    BY <2>1, <2>2, <2>3
<1>9. Append(moved, f) = [i \in 1..(n + 1) |-> Append(moved, f)[i]]
  BY <1>6, LenProperties DEF Spans
<1>10. Moved(more, by) = Append(moved, f)
  BY <1>7, <1>8, <1>9
<1> QED
  BY <1>5, <1>10 DEF moved

\* Both readers complete a value they began at the same place.
LEMMA CompleteAlike ==
  ASSUME NEW r \in Readers, NEW s \in Readers, NEW by \in Nat, NEW before \in Spans,
         NEW end \in Nat, NEW there \in Nat, there = by + end,
         r.stack = s.stack, r.values = before \o Moved(s.values, by), r.from = by + s.from
  PROVE  Alike(Complete(r, there), Complete(s, end), by, before)
<1>1. /\ s.stack \in Seq(Fill) /\ s.from \in Nat /\ s.values \in Spans
      /\ Moved(s.values, by) \in Spans
  BY MovedAppend DEF Readers
<1>2. CASE s.stack = <<>>
  <2>1. /\ Complete(s, end).mode = "gap" /\ Complete(s, end).stack = <<>>
        /\ Complete(s, end).values = Append(s.values, <<s.from, end>>)
    BY <1>2, CompleteFields
  <2>2. /\ Complete(r, there).mode = "gap" /\ Complete(r, there).stack = <<>>
        /\ Complete(r, there).values = Append(r.values, <<r.from, there>>)
    <3>1. r.stack = <<>>
      BY <1>2
    <3> QED
      BY <3>1, CompleteFields
  <2>3. Moved(Complete(s, end).values, by) = Append(Moved(s.values, by), <<r.from, there>>)
    <3>1. PICK vs, a : vs = s.values /\ a = s.from
      OBVIOUS
    <3>2. Moved(Append(vs, <<a, end>>), by) = Append(Moved(vs, by), <<by + a, by + end>>)
      BY <1>1, <3>1, MovedAppend
    <3> QED
      BY <2>1, <3>1, <3>2
  <2>4. Append(before \o Moved(s.values, by), <<r.from, there>>)
          = before \o Append(Moved(s.values, by), <<r.from, there>>)
    <3>1. <<r.from, there>> \in Nat \X Nat
      BY DEF Readers
    <3> QED
      <4>1. PICK m, e, one, X : /\ m = Moved(s.values, by) /\ e = <<r.from, there>>
                               /\ one = <<e>> /\ X = Nat \X Nat
        OBVIOUS
      <4>2. m \in Seq(X) /\ before \in Seq(X) /\ e \in X
        BY <4>1, <3>1, <1>1 DEF Spans
      <4>3. one \in Seq(X) /\ before \o m \in Seq(X)
        BY <4>1, <4>2, ConcatProperties
      <4>4. Append(before \o m, e) = (before \o m) \o one /\ Append(m, e) = m \o one
        BY <4>1, <4>2, <4>3, AppendIsConcat
      <4>5. (before \o m) \o one = before \o (m \o one)
        BY <4>2, <4>3, ConcatAssociative
      <4> QED
        BY <4>1, <4>4, <4>5
  <2> QED
    BY <2>1, <2>2, <2>3, <2>4 DEF Alike
<1>3. CASE s.stack # <<>>
  <2>1. /\ Complete(s, end).mode = "gap" /\ Complete(s, end).from = s.from
        /\ Complete(s, end).stack = [s.stack EXCEPT ![Len(s.stack)] = "full"]
        /\ Complete(s, end).values = s.values
    BY <1>3, CompleteFields
  <2>2. /\ Complete(r, there).mode = "gap" /\ Complete(r, there).from = r.from
        /\ Complete(r, there).stack = [r.stack EXCEPT ![Len(r.stack)] = "full"]
        /\ Complete(r, there).values = r.values
    BY <1>3, CompleteFields
  <2> QED
    BY <2>1, <2>2 DEF Alike
<1> QED
  BY <1>2, <1>3

\* Between tokens both readers do the same.
LEMMA BetweenAlike ==
  ASSUME NEW r \in Readers, NEW s \in Readers, NEW by \in Nat, NEW before \in Spans,
         NEW byte \in Bytes, NEW at \in Nat, NEW there \in Nat, there = by + at,
         Alike(r, s, by, before), s.mode = "gap"
  PROVE  Alike(Between(r, byte, there), Between(s, byte, at), by, before)
<1>1. /\ r.mode = "gap" /\ r.stack = s.stack /\ r.values = before \o Moved(s.values, by)
      /\ s.stack # <<>> => r.from = by + s.from
  BY DEF Alike
<1>2. Alike(Dead(r), Dead(s), by, before)
  BY <1>1, DeadFields DEF Alike
<1>3. ASSUME NEW m \in {"gap", "word", "string"}
      PROVE  /\ Begin(r, there, m) \in Readers /\ Begin(s, at, m) \in Readers
             /\ Alike(Begin(r, there, m), Begin(s, at, m), by, before)
             /\ Begin(r, there, m).from = by + Begin(s, at, m).from
             /\ Begin(r, there, m).mode = Begin(s, at, m).mode
  <2>0. m \in Modes \ {"dead"}
    BY DEF Modes
  <2>1. /\ Begin(r, there, m) \in Readers
        /\ Begin(r, there, m).stack = r.stack /\ Begin(r, there, m).values = r.values
        /\ r.stack = <<>> => Begin(r, there, m).mode = m /\ Begin(r, there, m).from = there
        /\ r.stack # <<>> => /\ Begin(r, there, m).from = r.from
                             /\ Begin(r, there, m).mode =
                                  (IF r.stack[Len(r.stack)] = "full" THEN "dead" ELSE m)
    BY <2>0, BeginFields
  <2>2. /\ Begin(s, at, m) \in Readers
        /\ Begin(s, at, m).stack = s.stack /\ Begin(s, at, m).values = s.values
        /\ s.stack = <<>> => Begin(s, at, m).mode = m /\ Begin(s, at, m).from = at
        /\ s.stack # <<>> => /\ Begin(s, at, m).from = s.from
                             /\ Begin(s, at, m).mode =
                                  (IF s.stack[Len(s.stack)] = "full" THEN "dead" ELSE m)
    BY <2>0, BeginFields
  <2> QED
    BY <1>1, <2>1, <2>2 DEF Alike
<1>4. CASE byte = "space"
  BY <1>4 DEF Between
<1>5. CASE byte = "digit"
  BY <1>3, <1>5 DEF Between
<1>6. CASE byte = "quote"
  BY <1>3, <1>6 DEF Between
<1>7. CASE byte = "open"
  <2> DEFINE p == Begin(r, there, "gap")
             q == Begin(s, at, "gap")
  <2>1. /\ p \in Readers /\ q \in Readers /\ Alike(p, q, by, before)
        /\ p.from = by + q.from /\ p.mode = q.mode
    BY <1>3
  <2>2. /\ Between(r, byte, there) = IF p.mode = "dead" THEN p
                                     ELSE [p EXCEPT !.stack = Append(@, "empty")]
        /\ Between(s, byte, at) = IF q.mode = "dead" THEN q
                                  ELSE [q EXCEPT !.stack = Append(@, "empty")]
    BY <1>7 DEF Between
  <2> HIDE DEF p, q
  <2> DEFINE pp == [p EXCEPT !.stack = Append(@, "empty")]
             qq == [q EXCEPT !.stack = Append(@, "empty")]
  <2>3. /\ pp.stack = Append(p.stack, "empty") /\ pp.mode = p.mode
        /\ pp.from = p.from /\ pp.values = p.values
    BY <2>1, OpenFields
  <2>4. /\ qq.stack = Append(q.stack, "empty") /\ qq.mode = q.mode
        /\ qq.from = q.from /\ qq.values = q.values
    BY <2>1, OpenFields
  <2> HIDE DEF pp, qq
  <2>5. Alike(pp, qq, by, before)
    BY <2>1, <2>3, <2>4 DEF Alike
  <2> QED
    BY <2>1, <2>2, <2>5 DEF pp, qq
<1>8. CASE byte = "close"
  <2>1. CASE s.stack = <<>>
    BY <1>1, <1>2, <1>8, <2>1 DEF Between
  <2>2. CASE s.stack # <<>>
    <3> DEFINE p == [r EXCEPT !.stack = Front(@)]
               q == [s EXCEPT !.stack = Front(@)]
    <3>1. /\ Between(r, byte, there) = Complete(p, there + 1)
          /\ Between(s, byte, at) = Complete(q, at + 1)
      BY <1>1, <1>8, <2>2 DEF Between
    <3>2. /\ p \in Readers /\ p.stack = Front(r.stack)
          /\ p.from = r.from /\ p.values = r.values
      BY <1>1, <2>2, CloseFields
    <3>3. /\ q \in Readers /\ q.stack = Front(s.stack)
          /\ q.from = s.from /\ q.values = s.values
      BY <2>2, CloseFields
    <3> HIDE DEF p, q
    <3>4. p.stack = q.stack /\ p.values = before \o Moved(q.values, by) /\ p.from = by + q.from
      BY <1>1, <2>2, <3>2, <3>3
    <3>5. at + 1 \in Nat /\ there + 1 \in Nat /\ there + 1 = by + (at + 1)
      OBVIOUS
    <3> QED
      BY <3>1, <3>2, <3>3, <3>4, <3>5, CompleteAlike
  <2> QED
    BY <2>1, <2>2
<1>9. CASE byte \notin {"space", "digit", "quote", "open", "close"}
  BY <1>2, <1>9 DEF Between
<1> QED
  BY <1>4, <1>5, <1>6, <1>7, <1>8, <1>9

\* A step keeps the two readers alike.
LEMMA StepAlike ==
  ASSUME NEW r \in Readers, NEW s \in Readers, NEW by \in Nat, NEW before \in Spans,
         NEW byte \in Bytes, NEW at \in Nat, NEW there \in Nat, there = by + at,
         Alike(r, s, by, before)
  PROVE  Alike(Step(r, byte, there), Step(s, byte, at), by, before)
<1>1. /\ r.mode = s.mode /\ r.stack = s.stack /\ r.values = before \o Moved(s.values, by)
      /\ s.mode \in {"word", "string", "escape"} \/ s.stack # <<>> => r.from = by + s.from
  BY DEF Alike
<1>2. Alike(Dead(r), Dead(s), by, before)
  BY <1>1, DeadFields DEF Alike
<1>3. CASE s.mode = "gap"
  <2>1. Alike(Between(r, byte, there), Between(s, byte, at), by, before)
    BY <1>3, BetweenAlike
  <2> QED
    BY <1>1, <1>3, <2>1 DEF Step
<1>4. CASE s.mode = "word"
  <2>1. Step(r, byte, there) = InWord(r, byte, there) /\ Step(s, byte, at) = InWord(s, byte, at)
    BY <1>1, <1>4 DEF Step
  <2>2. CASE byte = "digit"
    BY <2>1, <2>2 DEF InWord
  <2>3. CASE byte \in {"space", "quote", "open", "close"}
    <3> DEFINE p == Complete(r, there)
               q == Complete(s, at)
    <3>1. Alike(p, q, by, before)
      BY <1>1, <1>4, CompleteAlike
    <3>2. p \in Readers /\ q \in Readers /\ q.mode = "gap"
      BY CompleteFields
    <3>3. InWord(r, byte, there) = Between(p, byte, there) /\ InWord(s, byte, at) = Between(q, byte, at)
      BY <2>3 DEF InWord
    <3> HIDE DEF p, q
    <3>4. Alike(Between(p, byte, there), Between(q, byte, at), by, before)
      BY <3>1, <3>2, BetweenAlike
    <3> QED
      BY <2>1, <3>3, <3>4
  <2>4. CASE byte \notin {"digit", "space", "quote", "open", "close"}
    BY <1>2, <2>1, <2>4 DEF InWord
  <2> QED
    BY <2>2, <2>3, <2>4
<1>5. CASE s.mode = "string"
  <2>1. Step(r, byte, there) = InString(r, byte, there) /\ Step(s, byte, at) = InString(s, byte, at)
    BY <1>1, <1>5 DEF Step
  <2>2. CASE byte = "quote"
    <3>1. at + 1 \in Nat /\ there + 1 \in Nat /\ there + 1 = by + (at + 1) /\ r.from = by + s.from
      BY <1>1, <1>5
    <3>2. Alike(Complete(r, there + 1), Complete(s, at + 1), by, before)
      BY <1>1, <3>1, CompleteAlike
    <3> QED
      BY <2>1, <2>2, <3>2 DEF InString
  <2>3. CASE byte = "escape"
    <3>1. Alike([r EXCEPT !.mode = "escape"], [s EXCEPT !.mode = "escape"], by, before)
      BY <1>1, <1>5 DEF Alike, Readers
    <3> QED
      BY <2>1, <2>3, <3>1 DEF InString
  <2>4. CASE byte = "feed"
    BY <1>2, <2>1, <2>4 DEF InString
  <2>5. CASE byte \notin {"quote", "escape", "feed"}
    BY <2>1, <2>5 DEF InString
  <2> QED
    BY <2>2, <2>3, <2>4, <2>5
<1>6. CASE s.mode = "escape"
  <2>1. Step(r, byte, there) = AfterEscape(r, byte) /\ Step(s, byte, at) = AfterEscape(s, byte)
    BY <1>1, <1>6 DEF Step
  <2>2. Alike([r EXCEPT !.mode = "string"], [s EXCEPT !.mode = "string"], by, before)
    BY <1>1, <1>6 DEF Alike, Readers
  <2> QED
    BY <1>2, <2>1, <2>2 DEF AfterEscape
<1>7. CASE s.mode = "dead"
  BY <1>1, <1>7 DEF Step
<1> QED
  BY <1>3, <1>4, <1>5, <1>6, <1>7 DEF Readers, Modes

\* Reading from a resting place on is reading the rest on its own.
LEMMA StretchAlike ==
  ASSUME NEW bytes \in Seq(Bytes), NEW from \in Nat, NEW to \in Nat, from <= to, to <= Len(bytes),
         NEW part \in Seq(Bytes), Len(part) = to - from,
         \A k \in 1..(to - from) : part[k] = bytes[from + k],
         After(bytes, from).mode = "gap", After(bytes, from).stack = <<>>
  PROVE  \A k \in 0..(to - from) :
           Alike(After(bytes, from + k), After(part, k), from, After(bytes, from).values)
<1> DEFINE before == After(bytes, from).values
           Same(k) == Alike(After(bytes, from + k), After(part, k), from, before)
           T == {k \in Nat : k <= to - from /\ ~Same(k)}
<1>0. Len(bytes) \in Nat /\ After(bytes, from) \in Readers /\ before \in Spans
  BY LenProperties, AfterSteps DEF Readers
<1> SUFFICES ASSUME T # {} PROVE FALSE
  OBVIOUS
<1>1. PICK k \in T : \A j \in Nat : j < k => j \notin T
  <2> HIDE DEF T
  <2>1. T \in SUBSET Nat
    BY DEF T
  <2> QED
    BY <2>1, LeastNumber
<1>2. k \in Nat /\ k <= to - from /\ ~Same(k)
  BY <1>1
<1>3. CASE k = 0
  <2>1. After(part, 0) = Reader0 /\ from + 0 = from
    BY AfterSteps
  <2>2. before \o Moved(<<>>, from) = before
    <3>1. Moved(<<>>, from) = <<>>
      BY DEF Moved
    <3> QED
      BY <1>0, <3>1, ConcatEmptySeq DEF Spans
  <2>3. Alike(After(bytes, from), Reader0, from, before)
    BY <2>2 DEF Alike, Reader0
  <2> QED
    BY <1>2, <1>3, <2>1, <2>3
<1>4. CASE k # 0
  <2>1. PICK j \in Nat : j = k - 1
    BY <1>2, <1>4
  <2>2. /\ j < k /\ k = j + 1 /\ from + j \in 0..(Len(bytes) - 1) /\ (from + j) + 1 = from + k
        /\ j \in 0..(Len(part) - 1) /\ j + 1 \in 1..(to - from) /\ j \in 0..Len(part)
        /\ from + j \in 0..Len(bytes) /\ from + j \in Nat /\ from + (j + 1) = from + j + 1
    BY <1>0, <1>2, <2>1
  <2>3. Same(j)
    BY <1>1, <1>2, <2>2
  <2>4. After(bytes, from + j) \in Readers /\ After(part, j) \in Readers
    BY <2>2, AfterSteps
  <2>5. After(bytes, from + k) = Step(After(bytes, from + j), bytes[from + j + 1], from + j)
    BY <2>2, AfterSteps
  <2>6. After(part, k) = Step(After(part, j), part[j + 1], j)
    BY <2>2, AfterSteps
  <2>7. part[j + 1] = bytes[from + j + 1] /\ part[j + 1] \in Bytes
    <3>1. part[j + 1] = bytes[from + (j + 1)]
      BY <2>2
    <3>2. part[j + 1] \in Bytes
      BY <2>2, ElementOfSeq
    <3> QED
      BY <2>2, <3>1, <3>2
  <2>8. Same(k)
    <3>1. PICK r, s, byte, there : /\ r = After(bytes, from + j) /\ s = After(part, j)
                                  /\ byte = part[j + 1] /\ there = from + j
      OBVIOUS
    <3>2. r \in Readers /\ s \in Readers /\ byte \in Bytes /\ there \in Nat
      BY <2>2, <2>4, <2>7, <3>1
    <3>3. Alike(r, s, from, before)
      BY <2>3, <3>1
    <3> HIDE DEF before
    <3>4. Alike(Step(r, byte, there), Step(s, byte, j), from, before)
      BY <1>0, <3>1, <3>2, <3>3, StepAlike
    <3> QED
      BY <2>5, <2>6, <2>7, <3>1, <3>4
  <2> QED
    BY <1>2, <2>8
<1> QED
  BY <1>3, <1>4

\* A closing bracket ends whatever word it follows.
LEMMA CloseEndsWord ==
  ASSUME NEW r \in Readers, NEW at \in Nat
  PROVE  Step(r, "close", at).mode # "word"
<1>1. ASSUME NEW q \in Readers, q.mode = "gap" PROVE Between(q, "close", at).mode # "word"
  <2>1. CASE q.stack = <<>>
    BY <1>1, <2>1, DeadFields DEF Between
  <2>2. CASE q.stack # <<>>
    <3>1. [q EXCEPT !.stack = Front(@)] \in Readers /\ at + 1 \in Nat
      BY <1>1, <2>2, CloseFields
    <3>2. Complete([q EXCEPT !.stack = Front(@)], at + 1).mode = "gap"
      BY <3>1, CompleteFields
    <3> QED
      BY <2>2, <3>2 DEF Between
  <2> QED
    BY <2>1, <2>2
<1>2. CASE r.mode = "gap"
  BY <1>1, <1>2 DEF Step
<1>3. CASE r.mode = "word"
  <2>1. Complete(r, at) \in Readers /\ Complete(r, at).mode = "gap"
    BY CompleteFields
  <2>2. Step(r, "close", at) = Between(Complete(r, at), "close", at)
    BY <1>3 DEF Step, InWord
  <2> QED
    BY <1>1, <2>1, <2>2
<1>4. CASE r.mode = "string"
  BY <1>4 DEF Step, InString
<1>5. CASE r.mode = "escape"
  BY <1>5, DeadFields DEF Step, AfterEscape
<1>6. CASE r.mode = "dead"
  BY <1>6 DEF Step
<1> QED
  BY <1>2, <1>3, <1>4, <1>5, <1>6 DEF Readers, Modes

Rests(r) == r.mode = "gap" /\ r.stack = <<>>

\* A stretch that reads to its end, read from a resting place, ends at one, with its
\* own values behind those read before.
LEMMA StretchReads ==
  ASSUME NEW bytes \in Seq(Bytes), NEW from \in Nat, NEW to \in Nat, from < to, to <= Len(bytes),
         Rests(After(bytes, from)), Accepts(SubSeq(bytes, from + 1, to))
  PROVE  /\ Rests(Finish(After(bytes, to), to))
         /\ Finish(After(bytes, to), to).values
              = After(bytes, from).values \o ValuesFrom(SubSeq(bytes, from + 1, to), from)
         /\ bytes[to] = "close" => Finish(After(bytes, to), to) = After(bytes, to)
<1>a. PICK part : part = SubSeq(bytes, from + 1, to)
  OBVIOUS
<1>0. Len(bytes) \in Nat /\ \A i \in (from + 1)..to : bytes[i] \in Bytes
  BY LenProperties, ElementOfSeq
<1>1. /\ part \in Seq(Bytes) /\ Len(part) = to - from /\ to - from \in Nat
      /\ \A k \in 1..(to - from) : part[k] = bytes[from + k]
  <2>1. /\ SubSeq(bytes, from + 1, to) \in Seq(Bytes)
        /\ Len(SubSeq(bytes, from + 1, to)) = to - (from + 1) + 1
        /\ \A k \in 1..(to - (from + 1) + 1) : SubSeq(bytes, from + 1, to)[k] = bytes[from + 1 + k - 1]
    <3>1. from + 1 \in Int /\ to \in Int /\ from + 1 <= to
      OBVIOUS
    <3> QED
      BY <1>0, <3>1, SubSeqProperties
  <2>2. part \in Seq(Bytes) /\ Len(part) = to - from /\ to - from \in Nat
    BY <1>a, <2>1
  <2>3. ASSUME NEW k \in 1..(to - from) PROVE part[k] = bytes[from + k]
    <3>1. k \in 1..(to - (from + 1) + 1) /\ from + 1 + k - 1 = from + k
      OBVIOUS
    <3>2. part[k] = bytes[from + 1 + k - 1]
      BY <1>a, <2>1, <3>1
    <3> QED
      BY <3>1, <3>2
  <2> QED
    BY <2>2, <2>3
<1> DEFINE r == After(bytes, to)
           s == After(part, to - from)
           before == After(bytes, from).values
           n == to - from
<1>2. Alike(r, s, from, before)
  <2>1. n \in 0..n /\ from + n = to
    BY <1>1
  <2>2. \A k \in 0..n : Alike(After(bytes, from + k), After(part, k), from, before)
    <3>1. from <= to /\ After(bytes, from).mode = "gap" /\ After(bytes, from).stack = <<>>
      BY DEF Rests
    <3>2. \A k \in 0..(to - from) :
            Alike(After(bytes, from + k), After(part, k), from, After(bytes, from).values)
      BY <1>1, <3>1, StretchAlike
    <3> QED
      BY <3>2
  <2> QED
    BY <2>1, <2>2
<1>3. r \in Readers /\ s \in Readers /\ before \in Spans
  <2>1. to \in 0..Len(bytes) /\ from \in 0..Len(bytes) /\ n \in 0..Len(part)
    BY <1>0, <1>1
  <2>2. r \in Readers /\ s \in Readers /\ After(bytes, from) \in Readers
    BY <1>1, <2>1, AfterSteps
  <2> QED
    BY <2>2 DEF Readers
<1>4. ReadAll(part) = Finish(s, n)
  <2>1. ReadAll(part) = Finish(After(part, Len(part)), Len(part))
    BY <1>1, AfterSteps
  <2> QED
    BY <1>1, <2>1
<1>6. bytes[to] = "close" => r.mode # "word"
  <2> SUFFICES ASSUME bytes[to] = "close" PROVE r.mode # "word"
    OBVIOUS
  <2>1. PICK k \in Nat : k = to - 1
    OBVIOUS
  <2>2. k \in 0..(Len(bytes) - 1) /\ k \in 0..Len(bytes) /\ k + 1 = to
    BY <1>0, <2>1
  <2>3. After(bytes, k) \in Readers /\ After(bytes, k + 1) = Step(After(bytes, k), bytes[k + 1], k)
    BY <2>2, AfterSteps
  <2> QED
    BY <2>2, <2>3, CloseEndsWord
<1>7. ValuesFrom(part, from) = Moved(Finish(s, n).values, from)
  BY <1>4 DEF ValuesFrom, Moved
<1>8. Rests(Finish(s, n))
  BY <1>a, <1>4 DEF Accepts, Rests
<1> HIDE DEF r, s, before, n
<1>9. Alike(Finish(r, to), Finish(s, n), from, before) /\ Finish(s, n) \in Readers
  <2>1. r.mode = s.mode
    BY <1>2 DEF Alike
  <2>2. CASE s.mode = "word"
    <3>1. r.stack = s.stack /\ r.values = before \o Moved(s.values, from) /\ r.from = from + s.from
      BY <1>2, <2>2 DEF Alike
    <3>2. n \in Nat /\ to = from + n
      BY <1>1 DEF n
    <3>3. Alike(Complete(r, to), Complete(s, n), from, before) /\ Complete(s, n) \in Readers
      BY <1>3, <3>1, <3>2, CompleteAlike, CompleteFields
    <3> QED
      BY <2>1, <2>2, <3>3 DEF Finish
  <2>3. CASE s.mode # "word"
    BY <1>2, <1>3, <2>1, <2>3 DEF Finish
  <2> QED
    BY <2>2, <2>3
<1>10. Finish(r, to).values = before \o ValuesFrom(part, from) /\ Rests(Finish(r, to))
  BY <1>7, <1>8, <1>9 DEF Alike, Rests
<1>11. bytes[to] = "close" => Finish(r, to) = r
  BY <1>6 DEF Finish
<1> QED
  BY <1>a, <1>10, <1>11 DEF r, before

\* Spaces leave a resting reader where it is.
LEMMA SpacesRest ==
  ASSUME NEW bytes \in Seq(Bytes), NEW from \in 0..Len(bytes), Rests(After(bytes, from)),
         \A k \in (from + 1)..Len(bytes) : bytes[k] = "space"
  PROVE  After(bytes, Len(bytes)) = After(bytes, from)
<1> DEFINE T == {k \in Nat : k <= Len(bytes) - from /\ After(bytes, from + k) # After(bytes, from)}
<1>0. Len(bytes) \in Nat
  BY LenProperties
<1>1. T = {}
  <2> SUFFICES ASSUME T # {} PROVE FALSE
    OBVIOUS
  <2>1. PICK k \in T : \A j \in Nat : j < k => j \notin T
    <3> HIDE DEF T
    <3>1. T \in SUBSET Nat
      BY DEF T
    <3> QED
      BY <3>1, LeastNumber
  <2>2. /\ k \in Nat /\ k <= Len(bytes) - from /\ After(bytes, from + k) # After(bytes, from)
        /\ k # 0
    BY <1>0, <2>1
  <2>3. PICK j \in Nat : j = k - 1
    BY <2>2
  <2>4. /\ j < k /\ from + j \in 0..(Len(bytes) - 1) /\ from + j + 1 = from + k
        /\ from + k \in (from + 1)..Len(bytes) /\ j <= Len(bytes) - from
    BY <1>0, <2>2, <2>3
  <2>5. After(bytes, from + j) = After(bytes, from)
    <3>1. j \notin T
      BY <2>1, <2>4
    <3> QED
      BY <2>4, <3>1
  <2>6. After(bytes, from + j + 1) = Step(After(bytes, from + j), bytes[from + j + 1], from + j)
    BY <2>4, AfterSteps
  <2>7. bytes[from + j + 1] = "space"
    BY <2>4
  <2>8. Step(After(bytes, from), "space", from + j) = After(bytes, from)
    BY DEF Rests, Step, Between
  <2> QED
    BY <2>2, <2>4, <2>5, <2>6, <2>7, <2>8
<1>2. PICK k \in Nat : k = Len(bytes) - from
  BY <1>0
<1>3. from + k = Len(bytes) /\ k <= Len(bytes) - from
  BY <1>0, <1>2
<1>4. After(bytes, from + k) = After(bytes, from)
  BY <1>1, <1>3
<1> QED
  BY <1>3, <1>4

-----------------------------------------------------------------------------
(* What a lane of clean shards reads.                                      *)

\* A shard that is not the last ends on the bracket that closed a value.
EndsInv ==
  \A i \in 1..Len(AllShards) :
    /\ AllShards[i].end <= Size
    /\ AllShards[i].end < Size => input[AllShards[i].end] = "close"

CompleteInv == phase = "complete" => pending = <<>> /\ step = "none"

LaneInv == IndInv /\ EndsInv /\ CompleteInv

\* Nothing is cut at first.
LEMMA LaneInit == Init => LaneInv
<1> SUFFICES ASSUME Init PROVE LaneInv
  OBVIOUS
<1>1. AllShards = <<>>
  BY DEF Init, AllShards
<1> QED
  BY <1>1, InitInv DEF Init, LaneInv, EndsInv, CompleteInv

\* A cut falls behind a closing bracket, or at the end of the input.
LEMMA CutEnds ==
  ASSUME IndInv, Scan, step' = "shard"
  PROVE  start' <= Size /\ (start' < Size => input[start'] = "close")
<1>1. offset \in Nat /\ Size \in Nat /\ step = "scanning"
  BY ScanCuts DEF IndInv, TypeOK, Size
<1>2. CASE ReadClose
  <2>1. Reaches(offset + 1) /\ Emit(offset + 1) /\ input[offset + 1] = "close"
    BY <1>1, <1>2 DEF ReadClose, Byte
  <2> QED
    BY <1>1, <2>1 DEF Emit, Reaches
<1>3. CASE EndTail
  BY <1>1, <1>3 DEF EndTail, Emit
<1>4. ~(ReadClose \/ EndTail) => step' # "shard"
  BY <1>1 DEF Scan, Fail, ProbeFails, ReadString, StringUnclosed, ReadOpen, CloseUnopened,
     ReadOther, EndUnclosed, EndBlank
<1> QED
  BY <1>2, <1>3, <1>4

\* Every step keeps where shards end.
LEMMA LaneStep == LaneInv /\ [Next]_vars => LaneInv'
<1> SUFFICES ASSUME LaneInv, [Next]_vars PROVE LaneInv'
  OBVIOUS
<1>1. IndInv /\ IndInv'
  BY StepInv DEF LaneInv
<1>2. EndsInv'
  <2>1. CASE Scan
    <3>1. /\ UNCHANGED <<input, pending, pulled>> /\ Size' = Size /\ step = "scanning"
      BY <1>1, <2>1, ScanCuts DEF Scan
    <3>2. CASE step' # "shard"
      BY <3>1, <3>2, SilenceKeeps DEF LaneInv, EndsInv
    <3>3. CASE step' = "shard"
      <4>1. /\ cut' = [start |-> start, end |-> start'] /\ cut' \in Shard
            /\ start' <= Size /\ (start' < Size => input[start'] = "close")
        BY <1>1, <2>1, <3>3, ScanCuts, CutEnds DEF IndInv, TypeOK
      <4>2. AllShards' = AllShards \o <<cut'>> /\ AllShards \in Seq(Shard)
        BY <1>1, <3>1, <3>3, <4>1, AnswerExtends, AllShardsType DEF IndInv
      <4>3. PICK all, c, more : all = AllShards /\ c = cut' /\ more = all \o <<c>>
        OBVIOUS
      <4>4. /\ all \in Seq(Shard) /\ AllShards' = more /\ c.end = start'
            /\ \A i \in 1..Len(all) : /\ all[i].end <= Size
                                     /\ all[i].end < Size => input[all[i].end] = "close"
        BY <4>1, <4>2, <4>3 DEF LaneInv, EndsInv
      <4>5. /\ Len(more) = Len(all) + 1 /\ \A i \in 1..Len(all) : more[i] = all[i]
            /\ more[Len(all) + 1] = c /\ Len(all) \in Nat
        BY <4>3, <4>4
      <4>6. ASSUME NEW i \in 1..(Len(all) + 1)
            PROVE  /\ more[i].end <= Size
                   /\ more[i].end < Size => input[more[i].end] = "close"
        <5>1. i \in 1..Len(all) \/ i = Len(all) + 1
          BY <4>5
        <5>2. CASE i \in 1..Len(all)
          <6>1. more[i] = all[i]
            BY <4>5, <5>2
          <6>2. all[i].end <= Size /\ (all[i].end < Size => input[all[i].end] = "close")
            BY <4>3, <5>2 DEF LaneInv, EndsInv
          <6> QED
            BY <6>1, <6>2
        <5>3. CASE i = Len(all) + 1
          BY <3>1, <4>1, <4>4, <4>5, <5>3
        <5> QED
          BY <5>1, <5>2, <5>3
      <4> QED
        BY <3>1, <4>4, <4>5, <4>6 DEF EndsInv
    <3> QED
      BY <3>2, <3>3
  <2>2. CASE CallNext \/ ProveTakes \/ ProveHolds \/ PullPending \/ PullTakes
    BY <1>1, <2>2, CallerMoves DEF LaneInv, EndsInv
  <2>3. CASE UNCHANGED vars
    BY <2>3 DEF LaneInv, EndsInv, vars, AllShards, Size
  <2> QED
    BY <2>1, <2>2, <2>3 DEF Next
<1>3. CompleteInv'
  <2>1. CASE Scan
    <3>1. phase \in {"prove", "pull"} /\ phase' = phase
      BY <1>1, <2>1, ScanCuts DEF Scan, IndInv, CallerInv
    <3> QED
      BY <3>1 DEF CompleteInv
  <2>2. CASE CallNext \/ ProveTakes \/ ProveHolds \/ PullPending
    BY <2>2 DEF CallNext, ProveTakes, ProveHolds, PullPending, CompleteInv
  <2>3. CASE PullTakes
    <3>1. pending = <<>> /\ pending' = pending /\ step' = "none"
      BY <1>1, <2>3 DEF PullTakes, IndInv, CallerInv
    <3> QED
      BY <3>1 DEF CompleteInv
  <2>4. CASE UNCHANGED vars
    BY <2>4 DEF LaneInv, CompleteInv, vars
  <2> QED
    BY <2>1, <2>2, <2>3, <2>4 DEF Next
<1> QED
  BY <1>1, <1>2, <1>3 DEF LaneInv

\* So every shard ends there at every time.
LEMMA LaneInductive == Spec => []LaneInv
BY LaneInit, LaneStep, PTL DEF Spec

\* The values of any range are spans.
LEMMA ValuesTyped ==
  ASSUME NEW bytes \in Seq(Bytes), NEW base \in Nat
  PROVE  ValuesFrom(bytes, base) \in Spans
<1>1. Len(bytes) \in Nat /\ Len(bytes) \in 0..Len(bytes)
  BY LenProperties
<1>2. After(bytes, Len(bytes)) \in Readers
  BY <1>1, AfterSteps
<1>3. Finish(After(bytes, Len(bytes)), Len(bytes)) \in Readers
  BY <1>1, <1>2, CompleteFields DEF Finish
<1>4. ReadAll(bytes) \in Readers
  BY <1>3, AfterSteps
<1>5. ValuesFrom(bytes, base) = Moved(ReadAll(bytes).values, base) /\ ReadAll(bytes).values \in Spans
  BY <1>4 DEF ValuesFrom, Moved, Readers
<1> QED
  BY <1>5, MovedAppend

\* Where the k-th of some adjoining shards ends.
EndOf(shards, k) == IF k = 0 THEN 0 ELSE shards[k].end

\* Shards laid end to end, each read to its end on its own, are read as the whole is.
LEMMA ShardsRead ==
  ASSUME NEW bytes \in Seq(Bytes), NEW n \in Nat, NEW shards \in [1..n -> Shard],
         \A i \in 1..n :
           /\ shards[i].start = EndOf(shards, i - 1)
           /\ shards[i].start < shards[i].end /\ shards[i].end <= Len(bytes)
           /\ shards[i].end < Len(bytes) => bytes[shards[i].end] = "close"
           /\ Accepts(SubSeq(bytes, shards[i].start + 1, shards[i].end)),
         NEW parts \in Seq(Spans), Len(parts) = n,
         \A i \in 1..n : parts[i] = ValuesFrom(SubSeq(bytes, shards[i].start + 1, shards[i].end),
                                             shards[i].start)
  PROVE  \A k \in 0..n :
           LET end == EndOf(shards, k)
               r == Finish(After(bytes, end), end)
           IN  Rests(r) /\ r.values = Upto(parts, k) /\ (end < Len(bytes) => r = After(bytes, end))
<1> DEFINE At(k) == Finish(After(bytes, EndOf(shards, k)), EndOf(shards, k))
           Good(k) == /\ Rests(At(k)) /\ At(k).values = Upto(parts, k)
                      /\ EndOf(shards, k) < Len(bytes) => At(k) = After(bytes, EndOf(shards, k))
           T == {k \in Nat : k <= n /\ ~Good(k)}
<1>0. Len(bytes) \in Nat
  BY LenProperties
<1> SUFFICES \A k \in 0..n : Good(k)
  OBVIOUS
<1> SUFFICES ASSUME T # {} PROVE FALSE
  <2> HIDE DEF Good
  <2> QED
    OBVIOUS
<1>1. PICK k \in T : \A j \in Nat : j < k => j \notin T
  <2> HIDE DEF T
  <2>1. T \in SUBSET Nat
    BY DEF T
  <2> QED
    BY <2>1, LeastNumber
<1>2. k \in Nat /\ k <= n /\ ~Good(k)
  BY <1>1
<1>3. CASE k = 0
  <2>1. EndOf(shards, 0) = 0 /\ After(bytes, 0) = Reader0
    BY AfterSteps DEF EndOf
  <2>2. Finish(Reader0, 0) = Reader0 /\ Rests(Reader0) /\ Reader0.values = <<>>
    BY DEF Finish, Reader0, Rests
  <2>3. Upto(parts, 0) = <<>>
    BY DEF Upto
  <2>4. Good(0)
    BY <2>1, <2>2, <2>3
  <2> QED
    BY <1>2, <1>3, <2>4
<1>4. CASE k # 0
  <2>1. PICK j \in Nat : j = k - 1
    BY <1>2, <1>4
  <2>2. j < k /\ j <= n /\ k \in 1..n /\ k = j + 1 /\ j \in 0..(n - 1)
    BY <1>2, <2>1
  <2>3. Good(j)
    <3>1. j \notin T
      BY <1>1, <2>2
    <3> QED
      BY <2>2, <3>1
  <2>4. PICK from, to, part : /\ from = shards[k].start /\ to = shards[k].end
                              /\ part = SubSeq(bytes, from + 1, to)
    OBVIOUS
  <2>5. /\ from \in Nat /\ to \in Nat /\ from < to /\ to <= Len(bytes)
        /\ to < Len(bytes) => bytes[to] = "close"
        /\ Accepts(part) /\ parts[k] = ValuesFrom(part, from)
        /\ from = EndOf(shards, j) /\ to = EndOf(shards, k)
    <3>1. shards[k] \in Shard /\ k - 1 = j
      BY <2>1, <2>2
    <3>2. /\ shards[k].start = EndOf(shards, k - 1)
          /\ shards[k].start < shards[k].end /\ shards[k].end <= Len(bytes)
          /\ shards[k].end < Len(bytes) => bytes[shards[k].end] = "close"
          /\ Accepts(SubSeq(bytes, shards[k].start + 1, shards[k].end))
      BY <2>2
    <3>3. parts[k] = ValuesFrom(SubSeq(bytes, shards[k].start + 1, shards[k].end), shards[k].start)
      BY <2>2
    <3>4. from \in Nat /\ to \in Nat
      BY <2>4, <3>1 DEF Shard
    <3>5. to = EndOf(shards, k)
      BY <2>4, <1>4 DEF EndOf
    <3> QED
      BY <2>4, <3>1, <3>2, <3>3, <3>4, <3>5
  <2>6. At(j) = After(bytes, from) /\ Rests(After(bytes, from)) /\ After(bytes, from).values = Upto(parts, j)
    BY <1>0, <2>3, <2>5
  <2>7. /\ Rests(Finish(After(bytes, to), to))
        /\ Finish(After(bytes, to), to).values = After(bytes, from).values \o ValuesFrom(part, from)
        /\ bytes[to] = "close" => Finish(After(bytes, to), to) = After(bytes, to)
    <3>1. from \in Nat /\ to \in Nat /\ from < to /\ to <= Len(bytes)
      BY <2>5
    <3>2. Accepts(SubSeq(bytes, from + 1, to))
      BY <2>4, <2>5
    <3>3. Rests(After(bytes, from))
      BY <2>6
    <3>4. /\ Rests(Finish(After(bytes, to), to))
          /\ Finish(After(bytes, to), to).values
              = After(bytes, from).values \o ValuesFrom(SubSeq(bytes, from + 1, to), from)
          /\ bytes[to] = "close" => Finish(After(bytes, to), to) = After(bytes, to)
      BY <3>1, <3>2, <3>3, StretchReads
    <3> QED
      BY <2>4, <3>4
  <2>8. Upto(parts, k) = Upto(parts, j) \o parts[k]
    <3>1. PICK X : X = Nat \X Nat
      OBVIOUS
    <3>2. parts \in Seq(Seq(X))
      BY <3>1 DEF Spans
    <3>3. j \in 0..Len(parts) /\ j \in 0..(Len(parts) - 1)
      BY <2>2
    <3>4. Upto(parts, j) \in Seq(X)
      BY <3>2, <3>3, UptoTyped
    <3>5. Upto(parts, j + 1) = Upto(parts, j) \o parts[j + 1]
      BY <3>2, <3>3, <3>4, UptoStep
    <3> QED
      BY <2>2, <3>5
  <2>9. Good(k)
    BY <2>5, <2>6, <2>7, <2>8
  <2> QED
    BY <1>2, <2>9
<1> QED
  BY <1>3, <1>4

\* A lane that has completed, over shards that all read to their end.
LEMMA LaneReads == LaneInv => LaneReadsSerial
<1> SUFFICES ASSUME LaneInv, phase = "complete", NoFeedBehind,
                    \A i \in 1..Len(pulled) : Clean(pulled[i])
             PROVE  Accepts(input) /\ LaneValues = ValuesFrom(input, 0)
  BY DEF LaneReadsSerial
<1> DEFINE n == Len(pulled)
           parts == [i \in 1..n |-> ValuesFrom(ShardBytes(pulled[i]), pulled[i].start)]
<1>1. /\ input \in Seq(Bytes) /\ pulled \in Seq(Shard) /\ n \in Nat /\ pulled \in [1..n -> Shard]
      /\ Size = Len(input) /\ Size \in Nat /\ start \in 0..Size
  BY LenProperties DEF LaneInv, IndInv, TypeOK, Size
<1>2. AllShards = pulled
  BY <1>1, ConcatEmptySeq DEF LaneInv, CompleteInv, AllShards
<1>3. /\ n = emitted /\ emitted >= 2 /\ EndOf(pulled, n) = start
      /\ \A k \in (start + 1)..Size : input[k] = "space"
  <2>1. emitted >= 2 /\ \A k \in (start + 1)..Size : input[k] \in {"space", "feed"} /\ input[k] # "feed"
    BY DEF LaneInv, IndInv, NothingDropped, NoFeedBehind
  <2>2. n = emitted /\ (pulled # <<>> => pulled[n].end = start)
    BY <1>2 DEF LaneInv, IndInv, ShardsTile
  <2>3. pulled # <<>> /\ n # 0
    BY <1>1, <2>1, <2>2
  <2> QED
    BY <2>1, <2>2, <2>3 DEF EndOf
<1>4. \A i \in 1..n :
        /\ pulled[i].start = EndOf(pulled, i - 1)
        /\ pulled[i].start < pulled[i].end /\ pulled[i].end <= Len(input)
        /\ pulled[i].end < Len(input) => input[pulled[i].end] = "close"
        /\ Accepts(SubSeq(input, pulled[i].start + 1, pulled[i].end))
  <2> SUFFICES ASSUME NEW i \in 1..n
               PROVE  /\ pulled[i].start = EndOf(pulled, i - 1)
                      /\ pulled[i].start < pulled[i].end /\ pulled[i].end <= Len(input)
                      /\ pulled[i].end < Len(input) => input[pulled[i].end] = "close"
                      /\ Accepts(SubSeq(input, pulled[i].start + 1, pulled[i].end))
    OBVIOUS
  <2>1. /\ pulled[i].start < pulled[i].end
        /\ pulled[i].start = (IF i = 1 THEN 0 ELSE pulled[i - 1].end)
    BY <1>2 DEF LaneInv, IndInv, ShardsTile
  <2>2. /\ pulled[i].end <= Size
        /\ pulled[i].end < Size => input[pulled[i].end] = "close"
    BY <1>2 DEF LaneInv, EndsInv
  <2>3. Accepts(SubSeq(input, pulled[i].start + 1, pulled[i].end))
    BY DEF Clean, ShardBytes
  <2>4. i = 1 <=> i - 1 = 0
    BY <1>1
  <2> QED
    BY <1>1, <2>1, <2>2, <2>3, <2>4 DEF EndOf
<1>5. /\ parts \in Seq(Spans) /\ Len(parts) = n
      /\ \A i \in 1..n : parts[i] = ValuesFrom(SubSeq(input, pulled[i].start + 1, pulled[i].end),
                                              pulled[i].start)
  <2>1. ASSUME NEW i \in 1..n PROVE ValuesFrom(ShardBytes(pulled[i]), pulled[i].start) \in Spans
    <3>1. PICK from, to : from = pulled[i].start /\ to = pulled[i].end
      OBVIOUS
    <3>2. from \in Nat /\ to \in Nat /\ to <= Len(input) /\ from < to
      BY <1>1, <1>4, <3>1 DEF Shard
    <3>3. \A k \in (from + 1)..to : input[k] \in Bytes
      BY <1>1, <3>2, ElementOfSeq
    <3>4. SubSeq(input, from + 1, to) \in Seq(Bytes)
      <4>1. from + 1 \in Int /\ to \in Int
        BY <3>2
      <4> QED
        BY <3>3, <4>1, SubSeqProperties
    <3>5. ValuesFrom(SubSeq(input, from + 1, to), from) \in Spans
      BY <3>2, <3>4, ValuesTyped
    <3> QED
      BY <3>1, <3>5 DEF ShardBytes
  <2>2. parts \in [1..n -> Spans]
    BY <2>1
  <2>3. \A i \in 1..n : parts[i] = ValuesFrom(SubSeq(input, pulled[i].start + 1, pulled[i].end),
                                            pulled[i].start)
    BY DEF ShardBytes
  <2> HIDE DEF parts, n
  <2>4. parts \in Seq(Spans) /\ Len(parts) = n
    BY <1>1, <2>2, TableIsSeq
  <2> QED
    BY <2>3, <2>4
<1>6. LaneValues = FlattenSeq(parts)
  BY DEF LaneValues
<1> HIDE DEF parts, n
<1>7. /\ Rests(Finish(After(input, start), start))
      /\ Finish(After(input, start), start).values = Upto(parts, n)
      /\ start < Len(input) => Finish(After(input, start), start) = After(input, start)
  <2>1. \A k \in 0..n :
           LET end == EndOf(pulled, k)
               r == Finish(After(input, end), end)
           IN  Rests(r) /\ r.values = Upto(parts, k) /\ (end < Len(input) => r = After(input, end))
    BY <1>1, <1>4, <1>5, ShardsRead
  <2>2. n \in 0..n
    BY <1>1
  <2> QED
    BY <1>3, <2>1, <2>2
<1>8. Upto(parts, n) = FlattenSeq(parts) /\ Upto(parts, n) \in Spans
  <2>1. PICK X : X = Nat \X Nat
    OBVIOUS
  <2>2. parts \in Seq(Seq(X)) /\ n \in 0..Len(parts)
    BY <1>1, <1>5, <2>1 DEF Spans
  <2>3. FlattenSeq(parts) = Upto(parts, Len(parts)) /\ Upto(parts, n) \in Seq(X)
    BY <2>2, UptoAll, UptoTyped
  <2> QED
    BY <1>5, <2>1, <2>3 DEF Spans
<1>9. ReadAll(input) = Finish(After(input, start), start)
  <2>1. ReadAll(input) = Finish(After(input, Size), Size)
    BY <1>1, AfterSteps
  <2>2. CASE start = Size
    BY <2>1, <2>2
  <2>3. CASE start < Size
    <3>1. Rests(After(input, start)) /\ Finish(After(input, start), start) = After(input, start)
      BY <1>1, <1>7, <2>3
    <3>2. After(input, Size) = After(input, start)
      BY <1>1, <1>3, <3>1, SpacesRest
    <3> QED
      BY <2>1, <3>1, <3>2 DEF Finish, Rests
  <2> QED
    BY <1>1, <2>2, <2>3
<1>10. Rests(ReadAll(input)) /\ ReadAll(input).values = LaneValues /\ LaneValues \in Spans
  BY <1>6, <1>7, <1>8, <1>9
<1>11. ValuesFrom(input, 0) = LaneValues
  <2>1. PICK vs : vs = LaneValues
    OBVIOUS
  <2>2. ValuesFrom(input, 0) = [i \in DOMAIN vs |-> <<0 + vs[i][1], 0 + vs[i][2]>>]
    BY <1>10, <2>1 DEF ValuesFrom
  <2>3. /\ vs \in Seq(Nat \X Nat) /\ DOMAIN vs = 1..Len(vs)
        /\ \A i \in 1..Len(vs) : vs[i] \in Nat \X Nat
    BY <1>10, <2>1, LenProperties, ElementOfSeq DEF Spans
  <2>4. \A i \in 1..Len(vs) : <<0 + vs[i][1], 0 + vs[i][2]>> = vs[i]
    <3> SUFFICES ASSUME NEW i \in 1..Len(vs) PROVE <<0 + vs[i][1], 0 + vs[i][2]>> = vs[i]
      OBVIOUS
    <3>1. vs[i] \in Nat \X Nat
      BY <2>3
    <3>2. PICK a \in Nat, b \in Nat : vs[i] = <<a, b>>
      BY <3>1
    <3> QED
      BY <3>2
  <2>5. ValuesFrom(input, 0) = [i \in 1..Len(vs) |-> <<0 + vs[i][1], 0 + vs[i][2]>>]
    BY <2>2, <2>3
  <2>6. ValuesFrom(input, 0) = [i \in 1..Len(vs) |-> vs[i]]
    BY <2>4, <2>5
  <2>7. vs = [i \in 1..Len(vs) |-> vs[i]]
    BY <2>3
  <2> QED
    BY <2>1, <2>6, <2>7
<1> QED
  BY <1>10, <1>11 DEF Accepts, Rests

-----------------------------------------------------------------------------
(* The theorems.                                                           *)

\* The scan stays inside its input, and its depth never goes below zero
\* (boundary.rs, the checked_sub of the close arm).
THEOREM ScanIsTyped == Spec => []TypeOK
BY Inductive, PTL DEF IndInv

\* For every input and target: the shards, cut, pending or pulled, tile the input
\* from its first byte to where the scan's open shard begins.
THEOREM ShardsTileTheInput == Spec => []ShardsTile
BY Inductive, PTL DEF IndInv

\* next_morsel may take a decline for the end of the source: the relay never sees
\* one, because the scan declines only before its first cut and the relay is only
\* reached with two.
THEOREM RelaySeesNoDecline == Spec => []DeclineIsFirst
BY Inductive, PTL DEF IndInv

\* A source that reports its end has cut everything but a blank tail.
THEOREM EndMeansAllCut == Spec => []NothingDropped
BY Inductive, PTL DEF IndInv

\* If the drive reads every shard to its end, serial reads the whole input, and the
\* same values (boundary.rs, "The soundness argument"): for every input, target and
\* probe limit, strings, escapes and words across any number of shards included.
THEOREM LaneReadsWhatSerialReads == Spec => []LaneReadsSerial
BY LaneInductive, LaneReads, PTL

=============================================================================
