------------------------- MODULE RecordStreamProofs -------------------------
(***************************************************************************)
(* The two ways a stream of records comes in pieces, and why the pieces do *)
(* not show.  First the drive: what it has done at the end of a record     *)
(* does not depend on what is behind it, and driving what is behind it by  *)
(* itself gives the rest.  Then the resident feed, which gives what one    *)
(* drive over the stream gives, whatever the pieces, the buffers and the   *)
(* bounds.  Then the live routes, for every file, chunk and cap, any       *)
(* number of truncations and rotations, and whatever a refused drive left  *)
(* undone: what they read, and what they show of it.                       *)
(***************************************************************************)
EXTENDS ResidentFeed, FollowTail, FoldLemmas

-----------------------------------------------------------------------------
(* The drive, one byte after the other.                                    *)

Kept == {"strict", "recovering"}
Runs == [profile : Kept, from : Nat, ordinal : Nat, out : Seq(Nat), reports : Seq(Reports),
         failed : BOOLEAN, stop : {"none", "fault", "sink"}, offset : Nat]
FramedRecords == [ordinal : Nat, offset : Nat, closed : BOOLEAN, payload : Seq(Bytes)]

\* The recursion by which Drive folds the positions, as an equation.
IsDriving(p, bytes, cap, iter) ==
  iter = [s \in SUBSET (DOMAIN [i \in DOMAIN bytes |-> i]) |->
            IF s = {} THEN Started(p, bytes)
            ELSE Advance(bytes, iter[s \ {Max(s)}], [i \in DOMAIN bytes |-> i][Max(s)], cap)]
Driving(p, bytes, cap) == CHOOSE iter : IsDriving(p, bytes, cap, iter)

\* The run after each position.
After(p, bytes, cap) == Stages(Len(bytes), Driving(p, bytes, cap))

\* What the fold comes to.
LEMMA DriveUnfolds ==
  ASSUME NEW p, NEW bytes, NEW cap
  PROVE  Drive(p, bytes, cap) = Driving(p, bytes, cap)[DOMAIN [i \in DOMAIN bytes |-> i]]
BY Zenon DEF Drive, Driving, IsDriving, FoldLeftDomain, FoldLeft, MapThenFoldSet

\* What a record is taken for.
Judged(record) ==
  CASE Text(record) = <<>> /\ ~record.closed -> "skip"
    [] Text(record) = <<>> /\ record.closed -> "blank"
    [] Text(record) = <<"open", "close">> -> "value"
    [] Text(record) = <<"raise">> -> "raised"
    [] OTHER -> "malformed"

Items(record) == [i \in 1..ItemsPerValue |-> record.payload[1].at]

\* Some text is no other text.
LEMMA TextsDiffer ==
  ASSUME NEW record
  PROVE  /\ Judged(record) \in {"skip", "blank", "value", "raised", "malformed"}
         /\ Judged(record) = "skip" <=> Text(record) = <<>> /\ ~record.closed
         /\ Judged(record) = "blank" <=> Text(record) = <<>> /\ record.closed
         /\ Judged(record) = "value" => Text(record) = <<"open", "close">>
<1>1. Len(<<>>) = 0 /\ Len(<<"open", "close">>) = 2 /\ Len(<<"raise">>) = 1
  OBVIOUS
<1>2. <<"open", "close">> # <<>> /\ <<"raise">> # <<>> /\ <<"open", "close">> # <<"raise">>
  BY <1>1
<1>3. CASE Text(record) = <<>>
  BY <1>2, <1>3 DEF Judged
<1>4. CASE Text(record) # <<>>
  BY <1>2, <1>4 DEF Judged
<1> QED
  BY <1>3, <1>4

\* What a record does to a run.
LEMMA RunIs ==
  ASSUME NEW run, NEW record, NEW cap
  PROVE  Run(run, record, cap) =
           CASE Judged(record) = "skip" -> run
             [] Judged(record) \in {"blank", "malformed"} -> Fault(run, Judged(record), record)
             [] Judged(record) = "value" -> Written(run, record, cap)
             [] Judged(record) = "raised" ->
                  [run EXCEPT !.reports = Append(@, Report("raised", 0, 0)), !.failed = TRUE]
<1>1. Len(<<>>) = 0 /\ Len(<<"open", "close">>) = 2 /\ Len(<<"raise">>) = 1
  OBVIOUS
<1>2. <<"open", "close">> # <<>> /\ <<"raise">> # <<>> /\ <<"open", "close">> # <<"raise">>
  BY <1>1
<1>3. CASE Text(record) = <<>> /\ ~record.closed
  BY <1>2, <1>3 DEF Judged, Run
<1>4. CASE Text(record) = <<>> /\ record.closed
  BY <1>2, <1>4 DEF Judged, Run
<1>5. CASE Text(record) = <<"open", "close">>
  BY <1>2, <1>5 DEF Judged, Run
<1>6. CASE Text(record) = <<"raise">>
  BY <1>2, <1>6 DEF Judged, Run
<1>7. CASE Text(record) # <<>> /\ Text(record) # <<"open", "close">> /\ Text(record) # <<"raise">>
  BY <1>2, <1>7 DEF Judged, Run
<1> QED
  BY <1>3, <1>4, <1>5, <1>6, <1>7

\* The items of a value.
LEMMA ItemsTyped ==
  ASSUME NEW record \in FramedRecords, Judged(record) = "value"
  PROVE  /\ record.payload # <<>>
         /\ Items(record) \in Seq(Nat) /\ Len(Items(record)) = ItemsPerValue
<1>0. ItemsPerValue \in Nat
  BY DriveAssumption
<1>1. PICK payload : payload = record.payload
  OBVIOUS
<1>2. payload \in Seq(Bytes) /\ DOMAIN payload = 1..Len(payload) /\ Len(payload) \in Nat
  BY <1>1 DEF FramedRecords
<1>3. Text(record) = <<"open", "close">>
  BY TextsDiffer
<1>4. DOMAIN Text(record) = DOMAIN payload
  BY <1>1 DEF Text
<1>5. 1 \in DOMAIN payload
  <2>1. 1 \in DOMAIN <<"open", "close">>
    OBVIOUS
  <2> QED
    BY <1>3, <1>4, <2>1
<1>6. payload[1].at \in Nat
  <2>1. payload[1] \in Bytes
    BY <1>2, <1>5
  <2> QED
    BY <2>1 DEF Bytes
<1>7. Items(record) \in [1..ItemsPerValue -> Nat]
  BY <1>1, <1>6 DEF Items
<1>8. payload # <<>>
  BY <1>2, <1>5
<1> QED
  BY <1>0, <1>1, <1>7, <1>8, TableIsSeq

\* What a record leaves of a run, field by field.
Effects(run, record, cap, next) ==
  LET judged == Judged(record)
  IN  /\ next \in Runs
      /\ next.profile = run.profile /\ next.from = run.from /\ next.ordinal = run.ordinal
      /\ Len(next.out) <= cap
      /\ judged = "skip" => next.out = run.out /\ next.reports = run.reports /\ next.stop = "none"
      /\ judged = "raised" =>
           /\ next.out = run.out /\ next.stop = "none"
           /\ next.reports = Append(run.reports, Report("raised", 0, 0))
      /\ judged \in {"blank", "malformed"} /\ run.profile = "recovering" =>
           /\ next.out = run.out /\ next.stop = "none"
           /\ next.reports = Append(run.reports, Report(judged, record.ordinal, record.offset))
      /\ judged \in {"blank", "malformed"} /\ run.profile = "strict" =>
           /\ next.out = run.out /\ next.reports = run.reports
           /\ next.stop = "fault" /\ next.offset = record.offset
      /\ judged = "value" =>
           /\ next.reports = run.reports
           /\ Len(run.out) + ItemsPerValue <= cap =>
                next.stop = "none" /\ next.out = run.out \o Items(record)
           /\ Len(run.out) + ItemsPerValue > cap =>
                /\ next.stop = "sink" /\ next.offset = record.offset
                /\ next.out = SubSeq(run.out \o Items(record), 1, cap)

\* A report behind the others.
LEMMA ReportedTyped ==
  ASSUME NEW run \in Runs, NEW code \in {"blank", "malformed", "mark", "raised"},
         NEW ordinal \in Nat, NEW place \in Nat
  PROVE  /\ Report(code, ordinal, place) \in Reports
         /\ Append(run.reports, Report(code, ordinal, place)) \in Seq(Reports)
<1>1. Report(code, ordinal, place) \in Reports
  BY DEF Report, Reports
<1>2. run.reports \in Seq(Reports)
  BY DEF Runs
<1> QED
  BY <1>1, <1>2, AppendProperties

\* The sink's cut.
LEMMA WrittenEffects ==
  ASSUME NEW run \in Runs, run.stop = "none", NEW record \in FramedRecords, NEW cap \in Nat,
         Len(run.out) <= cap, Judged(record) = "value"
  PROVE  Effects(run, record, cap, Written(run, record, cap))
<1>1. PICK all, next : all = run.out \o Items(record) /\ next = Written(run, record, cap)
  OBVIOUS
<1>2. run.out \in Seq(Nat) /\ record.offset \in Nat /\ ItemsPerValue \in Nat /\ Len(run.out) \in Nat
  BY DriveAssumption DEF Runs, FramedRecords
<1>3. Items(record) \in Seq(Nat) /\ Len(Items(record)) = ItemsPerValue
  BY ItemsTyped
<1>4. all \in Seq(Nat) /\ Len(all) = Len(run.out) + ItemsPerValue
  BY <1>1, <1>2, <1>3, ConcatProperties
<1>5. CASE Len(all) <= cap
  <2>1. next = [run EXCEPT !.out = all, !.failed = FALSE]
    BY <1>1, <1>5 DEF Written, Items
  <2>2. /\ next \in Runs /\ next.out = all /\ next.reports = run.reports /\ next.stop = "none"
        /\ next.profile = run.profile /\ next.from = run.from /\ next.ordinal = run.ordinal
    BY <1>4, <2>1 DEF Runs
  <2> QED
    BY <1>1, <1>2, <1>4, <1>5, <2>2 DEF Effects
<1>6. CASE Len(all) > cap
  <2>1. PICK part : part = SubSeq(all, 1, cap)
    OBVIOUS
  <2>2. part \in Seq(Nat) /\ Len(part) = cap
    <3>1. \A i \in 1..cap : all[i] \in Nat
      BY <1>4, <1>6
    <3>2. part \in Seq(Nat) /\ Len(part) = IF 1 <= cap THEN cap - 1 + 1 ELSE 0
      BY <2>1, <3>1, SubSeqProperties
    <3> QED
      BY <3>2
  <2>3. next = [run EXCEPT !.out = part, !.stop = "sink", !.offset = record.offset]
    BY <1>1, <1>2, <1>4, <1>6, <2>1 DEF Written, Items
  <2>4. /\ next \in Runs /\ next.out = part /\ next.reports = run.reports
        /\ next.stop = "sink" /\ next.offset = record.offset
        /\ next.profile = run.profile /\ next.from = run.from /\ next.ordinal = run.ordinal
    BY <1>2, <2>2, <2>3 DEF Runs
  <2> QED
    BY <1>1, <1>2, <1>4, <1>6, <2>1, <2>2, <2>4 DEF Effects
<1> QED
  BY <1>2, <1>4, <1>5, <1>6

\* The profile's law on a fault.
LEMMA FaultEffects ==
  ASSUME NEW run \in Runs, run.stop = "none", NEW record \in FramedRecords, NEW cap \in Nat,
         Len(run.out) <= cap, Judged(record) \in {"blank", "malformed"}
  PROVE  Effects(run, record, cap, Fault(run, Judged(record), record))
<1>1. PICK code, next : code = Judged(record) /\ next = Fault(run, code, record)
  OBVIOUS
<1>2. /\ record.ordinal \in Nat /\ record.offset \in Nat /\ run.profile \in Kept
      /\ code \in {"blank", "malformed", "mark", "raised"}
  BY <1>1 DEF Runs, FramedRecords
<1>3. PICK more : more = Append(run.reports, Report(code, record.ordinal, record.offset))
  OBVIOUS
<1>4. more \in Seq(Reports)
  BY <1>2, <1>3, ReportedTyped
<1>5. CASE run.profile = "recovering"
  <2>1. next = [run EXCEPT !.reports = more]
    BY <1>1, <1>3, <1>5 DEF Fault
  <2>2. /\ next \in Runs /\ next.out = run.out /\ next.reports = more /\ next.stop = "none"
        /\ next.profile = run.profile /\ next.from = run.from /\ next.ordinal = run.ordinal
    BY <1>4, <2>1 DEF Runs
  <2> QED
    BY <1>1, <1>3, <1>5, <2>2 DEF Effects
<1>6. CASE run.profile = "strict"
  <2>1. next = [run EXCEPT !.stop = "fault", !.offset = record.offset]
    BY <1>1, <1>6 DEF Fault
  <2>2. /\ next \in Runs /\ next.out = run.out /\ next.reports = run.reports
        /\ next.stop = "fault" /\ next.offset = record.offset
        /\ next.profile = run.profile /\ next.from = run.from /\ next.ordinal = run.ordinal
    BY <1>2, <2>1 DEF Runs
  <2> QED
    BY <1>1, <1>6, <2>2 DEF Effects
<1> QED
  BY <1>2, <1>5, <1>6 DEF Kept

\* What any record leaves of a run.
LEMMA RunEffects ==
  ASSUME NEW run \in Runs, run.stop = "none", NEW record \in FramedRecords, NEW cap \in Nat,
         Len(run.out) <= cap
  PROVE  Effects(run, record, cap, Run(run, record, cap))
<1>0. Judged(record) \in {"skip", "blank", "value", "raised", "malformed"}
  BY TextsDiffer
<1>1. CASE Judged(record) = "skip"
  <2>1. Run(run, record, cap) = run
    BY <1>1, RunIs
  <2> QED
    BY <1>1, <2>1 DEF Effects
<1>2. CASE Judged(record) = "raised"
  <2>1. PICK more, next : /\ more = Append(run.reports, Report("raised", 0, 0))
                          /\ next = Run(run, record, cap)
    OBVIOUS
  <2>2. next = [run EXCEPT !.reports = more, !.failed = TRUE]
    BY <1>2, <2>1, RunIs
  <2>3. more \in Seq(Reports)
    BY <2>1, ReportedTyped
  <2>4. /\ next \in Runs /\ next.out = run.out /\ next.reports = more /\ next.stop = "none"
        /\ next.profile = run.profile /\ next.from = run.from /\ next.ordinal = run.ordinal
    BY <2>2, <2>3 DEF Runs
  <2> QED
    BY <1>2, <2>1, <2>4 DEF Effects
<1>3. CASE Judged(record) \in {"blank", "malformed"}
  <2>1. Run(run, record, cap) = Fault(run, Judged(record), record)
    BY <1>3, RunIs
  <2> QED
    BY <1>3, <2>1, FaultEffects
<1>4. CASE Judged(record) = "value"
  <2>1. Run(run, record, cap) = Written(run, record, cap)
    BY <1>4, RunIs
  <2> QED
    BY <1>4, <2>1, WrittenEffects
<1> QED
  BY <1>0, <1>1, <1>2, <1>3, <1>4

\* A framed record is one.
LEMMA FramedTyped ==
  ASSUME NEW bytes \in Seq(Bytes), NEW run \in Runs, NEW i \in 1..Len(bytes)
  PROVE  Framed(bytes, run, i) \in FramedRecords
<1>1. run.from \in Nat /\ run.ordinal \in Nat /\ (bytes[i].kind = "lf") \in BOOLEAN
  BY DEF Runs
<1>2. Len(bytes) \in Nat /\ \A j \in 1..Len(bytes) : bytes[j] \in Bytes
  OBVIOUS
<1>3. ASSUME NEW end \in {i - 1, i} PROVE SubSeq(bytes, run.from + 1, end) \in Seq(Bytes)
  <2>1. run.from + 1 \in Int /\ end \in Int /\ \A j \in (run.from + 1)..end : bytes[j] \in Bytes
    BY <1>1, <1>2
  <2> QED
    BY <2>1, SubSeqProperties
<1> DEFINE payload == SubSeq(bytes, run.from + 1, IF bytes[i].kind = "lf" THEN i - 1 ELSE i)
<1>4. payload \in Seq(Bytes)
  BY <1>3
<1> HIDE DEF payload
<1>5. Framed(bytes, run, i) = [ordinal |-> run.ordinal, offset |-> run.from,
                               closed |-> bytes[i].kind = "lf", payload |-> payload]
  BY DEF Framed, payload
<1> QED
  BY <1>1, <1>4, <1>5 DEF FramedRecords

\* A step of the drive, field by field.
LEMMA AdvanceIs ==
  ASSUME NEW bytes \in Seq(Bytes), NEW run \in Runs, NEW i \in 1..Len(bytes), NEW cap \in Nat,
         Len(run.out) <= cap
  PROVE  LET next == Run(run, Framed(bytes, run, i), cap)
             step == Advance(bytes, run, i, cap)
         IN  /\ step \in Runs /\ Len(step.out) <= cap /\ step.profile = run.profile
             /\ ~(IsEnd(bytes, i) /\ run.stop = "none") => step = run
             /\ IsEnd(bytes, i) /\ run.stop = "none" =>
                  /\ step.from = i /\ step.ordinal = run.ordinal + 1
                  /\ step.out = next.out /\ step.reports = next.reports
                  /\ step.stop = next.stop /\ step.offset = next.offset
                  /\ Effects(run, Framed(bytes, run, i), cap, next)
<1>1. CASE ~(IsEnd(bytes, i) /\ run.stop = "none")
  BY <1>1 DEF Advance, Runs
<1>2. CASE IsEnd(bytes, i) /\ run.stop = "none"
  <2>1. PICK next, step : /\ next = Run(run, Framed(bytes, run, i), cap)
                          /\ step = Advance(bytes, run, i, cap)
    OBVIOUS
  <2>2. Effects(run, Framed(bytes, run, i), cap, next)
    BY <1>2, <2>1, FramedTyped, RunEffects
  <2>3. next \in Runs /\ Len(next.out) <= cap /\ next.profile = run.profile /\ next.ordinal = run.ordinal
    BY <2>2 DEF Effects
  <2>4. step = [next EXCEPT !.from = i, !.ordinal = @ + 1]
    BY <1>2, <2>1 DEF Advance
  <2>5. next.ordinal + 1 \in Nat /\ i \in Nat
    BY <2>3 DEF Runs
  <2>6. /\ step \in Runs /\ step.from = i /\ step.ordinal = run.ordinal + 1
        /\ step.out = next.out /\ step.reports = next.reports
        /\ step.stop = next.stop /\ step.offset = next.offset /\ step.profile = next.profile
    BY <2>3, <2>4, <2>5 DEF Runs
  <2> QED
    BY <1>2, <2>1, <2>2, <2>3, <2>6
<1> QED
  BY <1>1, <1>2

\* How a drive begins.
LEMMA StartedIs ==
  ASSUME NEW p \in Kept, NEW bytes
  PROVE  LET run == Started(p, bytes)
         IN  /\ run \in Runs /\ run.profile = p /\ run.out = <<>> /\ run.ordinal = 0
             /\ run.offset = 0 /\ run.stop # "sink"
             /\ ~StartsWithMark(bytes) => run.from = 0 /\ run.reports = <<>> /\ run.stop = "none"
             /\ StartsWithMark(bytes) => run.from = 1
             /\ StartsWithMark(bytes) /\ p = "recovering" =>
                  run.stop = "none" /\ run.reports = <<Report("mark", 0, 0)>>
             /\ StartsWithMark(bytes) /\ p = "strict" => run.stop = "fault" /\ run.reports = <<>>
<1>1. PICK mark, none : mark = <<Report("mark", 0, 0)>> /\ none = <<>>
  OBVIOUS
<1>2. mark \in Seq(Reports) /\ none \in Seq(Reports) /\ none \in Seq(Nat) /\ mark = Append(none, Report("mark", 0, 0))
  BY <1>1 DEF Report, Reports
<1> DEFINE run(from) == [profile |-> p, from |-> from, ordinal |-> 0, out |-> none,
                         reports |-> none, failed |-> FALSE, stop |-> "none", offset |-> 0]
<1>3. Started(p, bytes) =
        IF StartsWithMark(bytes) THEN Fault(run(1), "mark", [ordinal |-> 0, offset |-> 0]) ELSE run(0)
  BY <1>1 DEF Started
<1>4. run(0) \in Runs /\ run(1) \in Runs
  BY <1>2 DEF Runs
<1>5. CASE ~StartsWithMark(bytes)
  BY <1>1, <1>3, <1>4, <1>5
<1>6. CASE StartsWithMark(bytes) /\ p = "recovering"
  <2>1. Started(p, bytes) = [run(1) EXCEPT !.reports = mark]
    BY <1>2, <1>3, <1>6 DEF Fault
  <2>2. [run(1) EXCEPT !.reports = mark] \in Runs
    BY <1>2, <1>4 DEF Runs
  <2> QED
    BY <1>1, <1>6, <2>1, <2>2
<1>7. CASE StartsWithMark(bytes) /\ p = "strict"
  <2>1. Started(p, bytes) = [run(1) EXCEPT !.stop = "fault", !.offset = 0]
    BY <1>3, <1>7 DEF Fault
  <2>2. [run(1) EXCEPT !.stop = "fault", !.offset = 0] \in Runs
    BY <1>4 DEF Runs
  <2> QED
    BY <1>1, <1>7, <2>1, <2>2
<1> QED
  BY <1>5, <1>6, <1>7 DEF Kept

\* Runs that keep the sink's cap.
Capped(cap) == {run \in Runs : Len(run.out) <= cap}

\* The runs after each position.
IsDrive(p, bytes, cap, f) ==
  /\ f \in [0..Len(bytes) -> Capped(cap)]
  /\ f[0] = Started(p, bytes)
  /\ \A k \in 1..Len(bytes) : f[k] = Advance(bytes, f[k - 1], k, cap)

\* A drive goes from one position to the next.
LEMMA DriveIsDrive ==
  ASSUME NEW p \in Kept, NEW bytes \in Seq(Bytes), NEW cap \in Nat
  PROVE  IsDrive(p, bytes, cap, After(p, bytes, cap)) /\ Drive(p, bytes, cap) = After(p, bytes, cap)[Len(bytes)]
<1> DEFINE n == Len(bytes)
           X == Capped(cap)
           first == Started(p, bytes)
           op == [q \in X \X (1..n) |-> Advance(bytes, q[1], q[2], cap)]
           same == [i \in DOMAIN bytes |-> i]
           J == Driving(p, bytes, cap)
           F(it, s) == IF s = {} THEN first ELSE Advance(bytes, it[s \ {Max(s)}], same[Max(s)], cap)
<1>1. n \in Nat /\ DOMAIN same = 1..n /\ \A i \in 1..n : same[i] = i
  BY LenProperties
<1>2. first \in X
  <2>1. first \in Runs /\ Len(first.out) = 0
    BY StartedIs
  <2> QED
    BY <2>1 DEF Capped
<1>3. \A x \in X, i \in 1..n : Advance(bytes, x, i, cap) \in X
  <2> SUFFICES ASSUME NEW x \in X, NEW i \in 1..n PROVE Advance(bytes, x, i, cap) \in X
    OBVIOUS
  <2>1. x \in Runs /\ Len(x.out) <= cap
    BY DEF Capped
  <2> QED
    BY <2>1, AdvanceIs DEF Capped
<1>4. op \in [X \X (1..n) -> X]
  <2> HIDE DEF X
  <2> SUFFICES ASSUME NEW q \in X \X (1..n) PROVE Advance(bytes, q[1], q[2], cap) \in X
    OBVIOUS
  <2> QED
    BY <1>3
<1>5. \A x \in X, i \in 1..n : op[<<x, i>>] = Advance(bytes, x, i, cap)
  <2> HIDE DEF X
  <2> SUFFICES ASSUME NEW x \in X, NEW i \in 1..n PROVE op[<<x, i>>] = Advance(bytes, x, i, cap)
    OBVIOUS
  <2>1. <<x, i>> \in X \X (1..n)
    OBVIOUS
  <2> QED
    BY <2>1
<1> HIDE DEF op, X, first, n
<1>6. PICK iter : IsFold(first, op, SUBSET (1..n), iter)
  BY <1>1, <1>2, <1>4, FoldsExist
<1>7. \A s \in SUBSET (1..n) : iter[s] \in X
  <2>1. Follows(n, X, first, op, iter)
    BY <1>6, FoldFolds
  <2> QED
    BY <1>1, <1>2, <1>4, <2>1, FoldTyped
<1>8. IsDriving(p, bytes, cap, iter)
  <2>1. \A s \in SUBSET (1..n) : FoldStep(first, op, iter, s) = F(iter, s)
    <3> SUFFICES ASSUME NEW s \in SUBSET (1..n), s # {}
                 PROVE  FoldStep(first, op, iter, s) = F(iter, s)
      BY DEF FoldStep
    <3>1. Max(s) \in 1..n /\ s \ {Max(s)} \in SUBSET (1..n)
      BY <1>1, FewerPositions
    <3>2. same[Max(s)] = Max(s)
      BY <3>1, <1>1
    <3>3. op[<<iter[s \ {Max(s)}], Max(s)>>] = Advance(bytes, iter[s \ {Max(s)}], Max(s), cap)
      BY <1>5, <1>7, <3>1
    <3> QED
      BY <3>2, <3>3 DEF FoldStep
  <2>2. iter = [s \in SUBSET (1..n) |-> FoldStep(first, op, iter, s)]
    BY <1>6 DEF IsFold
  <2> HIDE DEF F
  <2>3. iter = [s \in SUBSET (1..n) |-> F(iter, s)]
    BY <2>1, <2>2
  <2> QED
    BY <2>3, <1>1 DEF IsDriving, F, first
<1>9. \A s \in SUBSET (1..n) : J[s] = F(J, s)
  <2>1. IsDriving(p, bytes, cap, J)
    BY <1>8 DEF Driving
  <2> HIDE DEF J
  <2> QED
    BY <1>1, <2>1 DEF IsDriving, first
<1> HIDE DEF J, same
<1>10. \A s \in SUBSET (1..n) : Folds(X, first, op, J, s)
  <2> SUFFICES ASSUME NEW s \in SUBSET (1..n) PROVE Folds(X, first, op, J, s)
    OBVIOUS
  <2>1. CASE s = {}
    BY <1>9, <2>1 DEF Folds
  <2>2. CASE s # {} /\ J[s \ {Max(s)}] \in X
    <3>1. Max(s) \in 1..n
      BY <1>1, <2>2, FewerPositions
    <3>2. J[s] = Advance(bytes, J[s \ {Max(s)}], Max(s), cap)
      BY <1>1, <1>9, <2>2, <3>1
    <3> QED
      BY <1>5, <2>2, <3>1, <3>2 DEF Folds
  <2>3. CASE s # {} /\ J[s \ {Max(s)}] \notin X
    BY <2>3 DEF Folds
  <2> QED
    BY <2>1, <2>2, <2>3
<1>11. n \in Nat /\ Follows(n, X, first, op, J)
  BY <1>1, <1>10 DEF Follows
<1>12. IsStages(n, X, first, op, Stages(n, J))
  BY <1>2, <1>4, <1>11, StagesStep
<1>13. PICK f : f = Stages(n, J)
  OBVIOUS
<1>14. f \in [0..n -> X] /\ f[0] = first /\ f[n] = J[1..n]
  <2>1. f \in [0..n -> X] /\ f[0] = first
    BY <1>12, <1>13 DEF IsStages
  <2>2. n \in 0..n
    BY <1>1
  <2> QED
    BY <1>13, <2>1, <2>2 DEF Stages
<1>15. ASSUME NEW k \in 1..n PROVE f[k] = Advance(bytes, f[k - 1], k, cap)
  <2>1. k - 1 \in 0..n
    BY <1>1
  <2>2. f[k] = op[<<f[k - 1], k>>] /\ f[k - 1] \in X
    BY <1>12, <1>13, <1>14, <2>1 DEF IsStages
  <2> QED
    BY <1>5, <2>2
<1>16. Drive(p, bytes, cap) = J[1..n]
  BY <1>1, DriveUnfolds DEF J, same
<1> QED
  BY <1>13, <1>14, <1>15, <1>16 DEF IsDrive, After, J, X, first, n

\* The ends of records among the first k positions.
EndsUpto(bytes, k) == {j \in 1..k : IsEnd(bytes, j)}

\* After k positions: the cursor is not ahead of them, and at the last end; a
\* stop is before the end; the ordinal counts the ends.
Sound(bytes, run, k) ==
  /\ run.from <= k \/ (k = 0 /\ run.from = 1 /\ StartsWithMark(bytes))
  /\ k > 0 /\ IsEnd(bytes, k) /\ run.stop = "none" => run.from = k
  /\ run.stop # "none" => run.offset < Len(bytes)
  /\ run.stop = "none" => run.ordinal = Cardinality(EndsUpto(bytes, k))

\* A record that does anything has bytes behind the cursor.
LEMMA RecordHasBytes ==
  ASSUME NEW bytes \in Seq(Bytes), NEW run \in Runs, NEW i \in 1..Len(bytes),
         run.from <= i - 1 \/ (i = 1 /\ run.from = 1 /\ StartsWithMark(bytes)),
         Judged(Framed(bytes, run, i)) # "skip"
  PROVE  run.from < i
<1>1. run.from \in Nat /\ i \in Nat
  BY DEF Runs
<1> SUFFICES ASSUME i = 1, run.from = 1, StartsWithMark(bytes) PROVE FALSE
  BY <1>1
<1>2. bytes[i].kind # "lf"
  BY DEF StartsWithMark
<1>3. SubSeq(bytes, 2, 1) = <<>>
  BY SubSeqEmpty
<1>4. Framed(bytes, run, i).payload = <<>> /\ ~Framed(bytes, run, i).closed
  <2>1. run.from + 1 = 2 /\ (IF bytes[i].kind = "lf" THEN i - 1 ELSE i) = 1
    BY <1>2
  <2> QED
    BY <1>2, <1>3, <2>1, Zenon DEF Framed
<1>5. Text(Framed(bytes, run, i)) = <<>>
  BY <1>4 DEF Text
<1> QED
  BY <1>4, <1>5, TextsDiffer

\* One end more, or none.
LEMMA EndsStep ==
  ASSUME NEW bytes \in Seq(Bytes), NEW k \in 1..Len(bytes)
  PROVE  /\ Cardinality(EndsUpto(bytes, k - 1)) \in Nat
         /\ IsEnd(bytes, k) => Cardinality(EndsUpto(bytes, k)) = Cardinality(EndsUpto(bytes, k - 1)) + 1
         /\ ~IsEnd(bytes, k) => EndsUpto(bytes, k) = EndsUpto(bytes, k - 1)
<1>1. PICK fewer, more : fewer = EndsUpto(bytes, k - 1) /\ more = EndsUpto(bytes, k)
  OBVIOUS
<1>2. IsFiniteSet(fewer) /\ Cardinality(fewer) \in Nat
  <2>1. IsFiniteSet(1..(k - 1)) /\ fewer \in SUBSET (1..(k - 1))
    BY <1>1, FS_Interval DEF EndsUpto
  <2>2. IsFiniteSet(fewer)
    BY <2>1, FS_Subset
  <2> QED
    BY <2>2, FS_CardinalityType
<1>3. IsEnd(bytes, k) => more = fewer \cup {k} /\ k \notin fewer
  BY <1>1 DEF EndsUpto
<1>4. ~IsEnd(bytes, k) => more = fewer
  BY <1>1 DEF EndsUpto
<1>5. IsEnd(bytes, k) => Cardinality(more) = Cardinality(fewer) + 1
  BY <1>2, <1>3, FS_AddElement
<1> QED
  BY <1>1, <1>2, <1>4, <1>5

\* A step keeps this.
LEMMA SoundStep ==
  ASSUME NEW bytes \in Seq(Bytes), NEW cap \in Nat, NEW run \in Capped(cap), NEW i \in 1..Len(bytes),
         Sound(bytes, run, i - 1)
  PROVE  Sound(bytes, Advance(bytes, run, i, cap), i)
<1>1. PICK step, record : step = Advance(bytes, run, i, cap) /\ record = Framed(bytes, run, i)
  OBVIOUS
<1>2. /\ run \in Runs /\ Len(run.out) <= cap
      /\ run.from \in Nat /\ run.ordinal \in Nat /\ i \in Nat /\ Len(bytes) \in Nat
      /\ run.stop \in {"none", "fault", "sink"} /\ run.profile \in Kept
  BY DEF Capped, Runs
<1>3. CASE ~(IsEnd(bytes, i) /\ run.stop = "none")
  <2>1. step = run
    BY <1>1, <1>2, <1>3, AdvanceIs
  <2>2. run.from <= i
    BY <1>2 DEF Sound
  <2>3. run.stop = "none" => run.ordinal = Cardinality(EndsUpto(bytes, i))
    BY <1>3, EndsStep DEF Sound
  <2> QED
    BY <1>1, <1>3, <2>1, <2>2, <2>3 DEF Sound
<1>4. CASE IsEnd(bytes, i) /\ run.stop = "none"
  <2>1. PICK next : next = Run(run, record, cap)
    OBVIOUS
  <2>2. /\ step.from = i /\ step.ordinal = run.ordinal + 1
        /\ step.stop = next.stop /\ step.offset = next.offset
        /\ Effects(run, record, cap, next)
    BY <1>1, <1>2, <1>4, <2>1, AdvanceIs
  <2>3. run.ordinal + 1 = Cardinality(EndsUpto(bytes, i))
    BY <1>4, EndsStep DEF Sound
  <2>4. ASSUME next.stop # "none" PROVE next.offset < Len(bytes)
    <3>0. /\ Judged(record) \in {"skip", "blank", "value", "raised", "malformed"}
          /\ Len(run.out) + ItemsPerValue <= cap \/ Len(run.out) + ItemsPerValue > cap
      BY <1>2, TextsDiffer, DriveAssumption DEF Runs
    <3>1. Judged(record) # "skip" /\ next.offset = record.offset
      BY <1>2, <2>2, <2>4, <3>0 DEF Effects, Kept
    <3>2. record.offset = run.from
      BY <1>1 DEF Framed
    <3>3. run.from < i
      BY <1>1, <1>2, <3>1, RecordHasBytes DEF Sound
    <3> QED
      BY <1>2, <3>1, <3>2, <3>3
  <2> QED
    BY <1>1, <1>2, <2>2, <2>3, <2>4 DEF Sound
<1> QED
  BY <1>3, <1>4

\* So at every position.
LEMMA DriveSound ==
  ASSUME NEW p \in Kept, NEW bytes \in Seq(Bytes), NEW cap \in Nat, NEW f, IsDrive(p, bytes, cap, f),
         NEW k \in 0..Len(bytes)
  PROVE  f[k] \in Runs /\ Sound(bytes, f[k], k)
<1> DEFINE P == {j \in 0..Len(bytes) : Sound(bytes, f[j], j)}
<1>1. \A j \in 0..Len(bytes) : f[j] \in Capped(cap)
  BY DEF IsDrive
<1>2. 0 \in P
  <2>1. PICK run : run = Started(p, bytes)
    OBVIOUS
  <2>2. /\ run.from = 0 \/ (run.from = 1 /\ StartsWithMark(bytes))
        /\ run.ordinal = 0 /\ run.offset = 0 /\ (run.stop # "none" => StartsWithMark(bytes))
        /\ Len(bytes) \in Nat
    BY <2>1, StartedIs DEF Kept
  <2>3. EndsUpto(bytes, 0) = {} /\ Cardinality({}) = 0
    BY FS_EmptySet DEF EndsUpto
  <2>4. StartsWithMark(bytes) => 0 < Len(bytes)
    BY DEF StartsWithMark
  <2>5. Sound(bytes, run, 0)
    <3>1. run.from <= 0 \/ (0 = 0 /\ run.from = 1 /\ StartsWithMark(bytes))
      BY <2>2
    <3>2. ~(0 > 0)
      OBVIOUS
    <3>3. run.stop # "none" => run.offset < Len(bytes)
      BY <2>2, <2>4
    <3>4. run.ordinal = Cardinality(EndsUpto(bytes, 0))
      BY <2>2, <2>3
    <3> QED
      BY <3>1, <3>2, <3>3, <3>4 DEF Sound
  <2> QED
    BY <2>1, <2>5 DEF IsDrive
<1>3. ASSUME NEW j \in 1..Len(bytes), j - 1 \in P PROVE j \in P
  <2>1. f[j] = Advance(bytes, f[j - 1], j, cap) /\ f[j - 1] \in Capped(cap) /\ Sound(bytes, f[j - 1], j - 1)
    BY <1>1, <1>3 DEF IsDrive
  <2> QED
    BY <2>1, SoundStep
<1>4. P = 0..Len(bytes)
  <2> HIDE DEF P
  <2>1. P \in SUBSET (0..Len(bytes))
    BY DEF P
  <2> QED
    BY <1>2, <1>3, <2>1, EachStage
<1> QED
  BY <1>1, <1>4 DEF Capped

-----------------------------------------------------------------------------
(* What is behind an end of a record does not matter to what is before it. *)

\* `s` is what `t` has behind its first `by` bytes, or the first of that.
Stretch(s, t, by) ==
  /\ s \in Seq(Bytes) /\ t \in Seq(Bytes) /\ by \in Nat /\ by + Len(s) <= Len(t)
  /\ \A j \in 1..Len(s) : s[j] = t[by + j]

\* A stretch is a part of the sequence.
LEMMA SubSeqStretch ==
  ASSUME NEW t \in Seq(Bytes), NEW by \in Nat, NEW end \in by..Len(t)
  PROVE  /\ Stretch(SubSeq(t, by + 1, end), t, by)
         /\ Len(SubSeq(t, by + 1, end)) = end - by
<1>1. PICK s : s = SubSeq(t, by + 1, end)
  OBVIOUS
<1>2. Len(t) \in Nat /\ end \in Nat /\ by <= end /\ \A j \in (by + 1)..end : t[j] \in Bytes
  OBVIOUS
<1>3. /\ s \in Seq(Bytes) /\ Len(s) = IF by + 1 <= end THEN end - (by + 1) + 1 ELSE 0
      /\ \A j \in 1..(end - (by + 1) + 1) : s[j] = t[(by + 1) + j - 1]
  BY <1>1, <1>2, SubSeqProperties
<1>4. Len(s) = end - by
  BY <1>2, <1>3
<1>5. \A j \in 1..Len(s) : s[j] = t[by + j]
  <2> SUFFICES ASSUME NEW j \in 1..Len(s) PROVE s[j] = t[by + j]
    OBVIOUS
  <2>1. (by + 1) + j - 1 = by + j /\ j \in 1..(end - (by + 1) + 1)
    BY <1>2, <1>4
  <2> QED
    BY <1>3, <2>1
<1>6. by + Len(s) <= Len(t)
  BY <1>2, <1>4
<1> QED
  BY <1>1, <1>3, <1>4, <1>5, <1>6 DEF Stretch

\* The bytes behind the first m, up to the x-th.
Behind(s, m, x) == SubSeq(s, m + 1, x)

\* The same bytes of both.
LEMMA SameBytes ==
  ASSUME NEW s, NEW t, NEW by, Stretch(s, t, by), NEW m \in Nat, NEW x \in 0..Len(s),
         NEW n, NEW y, n = by + m, y = by + x
  PROVE  Behind(s, m, x) = Behind(t, n, y)
<1>1. PICK u, v : u = SubSeq(s, m + 1, x) /\ v = SubSeq(t, n + 1, y)
  OBVIOUS
<1>2. /\ by \in Nat /\ Len(s) \in Nat /\ Len(t) \in Nat /\ by + Len(s) <= Len(t)
      /\ m \in Nat /\ x \in Nat /\ x <= Len(s) /\ n = by + m /\ y = by + x
  BY DEF Stretch
<1>3. \A j \in (m + 1)..x : s[j] \in Bytes
  BY <1>2 DEF Stretch
<1>4. \A j \in (n + 1)..y : t[j] \in Bytes
  BY <1>2 DEF Stretch
<1>5. /\ u \in Seq(Bytes) /\ Len(u) = IF m + 1 <= x THEN x - (m + 1) + 1 ELSE 0
      /\ \A j \in 1..(x - (m + 1) + 1) : u[j] = s[(m + 1) + j - 1]
  <2>1. m + 1 \in Int /\ x \in Int
    BY <1>2
  <2> QED
    BY <1>1, <1>3, <2>1, SubSeqProperties
<1>6. /\ v \in Seq(Bytes) /\ Len(v) = IF n + 1 <= y THEN y - (n + 1) + 1 ELSE 0
      /\ \A j \in 1..(y - (n + 1) + 1) : v[j] = t[(n + 1) + j - 1]
  <2>1. n + 1 \in Int /\ y \in Int
    BY <1>2
  <2> QED
    BY <1>1, <1>4, <2>1, SubSeqProperties
<1>7. Len(u) = Len(v)
  BY <1>2, <1>5, <1>6
<1>8. \A j \in 1..Len(u) : u[j] = v[j]
  <2> SUFFICES ASSUME NEW j \in 1..Len(u) PROVE u[j] = v[j]
    OBVIOUS
  <2>1. /\ j \in 1..(x - (m + 1) + 1) /\ j \in 1..(y - (n + 1) + 1)
        /\ (m + 1) + j - 1 = m + j /\ (n + 1) + j - 1 = by + (m + j) /\ m + j \in 1..Len(s)
    BY <1>2, <1>5
  <2>2. u[j] = s[m + j] /\ v[j] = t[by + (m + j)]
    BY <1>5, <1>6, <2>1
  <2>3. s[m + j] = t[by + (m + j)]
    BY <2>1 DEF Stretch
  <2> QED
    BY <2>2, <2>3
<1> QED
  <2>1. u = v
    BY <1>5, <1>6, <1>7, <1>8, SeqEqual
  <2> QED
    BY <1>1, <2>1 DEF Behind

\* A front of a stretch at the beginning is one of the sequence.
LEMMA SameFront ==
  ASSUME NEW s, NEW t, Stretch(s, t, 0), NEW x \in 0..Len(s)
  PROVE  Behind(s, 0, x) = Behind(t, 0, x)
<1>1. 0 \in Nat /\ 0 = 0 + 0 /\ x = 0 + x
  OBVIOUS
<1> QED
  BY <1>1, SameBytes

\* Two cursors at the same byte frame the same record.
LEMMA FramedSame ==
  ASSUME NEW s, NEW t, NEW by, Stretch(s, t, by), NEW r \in Runs, NEW u \in Runs,
         u.from = by + r.from, NEW i \in 1..Len(s), NEW k, k = by + i
  PROVE  /\ Framed(s, r, i).payload = Framed(t, u, k).payload
         /\ Framed(s, r, i).closed = Framed(t, u, k).closed
<1>1. s[i] = t[k]
  BY DEF Stretch
<1>2. PICK x, y : /\ x = (IF s[i].kind = "lf" THEN i - 1 ELSE i)
                  /\ y = (IF t[k].kind = "lf" THEN k - 1 ELSE k)
  OBVIOUS
<1>3. by \in Nat /\ r.from \in Nat /\ Len(s) \in Nat
  BY DEF Stretch, Runs
<1>4. x \in 0..Len(s) /\ y = by + x
  BY <1>1, <1>2, <1>3
<1>5. Behind(s, r.from, x) = Behind(t, u.from, y)
  <2>1. PICK m, n : m = r.from /\ n = u.from
    OBVIOUS
  <2>2. m \in Nat /\ n = by + m /\ x \in 0..Len(s) /\ y = by + x
    BY <1>3, <1>4, <2>1
  <2>3. Behind(s, m, x) = Behind(t, n, y)
    BY <2>2, SameBytes
  <2> QED
    BY <2>1, <2>3
<1>6. SubSeq(s, r.from + 1, x) = SubSeq(t, u.from + 1, y)
  BY <1>5 DEF Behind
<1> QED
  BY <1>1, <1>2, <1>6 DEF Framed

\* A record is judged by its bytes.
LEMMA JudgedSame ==
  ASSUME NEW a, NEW b, a.payload = b.payload, a.closed = b.closed
  PROVE  Judged(a) = Judged(b) /\ Items(a) = Items(b)
BY DEF Judged, Items, Text

\* Up to the end of a record, a drive and a longer one are the same.
LEMMA PrefixSame ==
  ASSUME NEW p \in Kept, NEW t \in Seq(Bytes), NEW cap \in Nat, NEW e \in 1..Len(t), IsEnd(t, e)
  PROVE  Drive(p, SubSeq(t, 1, e), cap) = After(p, t, cap)[e]
<1>1. PICK s, f, g : s = SubSeq(t, 1, e) /\ f = After(p, s, cap) /\ g = After(p, t, cap)
  OBVIOUS
<1>2. Stretch(s, t, 0) /\ Len(s) = e /\ s \in Seq(Bytes)
  <2>1. e \in 0..Len(t) /\ 0 + 1 = 1 /\ 0 \in Nat /\ e - 0 = e
    OBVIOUS
  <2>2. Stretch(SubSeq(t, 0 + 1, e), t, 0) /\ Len(SubSeq(t, 0 + 1, e)) = e - 0
    BY <2>1, SubSeqStretch
  <2> QED
    BY <1>1, <2>1, <2>2 DEF Stretch
<1>3. IsDrive(p, s, cap, f) /\ Drive(p, s, cap) = f[e]
  BY <1>1, <1>2, DriveIsDrive
<1>4. IsDrive(p, t, cap, g)
  BY <1>1, DriveIsDrive
<1>5. \A j \in 1..e : s[j] = t[j] /\ (IsEnd(s, j) <=> IsEnd(t, j))
  BY <1>2 DEF Stretch, IsEnd
<1>6. Started(p, s) = Started(p, t)
  <2>1. s # <<>> /\ t # <<>> /\ s[1] = t[1]
    BY <1>2, <1>5
  <2> QED
    BY <2>1 DEF Started, StartsWithMark
<1>7. ASSUME NEW run \in Runs, NEW k \in 1..e
      PROVE  Advance(s, run, k, cap) = Advance(t, run, k, cap)
  <2>1. k \in 1..Len(s) /\ k = 0 + k /\ run.from = 0 + run.from
    BY <1>2 DEF Runs
  <2>2. /\ Framed(s, run, k).payload = Framed(t, run, k).payload
        /\ Framed(s, run, k).closed = Framed(t, run, k).closed
    BY <1>2, <2>1, FramedSame
  <2>3. Framed(s, run, k) = Framed(t, run, k)
    BY <2>2 DEF Framed
  <2> QED
    BY <1>5, <2>3 DEF Advance
<1> DEFINE P == {k \in 0..e : f[k] = g[k]}
<1>8. 0 \in P
  BY <1>3, <1>4, <1>6 DEF IsDrive
<1>9. ASSUME NEW k \in 1..e, k - 1 \in P PROVE k \in P
  <2>1. k \in 1..Len(s) /\ k \in 1..Len(t) /\ k - 1 \in 0..Len(s) /\ f[k - 1] = g[k - 1]
    BY <1>2, <1>9
  <2>2. f[k - 1] \in Runs /\ f[k] = Advance(s, f[k - 1], k, cap) /\ g[k] = Advance(t, g[k - 1], k, cap)
    BY <1>3, <1>4, <2>1 DEF IsDrive, Capped
  <2> QED
    BY <1>7, <2>1, <2>2
<1>10. P = 0..e
  <2> HIDE DEF P
  <2>1. P \in SUBSET (0..e) /\ e \in Nat
    BY DEF P
  <2> QED
    BY <1>8, <1>9, <2>1, EachStage
<1> QED
  BY <1>1, <1>3, <1>10

-----------------------------------------------------------------------------
(* What a record adds.                                                     *)

NewItems(record) == IF Judged(record) = "value" THEN Items(record) ELSE <<>>

NewReports(p, record) ==
  CASE Judged(record) = "raised" -> <<Report("raised", 0, 0)>>
    [] Judged(record) \in {"blank", "malformed"} /\ p = "recovering" ->
         <<Report(Judged(record), record.ordinal, record.offset)>>
    [] OTHER -> <<>>

Outcome(p, record) ==
  IF Judged(record) \in {"blank", "malformed"} /\ p = "strict" THEN "fault" ELSE "none"

\* The items and the reports of one record are sequences.
LEMMA NewTyped ==
  ASSUME NEW record \in FramedRecords, NEW p
  PROVE  NewItems(record) \in Seq(Nat) /\ NewReports(p, record) \in Seq(Reports)
<1>1. NewItems(record) \in Seq(Nat)
  <2>1. <<>> \in Seq(Nat)
    OBVIOUS
  <2> QED
    BY <2>1, ItemsTyped DEF NewItems
<1>2. NewReports(p, record) \in Seq(Reports)
  <2>1. /\ record.ordinal \in Nat /\ record.offset \in Nat /\ <<>> \in Seq(Reports)
        /\ Report("raised", 0, 0) \in Reports
    BY DEF FramedRecords, Report, Reports
  <2>2. \A e \in Reports : <<e>> \in Seq(Reports)
    OBVIOUS
  <2>3. ASSUME Judged(record) \in {"blank", "malformed"}
        PROVE  Report(Judged(record), record.ordinal, record.offset) \in Reports
    BY <2>1, <2>3 DEF Report, Reports
  <2> QED
    BY <2>1, <2>2, <2>3 DEF NewReports
<1> QED
  BY <1>1, <1>2

\* What an end of a record does to a run that goes on.
StepsOn(run, record, cap, step) ==
  /\ step.stop # "sink" =>
       /\ step.out = run.out \o NewItems(record)
       /\ step.stop = Outcome(run.profile, record)
       /\ step.stop = "fault" => step.offset = record.offset
  /\ step.reports = run.reports \o NewReports(run.profile, record)
  /\ step.stop = "sink" =>
       /\ Judged(record) = "value" /\ Len(run.out) + ItemsPerValue > cap
       /\ step.out = SubSeq(run.out \o NewItems(record), 1, cap)

\* A record adds its items and its reports.
LEMMA EffectsAdd ==
  ASSUME NEW run \in Runs, NEW record \in FramedRecords, NEW cap \in Nat, NEW next,
         Effects(run, record, cap, next)
  PROVE  StepsOn(run, record, cap, next)
<1>1. PICK out, reps : out = run.out /\ reps = run.reports
  OBVIOUS
<1>2. out \in Seq(Nat) /\ reps \in Seq(Reports) /\ run.profile \in Kept /\ Len(out) \in Nat /\ ItemsPerValue \in Nat
  BY <1>1, DriveAssumption DEF Runs
<1>3. out \o <<>> = out /\ reps \o <<>> = reps
  BY <1>2, ConcatEmptySeq
<1>4. \A e \in Reports : Append(reps, e) = reps \o <<e>>
  BY <1>2, AppendIsConcat
<1>5. record.ordinal \in Nat /\ record.offset \in Nat
  BY DEF FramedRecords
<1>6. Judged(record) \in {"skip", "blank", "value", "raised", "malformed"}
  BY TextsDiffer
<1>7. CASE Judged(record) = "skip"
  BY <1>1, <1>3, <1>7 DEF Effects, StepsOn, NewItems, NewReports, Outcome
<1>8. CASE Judged(record) = "raised"
  <2>1. Report("raised", 0, 0) \in Reports
    BY DEF Report, Reports
  <2>2. Append(reps, Report("raised", 0, 0)) = reps \o <<Report("raised", 0, 0)>>
    BY <1>4, <2>1
  <2> QED
    BY <1>1, <1>3, <1>8, <2>2 DEF Effects, StepsOn, NewItems, NewReports, Outcome
<1>9. CASE Judged(record) \in {"blank", "malformed"}
  <2>1. PICK e : e = Report(Judged(record), record.ordinal, record.offset)
    OBVIOUS
  <2>2. e \in Reports
    BY <1>5, <1>9, <2>1 DEF Report, Reports
  <2>3. Append(reps, e) = reps \o <<e>>
    BY <1>4, <2>2
  <2>4. CASE run.profile = "recovering"
    BY <1>1, <1>3, <1>9, <2>1, <2>3, <2>4 DEF Effects, StepsOn, NewItems, NewReports, Outcome
  <2>5. CASE run.profile = "strict"
    BY <1>1, <1>3, <1>9, <2>5 DEF Effects, StepsOn, NewItems, NewReports, Outcome
  <2> QED
    BY <1>2, <2>4, <2>5 DEF Kept
<1>10. CASE Judged(record) = "value"
  <2>1. /\ NewItems(record) = Items(record) /\ NewReports(run.profile, record) = <<>>
        /\ Outcome(run.profile, record) = "none"
    BY <1>10 DEF NewItems, NewReports, Outcome
  <2>2. next.reports = run.reports \o NewReports(run.profile, record)
    BY <1>1, <1>3, <1>10, <2>1 DEF Effects
  <2>3. CASE Len(run.out) + ItemsPerValue <= cap
    <3>1. next.stop = "none" /\ next.out = run.out \o Items(record)
      BY <1>10, <2>3 DEF Effects
    <3> QED
      BY <2>1, <2>2, <3>1 DEF StepsOn
  <2>4. CASE Len(run.out) + ItemsPerValue > cap
    <3>1. next.stop = "sink" /\ next.out = SubSeq(run.out \o Items(record), 1, cap)
      BY <1>10, <2>4 DEF Effects
    <3> QED
      BY <1>10, <2>1, <2>2, <2>4, <3>1 DEF StepsOn
  <2> QED
    BY <1>1, <1>2, <2>3, <2>4
<1> QED
  BY <1>6, <1>7, <1>8, <1>9, <1>10

\* One step of a drive: it stays, or adds what the record adds.
LEMMA AdvanceAdds ==
  ASSUME NEW bytes \in Seq(Bytes), NEW cap \in Nat, NEW run \in Capped(cap), NEW i \in 1..Len(bytes),
         IsEnd(bytes, i), run.stop = "none"
  PROVE  LET step == Advance(bytes, run, i, cap)
         IN  /\ step \in Capped(cap) /\ step.from = i /\ step.ordinal = run.ordinal + 1
             /\ step.profile = run.profile
             /\ Framed(bytes, run, i) \in FramedRecords
             /\ StepsOn(run, Framed(bytes, run, i), cap, step)
<1>1. run \in Runs /\ Len(run.out) <= cap
  BY DEF Capped
<1>2. PICK step, record, next : /\ step = Advance(bytes, run, i, cap)
                                /\ record = Framed(bytes, run, i)
                                /\ next = Run(run, record, cap)
  OBVIOUS
<1>3. /\ step \in Runs /\ Len(step.out) <= cap /\ step.profile = run.profile
      /\ step.from = i /\ step.ordinal = run.ordinal + 1
      /\ step.out = next.out /\ step.reports = next.reports
      /\ step.stop = next.stop /\ step.offset = next.offset
      /\ Effects(run, record, cap, next)
  BY <1>1, <1>2, AdvanceIs
<1>4. record \in FramedRecords
  BY <1>1, <1>2, FramedTyped
<1>5. StepsOn(run, record, cap, next)
  BY <1>1, <1>3, <1>4, EffectsAdd
<1>6. StepsOn(run, record, cap, step)
  BY <1>3, <1>5 DEF StepsOn
<1> QED
  BY <1>2, <1>3, <1>4, <1>6 DEF Capped

-----------------------------------------------------------------------------
(* A drive whose cap is ample never meets it, and only adds.               *)

\* Multiples grow with what is multiplied.
LEMMA MultiplesGrow ==
  ASSUME NEW m \in Nat, NEW a \in Nat, NEW b \in Nat
  PROVE  /\ m * a \in Nat
         /\ a <= b => m * a <= m * b
         /\ a < b => m * a + m <= m * b
<1>1. \A d \in Nat : m * d \in Nat /\ m * (a + d) = m * a + m * d
  OBVIOUS
<1>2. a < b => m * (a + 1) = m * a + m
  OBVIOUS
<1>3. ASSUME a <= b PROVE m * a <= m * b
  <2>1. PICK d \in Nat : b = a + d
    <3>1. b - a \in Nat /\ b = a + (b - a)
      BY <1>3
    <3> QED
      BY <3>1
  <2>2. m * d \in Nat /\ m * b = m * a + m * d /\ m * a \in Nat
    BY <1>1, <2>1
  <2> QED
    BY <2>2
<1>4. ASSUME a < b PROVE m * a + m <= m * b
  <2>1. PICK d \in Nat : b = (a + 1) + d
    <3>1. b - (a + 1) \in Nat /\ b = (a + 1) + (b - (a + 1))
      BY <1>4
    <3> QED
      BY <3>1
  <2>2. m * b = m * (a + 1) + m * d /\ m * d \in Nat /\ m * (a + 1) = m * a + m /\ m * a \in Nat
    BY <1>2, <1>4, <2>1
  <2> QED
    BY <2>2
<1> QED
  BY <1>3, <1>4

Ample(bytes, cap) == ItemsPerValue * Len(bytes) <= cap

\* No more items than the cursor allows for, and no stop of the sink's.
Within(run) == run.stop # "sink" /\ Len(run.out) <= ItemsPerValue * run.from

\* A step stays within.
LEMMA WithinStep ==
  ASSUME NEW bytes \in Seq(Bytes), NEW cap \in Nat, Ample(bytes, cap), NEW run \in Capped(cap),
         NEW i \in 1..Len(bytes), Sound(bytes, run, i - 1), Within(run)
  PROVE  Within(Advance(bytes, run, i, cap))
<1>1. PICK step, record : step = Advance(bytes, run, i, cap) /\ record = Framed(bytes, run, i)
  OBVIOUS
<1>2. /\ run \in Runs /\ Len(run.out) <= cap /\ run.from \in Nat /\ ItemsPerValue \in Nat
      /\ Len(run.out) \in Nat /\ run.out \in Seq(Nat) /\ Len(bytes) \in Nat /\ i \in Nat /\ i <= Len(bytes)
  BY DriveAssumption DEF Capped, Runs
<1>3. CASE ~(IsEnd(bytes, i) /\ run.stop = "none")
  <2>1. step = run
    BY <1>1, <1>2, <1>3, AdvanceIs
  <2> QED
    BY <1>1, <2>1
<1>4. CASE IsEnd(bytes, i) /\ run.stop = "none"
  <2>1. /\ step \in Capped(cap) /\ step.from = i /\ StepsOn(run, record, cap, step)
        /\ record \in FramedRecords
    BY <1>1, <1>4, AdvanceAdds
  <2>2. run.from <= i
    BY <1>2 DEF Sound
  <2>3. PICK before, now, all : /\ before = ItemsPerValue * run.from /\ now = ItemsPerValue * i
                                /\ all = ItemsPerValue * Len(bytes)
    OBVIOUS
  <2>4. before \in Nat /\ now \in Nat /\ all \in Nat /\ before <= now /\ now <= all /\ all <= cap
    BY <1>2, <2>2, <2>3, MultiplesGrow DEF Ample
  <2>5. CASE Judged(record) # "value"
    <3>1. step.stop # "sink" /\ step.out = run.out
      <4>1. run.out \o <<>> = run.out
        BY <1>2, ConcatEmptySeq
      <4> QED
        BY <2>1, <2>5, <4>1 DEF StepsOn, NewItems
    <3> QED
      BY <1>1, <1>2, <2>1, <2>3, <2>4, <3>1 DEF Within
  <2>6. CASE Judged(record) = "value"
    <3>1. run.from < i
      BY <1>1, <1>2, <2>6, RecordHasBytes DEF Sound
    <3>2. before + ItemsPerValue <= now
      BY <1>2, <2>3, <3>1, MultiplesGrow
    <3>3. Len(run.out) <= before
      BY <2>3 DEF Within
    <3>4. Len(run.out) + ItemsPerValue <= cap
      BY <1>2, <2>4, <3>2, <3>3
    <3>5. step.stop # "sink" /\ step.out = run.out \o Items(record)
      BY <1>2, <2>1, <2>6, <3>4 DEF StepsOn, NewItems
    <3>6. Len(run.out \o Items(record)) = Len(run.out) + ItemsPerValue
      <4>1. Items(record) \in Seq(Nat) /\ Len(Items(record)) = ItemsPerValue /\ run.out \in Seq(Nat)
        BY <1>2, <2>1, <2>6, ItemsTyped
      <4> QED
        BY <4>1, ConcatProperties
    <3>7. Len(step.out) <= now
      BY <1>2, <2>4, <3>2, <3>3, <3>5, <3>6
    <3> QED
      BY <1>1, <2>1, <2>3, <3>5, <3>7 DEF Within
  <2> QED
    BY <2>5, <2>6
<1> QED
  BY <1>3, <1>4

\* So the whole drive does.
LEMMA DriveWithin ==
  ASSUME NEW p \in Kept, NEW bytes \in Seq(Bytes), NEW cap \in Nat, Ample(bytes, cap),
         NEW f, IsDrive(p, bytes, cap, f), NEW k \in 0..Len(bytes)
  PROVE  Within(f[k])
<1> DEFINE P == {j \in 0..Len(bytes) : Within(f[j])}
<1>1. 0 \in P
  <2>1. PICK run : run = Started(p, bytes)
    OBVIOUS
  <2>2. run.from \in Nat /\ Len(run.out) = 0 /\ run.stop # "sink" /\ ItemsPerValue \in Nat
    BY <2>1, StartedIs, DriveAssumption DEF Runs
  <2>3. ItemsPerValue * run.from \in Nat
    BY <2>2, MultiplesGrow
  <2> QED
    BY <2>1, <2>2, <2>3 DEF IsDrive, Within
<1>2. ASSUME NEW j \in 1..Len(bytes), j - 1 \in P PROVE j \in P
  <2>1. /\ f[j] = Advance(bytes, f[j - 1], j, cap) /\ f[j - 1] \in Capped(cap)
        /\ j - 1 \in 0..Len(bytes)
    BY DEF IsDrive
  <2>2. Sound(bytes, f[j - 1], j - 1)
    BY <2>1, DriveSound
  <2> QED
    BY <1>2, <2>1, <2>2, WithinStep
<1> QED
  <2> HIDE DEF P
  <2>1. P \in SUBSET (0..Len(bytes))
    BY DEF P
  <2>2. P = 0..Len(bytes)
    BY <1>1, <1>2, <2>1, EachStage
  <2> QED
    BY <2>2 DEF P

\* One run is the beginning of another.
Adds(r, u) ==
  /\ Begins(Nat, r.out, u.out) /\ Begins(Reports, r.reports, u.reports)
  /\ r.stop # "none" => u = r

\* What a drive has done stays done; a stop is for good.
LEMMA DriveAdds ==
  ASSUME NEW p \in Kept, NEW bytes \in Seq(Bytes), NEW cap \in Nat, Ample(bytes, cap),
         NEW f, IsDrive(p, bytes, cap, f), NEW m \in 0..Len(bytes), NEW k \in m..Len(bytes)
  PROVE  Adds(f[m], f[k])
<1> DEFINE P == {j \in 0..Len(bytes) : j < m \/ Adds(f[m], f[j])}
<1>1. \A j \in 0..Len(bytes) : f[j] \in Capped(cap) /\ f[j] \in Runs
  BY DEF IsDrive, Capped
<1>2. Adds(f[m], f[m])
  <2>1. f[m].out \in Seq(Nat) /\ f[m].reports \in Seq(Reports)
    BY <1>1 DEF Runs
  <2> QED
    BY <2>1, BeginsReflexive DEF Adds
<1>3. ASSUME NEW j \in 1..Len(bytes), j - 1 \in P PROVE j \in P
  <2>1. CASE j <= m
    BY <1>2, <2>1
  <2>2. CASE m < j
    <3>1. PICK run, step, record : /\ run = f[j - 1] /\ step = f[j]
                                   /\ record = Framed(bytes, run, j)
      OBVIOUS
    <3>2. j - 1 \in 0..Len(bytes) /\ ~(j - 1 < m)
      BY <2>2
    <3>3. Adds(f[m], run)
      BY <1>3, <3>1, <3>2
    <3>4. /\ step = Advance(bytes, run, j, cap) /\ run \in Capped(cap) /\ run \in Runs
          /\ Len(run.out) <= cap /\ step \in Runs
      BY <1>1, <3>1, <3>2 DEF IsDrive, Capped
    <3>5. CASE ~(IsEnd(bytes, j) /\ run.stop = "none")
      <4>1. step = run
        BY <3>4, <3>5, AdvanceIs
      <4>2. Adds(f[m], f[j]) /\ j \in 0..Len(bytes)
        BY <3>1, <3>3, <4>1
      <4> QED
        BY <4>2
    <3>6. CASE IsEnd(bytes, j) /\ run.stop = "none"
      <4>1. StepsOn(run, record, cap, step) /\ record \in FramedRecords
        BY <3>1, <3>4, <3>6, AdvanceAdds
      <4>2. Within(step)
        BY <3>1, DriveWithin
      <4>3. NewItems(record) \in Seq(Nat) /\ NewReports(run.profile, record) \in Seq(Reports)
        BY <4>1, NewTyped
      <4>4. Begins(Nat, run.out, step.out) /\ Begins(Reports, run.reports, step.reports)
        BY <4>1, <4>2, <4>3 DEF StepsOn, Within, Begins
      <4>5. /\ f[m].out \in Seq(Nat) /\ run.out \in Seq(Nat)
            /\ f[m].reports \in Seq(Reports) /\ run.reports \in Seq(Reports)
        BY <1>1, <3>4 DEF Runs
      <4>6. Begins(Nat, f[m].out, step.out) /\ Begins(Reports, f[m].reports, step.reports)
        BY <3>3, <4>4, <4>5, BeginsTransitive DEF Adds
      <4>7. f[m].stop = "none"
        BY <3>3, <3>6 DEF Adds
      <4> QED
        BY <3>1, <4>6, <4>7 DEF Adds
    <3> QED
      BY <3>5, <3>6
  <2> QED
    BY <2>1, <2>2
<1>4. P = 0..Len(bytes)
  <2>1. 0 \in P
    <3>1. m = 0 \/ 0 < m
      OBVIOUS
    <3> QED
      BY <1>2, <3>1
  <2> HIDE DEF P
  <2>2. P \in SUBSET (0..Len(bytes))
    BY DEF P
  <2> QED
    BY <1>3, <2>1, <2>2, EachStage
<1> QED
  <2>1. k \in 0..Len(bytes) /\ ~(k < m)
    OBVIOUS
  <2> QED
    BY <1>4, <2>1

-----------------------------------------------------------------------------
(* A stretch driven by itself, and within the whole.                       *)

\* A report of a stretch, told of the stream.
RebasedBy(report, at, o) ==
  IF report.code = "raised" THEN report
  ELSE [report EXCEPT !.ordinal = @ + o, !.offset = @ + at]
Told(told, at, o) == [i \in DOMAIN told |-> RebasedBy(told[i], at, o)]

\* Told reports are reports, and are told one by one.
LEMMA ToldTyped ==
  ASSUME NEW s \in Seq(Reports), NEW at \in Nat, NEW o \in Nat
  PROVE  /\ Told(s, at, o) \in Seq(Reports) /\ Len(Told(s, at, o)) = Len(s)
         /\ \A i \in 1..Len(s) : Told(s, at, o)[i] = RebasedBy(s[i], at, o)
<1>1. DOMAIN s = 1..Len(s) /\ Len(s) \in Nat /\ \A i \in 1..Len(s) : s[i] \in Reports
  OBVIOUS
<1>2. ASSUME NEW r \in Reports PROVE RebasedBy(r, at, o) \in Reports
  <2>1. r.ordinal + o \in Nat /\ r.offset + at \in Nat
    BY DEF Reports
  <2>2. [r EXCEPT !.ordinal = @ + o, !.offset = @ + at] \in Reports
    BY <2>1 DEF Reports
  <2> QED
    BY <2>2 DEF RebasedBy
<1>3. Told(s, at, o) \in [1..Len(s) -> Reports]
  BY <1>1, <1>2 DEF Told
<1>4. \A i \in 1..Len(s) : Told(s, at, o)[i] = RebasedBy(s[i], at, o)
  BY <1>1 DEF Told
<1> QED
  BY <1>1, <1>3, <1>4, TableIsSeq

ToldOfEach(s, t, at, o) == Told(s \o t, at, o) = Told(s, at, o) \o Told(t, at, o)

\* What is told of both is told of each.
LEMMA ToldBoth ==
  ASSUME NEW s \in Seq(Reports), NEW t \in Seq(Reports), NEW at \in Nat, NEW o \in Nat
  PROVE  ToldOfEach(s, t, at, o)
<1>1. PICK st, a, b : st = s \o t /\ a = Told(s, at, o) /\ b = Told(t, at, o)
  OBVIOUS
<1>2. /\ st \in Seq(Reports) /\ Len(st) = Len(s) + Len(t) /\ Len(s) \in Nat /\ Len(t) \in Nat
      /\ \A i \in 1..(Len(s) + Len(t)) : st[i] = IF i <= Len(s) THEN s[i] ELSE t[i - Len(s)]
  BY <1>1, ConcatProperties
<1>3. /\ a \in Seq(Reports) /\ Len(a) = Len(s) /\ \A i \in 1..Len(s) : a[i] = RebasedBy(s[i], at, o)
      /\ b \in Seq(Reports) /\ Len(b) = Len(t) /\ \A i \in 1..Len(t) : b[i] = RebasedBy(t[i], at, o)
  BY <1>1, ToldTyped
<1>4. PICK both, ab : both = Told(st, at, o) /\ ab = a \o b
  OBVIOUS
<1>5. /\ both \in Seq(Reports) /\ Len(both) = Len(st)
      /\ \A i \in 1..Len(st) : both[i] = RebasedBy(st[i], at, o)
  BY <1>2, <1>4, ToldTyped
<1>6. /\ ab \in Seq(Reports) /\ Len(ab) = Len(s) + Len(t)
      /\ \A i \in 1..(Len(s) + Len(t)) : ab[i] = IF i <= Len(s) THEN a[i] ELSE b[i - Len(s)]
  <2>1. /\ a \o b \in Seq(Reports) /\ Len(a \o b) = Len(a) + Len(b)
        /\ \A i \in 1..(Len(a) + Len(b)) : (a \o b)[i] = IF i <= Len(a) THEN a[i] ELSE b[i - Len(a)]
    <3>1. a \in Seq(Reports) /\ b \in Seq(Reports)
      BY <1>3
    <3> QED
      BY <3>1, ConcatProperties
  <2> QED
    BY <1>3, <1>4, <2>1
<1>7. \A i \in 1..Len(both) : both[i] = ab[i]
  <2> SUFFICES ASSUME NEW i \in 1..Len(both) PROVE both[i] = ab[i]
    OBVIOUS
  <2>1. i \in 1..(Len(s) + Len(t)) /\ both[i] = RebasedBy(st[i], at, o)
    BY <1>2, <1>5
  <2>2. CASE i <= Len(s)
    <3>1. i \in 1..Len(s) /\ st[i] = s[i] /\ ab[i] = a[i]
      BY <1>2, <1>6, <2>1, <2>2
    <3> QED
      BY <1>3, <2>1, <3>1
  <2>3. CASE i > Len(s)
    <3>1. i - Len(s) \in 1..Len(t) /\ ~(i <= Len(s))
      BY <1>2, <2>1, <2>3
    <3>2. st[i] = t[i - Len(s)] /\ ab[i] = b[i - Len(s)]
      BY <1>2, <1>6, <2>1, <3>1
    <3> QED
      BY <1>3, <2>1, <3>1, <3>2
  <2> QED
    BY <1>2, <2>1, <2>2, <2>3
<1>8. both = ab
  BY <1>2, <1>5, <1>6, <1>7, SeqEqual
<1> QED
  BY <1>1, <1>4, <1>8 DEF ToldOfEach

\* The reports of one record, told of the stream.
LEMMA ToldNew ==
  ASSUME NEW p, NEW a \in FramedRecords, NEW b \in FramedRecords, NEW at \in Nat, NEW o \in Nat,
         a.payload = b.payload, a.closed = b.closed,
         b.ordinal = o + a.ordinal, b.offset = at + a.offset
  PROVE  Told(NewReports(p, a), at, o) = NewReports(p, b)
<1>1. Judged(a) = Judged(b)
  BY JudgedSame
<1>2. a.ordinal \in Nat /\ a.offset \in Nat
  BY DEF FramedRecords
<1>3. ASSUME NEW r \in Reports PROVE Told(<<r>>, at, o) = <<RebasedBy(r, at, o)>>
  BY DEF Told
<1>4. Told(<<>>, at, o) = <<>>
  BY DEF Told
<1>5. CASE Judged(a) = "raised"
  <2>1. Report("raised", 0, 0) \in Reports /\ RebasedBy(Report("raised", 0, 0), at, o) = Report("raised", 0, 0)
    BY DEF RebasedBy, Report, Reports
  <2>2. Told(<<Report("raised", 0, 0)>>, at, o) = <<Report("raised", 0, 0)>>
    BY <1>3, <2>1
  <2> QED
    BY <1>1, <1>5, <2>2 DEF NewReports
<1>6. CASE Judged(a) \in {"blank", "malformed"} /\ p = "recovering"
  <2>1. PICK r, u : r = Report(Judged(a), a.ordinal, a.offset) /\ u = Report(Judged(b), b.ordinal, b.offset)
    OBVIOUS
  <2>2. r \in Reports
    BY <1>2, <1>6, <2>1 DEF Report, Reports
  <2>3. RebasedBy(r, at, o) = [code |-> r.code, ordinal |-> r.ordinal + o, offset |-> r.offset + at]
    BY <1>6, <2>1, <2>2 DEF RebasedBy, Report, Reports
  <2>4. RebasedBy(r, at, o) = u
    BY <1>1, <1>2, <2>1, <2>3 DEF Report
  <2>5. Told(<<r>>, at, o) = <<u>>
    BY <1>3, <2>2, <2>4
  <2> QED
    BY <1>1, <1>6, <2>1, <2>5 DEF NewReports
<1>7. CASE ~(Judged(a) = "raised" \/ (Judged(a) \in {"blank", "malformed"} /\ p = "recovering"))
  BY <1>1, <1>4, <1>7 DEF NewReports
<1> QED
  BY <1>5, <1>6, <1>7

\* `b` is the run over a stretch, at bytes into the stream and behind o ordinals;
\* `w` the run over the stream, which had published `out` and reported `told`
\* where the stretch begins.
Alike(w, b, out, told, at, o) ==
  /\ w.profile = b.profile
  /\ b.stop # "sink" =>
       /\ w.stop = b.stop
       /\ w.out = out \o b.out /\ w.reports = told \o Told(b.reports, at, o)
  /\ b.stop = "none" => w.from = at + b.from /\ w.ordinal = o + b.ordinal
  /\ b.stop = "fault" => w.offset = at + b.offset
  /\ b.stop = "sink" =>
       /\ Begins(Nat, out \o b.out, w.out)
       /\ Begins(Reports, told \o Told(b.reports, at, o), w.reports)

\* Both run the same record.
LEMMA AlikeRecord ==
  ASSUME NEW s, NEW t, NEW at, Stretch(s, t, at), NEW w \in Runs, NEW b \in Runs,
         NEW out, NEW told, NEW o \in Nat, Alike(w, b, out, told, at, o), b.stop = "none",
         NEW i \in 1..Len(s), NEW k, k = at + i
  PROVE  LET rb == Framed(s, b, i)
             rw == Framed(t, w, k)
         IN  /\ rb \in FramedRecords /\ rw \in FramedRecords
             /\ rb.payload = rw.payload /\ rb.closed = rw.closed
             /\ Judged(rb) = Judged(rw) /\ NewItems(rb) = NewItems(rw)
             /\ rw.ordinal = o + rb.ordinal /\ rw.offset = at + rb.offset
             /\ Told(NewReports(b.profile, rb), at, o) = NewReports(w.profile, rw)
             /\ Outcome(b.profile, rb) = Outcome(w.profile, rw)
<1>1. PICK rb, rw : rb = Framed(s, b, i) /\ rw = Framed(t, w, k)
  OBVIOUS
<1>2. s \in Seq(Bytes) /\ t \in Seq(Bytes) /\ at \in Nat /\ k \in 1..Len(t)
  BY DEF Stretch
<1>3. rb \in FramedRecords /\ rw \in FramedRecords
  BY <1>1, <1>2, FramedTyped
<1>4. w.from = at + b.from /\ w.ordinal = o + b.ordinal /\ w.profile = b.profile
  BY DEF Alike
<1>5. rb.payload = rw.payload /\ rb.closed = rw.closed
  BY <1>1, <1>4, FramedSame
<1>6. rw.ordinal = o + rb.ordinal /\ rw.offset = at + rb.offset
  BY <1>1, <1>4 DEF Framed
<1>7. Judged(rb) = Judged(rw) /\ NewItems(rb) = NewItems(rw) /\ Outcome(b.profile, rb) = Outcome(w.profile, rw)
  BY <1>4, <1>5, JudgedSame DEF NewItems, Outcome
<1>8. Told(NewReports(b.profile, rb), at, o) = NewReports(w.profile, rw)
  BY <1>2, <1>3, <1>4, <1>5, <1>6, ToldNew
<1> QED
  BY <1>1, <1>3, <1>5, <1>6, <1>7, <1>8

\* The same record keeps them alike.
LEMMA AlikeRuns ==
  ASSUME NEW s, NEW t, NEW at, Stretch(s, t, at), at + Len(s) = Len(t),
         NEW capS \in Nat, NEW capT \in Nat, NEW b \in Capped(capS), NEW w \in Capped(capT),
         NEW out \in Seq(Nat), NEW told \in Seq(Reports), NEW o \in Nat,
         Alike(w, b, out, told, at, o), b.stop = "none",
         NEW i \in 1..Len(s), NEW k, k = at + i, IsEnd(s, i),
         NEW u, u = Advance(t, w, k, capT), Within(u), NEW c, c = Advance(s, b, i, capS)
  PROVE  Alike(u, c, out, told, at, o)
<1>1. PICK rb, rw : rb = Framed(s, b, i) /\ rw = Framed(t, w, k)
  OBVIOUS
<1>2. /\ s \in Seq(Bytes) /\ t \in Seq(Bytes) /\ at \in Nat /\ k \in 1..Len(t) /\ s[i] = t[k]
      /\ Len(s) \in Nat /\ Len(t) \in Nat /\ i \in Nat
  BY DEF Stretch
<1>3. b \in Runs /\ w \in Runs /\ Len(b.out) <= capS
  BY DEF Capped
<1>4. w.stop = "none" /\ w.out = out \o b.out /\ w.reports = told \o Told(b.reports, at, o)
      /\ w.from = at + b.from /\ w.ordinal = o + b.ordinal /\ w.profile = b.profile
  BY DEF Alike
<1>5. IsEnd(t, k)
  BY <1>2 DEF IsEnd
<1>6. /\ rb \in FramedRecords /\ rw \in FramedRecords
      /\ Judged(rb) = Judged(rw) /\ NewItems(rb) = NewItems(rw)
      /\ rw.offset = at + rb.offset
      /\ Told(NewReports(b.profile, rb), at, o) = NewReports(w.profile, rw)
      /\ Outcome(b.profile, rb) = Outcome(w.profile, rw)
  BY <1>1, <1>3, AlikeRecord
<1>7. /\ c \in Capped(capS) /\ c.from = i /\ c.ordinal = b.ordinal + 1 /\ c.profile = b.profile
      /\ StepsOn(b, rb, capS, c)
  BY <1>1, <1>2, AdvanceAdds
<1>8. /\ u \in Capped(capT) /\ u.from = k /\ u.ordinal = w.ordinal + 1 /\ u.profile = w.profile
      /\ StepsOn(w, rw, capT, u) /\ u.stop # "sink"
  BY <1>1, <1>2, <1>4, <1>5, AdvanceAdds DEF Within
<1>9. PICK more, all : more = NewItems(rb) /\ all = b.out \o more
  OBVIOUS
<1>10. /\ b.out \in Seq(Nat) /\ more \in Seq(Nat) /\ all \in Seq(Nat)
       /\ Len(all) = Len(b.out) + Len(more)
  <2>1. b.out \in Seq(Nat) /\ more \in Seq(Nat)
    BY <1>3, <1>6, <1>9, NewTyped DEF Runs
  <2>2. b.out \o more \in Seq(Nat) /\ Len(b.out \o more) = Len(b.out) + Len(more)
    BY <2>1, ConcatProperties
  <2> QED
    BY <1>9, <2>1, <2>2
<1>11. u.out = out \o all
  <2>1. u.out = (out \o b.out) \o more
    BY <1>4, <1>6, <1>8, <1>9 DEF StepsOn
  <2>2. (out \o b.out) \o more = out \o (b.out \o more)
    <3>1. PICK z : z = b.out
      OBVIOUS
    <3>2. out \in Seq(Nat) /\ z \in Seq(Nat) /\ more \in Seq(Nat)
      BY <1>10, <3>1
    <3>3. Regroups(out, z, more)
      BY <3>2, Grouping
    <3> QED
      BY <3>1, <3>3 DEF Regroups
  <2> QED
    BY <1>9, <2>1, <2>2
<1>12. u.reports = told \o Told(c.reports, at, o) /\ Told(c.reports, at, o) \in Seq(Reports)
  <2>1. PICK x, y : x = b.reports /\ y = NewReports(b.profile, rb)
    OBVIOUS
  <2>2. x \in Seq(Reports) /\ y \in Seq(Reports)
    BY <1>3, <1>6, <2>1, NewTyped DEF Runs
  <2>3. c.reports = x \o y
    BY <1>7, <2>1 DEF StepsOn
  <2>4. PICK tx, ty : tx = Told(x, at, o) /\ ty = Told(y, at, o)
    OBVIOUS
  <2>5. tx \in Seq(Reports) /\ ty \in Seq(Reports) /\ Told(x \o y, at, o) = tx \o ty
    <3>1. tx \in Seq(Reports) /\ ty \in Seq(Reports)
      BY <1>2, <2>2, <2>4, ToldTyped
    <3>2. Told(x \o y, at, o) = Told(x, at, o) \o Told(y, at, o)
      <4>1. ToldOfEach(x, y, at, o)
        BY <1>2, <2>2, ToldBoth
      <4> QED
        BY <4>1 DEF ToldOfEach
    <3> QED
      BY <2>4, <3>1, <3>2
  <2>6. u.reports = (told \o tx) \o ty
    BY <1>4, <1>6, <1>8, <2>1, <2>4 DEF StepsOn
  <2>7. (told \o tx) \o ty = told \o (tx \o ty)
    <3>1. Regroups(told, tx, ty)
      BY <2>5, Grouping
    <3> QED
      BY <3>1 DEF Regroups
  <2>8. tx \o ty \in Seq(Reports)
    BY <2>5, ConcatProperties
  <2> QED
    BY <2>3, <2>5, <2>6, <2>7, <2>8
<1>13. CASE c.stop # "sink"
  <2>1. c.out = all /\ c.stop = Outcome(b.profile, rb) /\ (c.stop = "fault" => c.offset = rb.offset)
    BY <1>7, <1>9, <1>13 DEF StepsOn
  <2>2. u.stop = Outcome(w.profile, rw) /\ (u.stop = "fault" => u.offset = rw.offset)
    BY <1>8 DEF StepsOn
  <2>3. u.from = at + c.from /\ u.ordinal = o + c.ordinal
    <3>1. b.ordinal \in Nat
      BY <1>3 DEF Runs
    <3>2. u.from = k /\ c.from = i /\ u.ordinal = (o + b.ordinal) + 1 /\ c.ordinal = b.ordinal + 1
      BY <1>4, <1>7, <1>8
    <3> QED
      BY <3>1, <3>2
  <2> QED
    BY <1>1, <1>4, <1>6, <1>7, <1>8, <1>11, <1>12, <1>13, <2>1, <2>2, <2>3 DEF Alike
<1>14. CASE c.stop = "sink"
  <2>1. c.out = SubSeq(all, 1, capS) /\ Judged(rb) = "value" /\ Len(b.out) + ItemsPerValue > capS
    BY <1>7, <1>9, <1>14 DEF StepsOn
  <2>2. Len(more) = ItemsPerValue
    BY <1>6, <1>9, <2>1, ItemsTyped DEF NewItems
  <2>3. capS + 0 <= Len(all)
    BY <1>10, <2>1, <2>2
  <2>4. Begins(Nat, out \o SubSeq(all, 1, capS), out \o all)
    BY <1>10, <2>3, StretchesJoinBehind
  <2>5. Begins(Nat, out \o c.out, u.out)
    BY <1>11, <2>1, <2>4
  <2>6. Begins(Reports, told \o Told(c.reports, at, o), u.reports)
    <3>1. told \o Told(c.reports, at, o) \in Seq(Reports)
      BY <1>12, ConcatProperties
    <3> QED
      BY <1>12, <3>1, BeginsReflexive
  <2> QED
    BY <1>1, <1>4, <1>7, <1>8, <1>14, <2>5, <2>6 DEF Alike
<1> QED
  BY <1>13, <1>14

\* A run that goes on over the stream stays alike to one that is stopped.
LEMMA AlikeStops ==
  ASSUME NEW t \in Seq(Bytes), NEW capT \in Nat, NEW w \in Capped(capT), NEW b \in Runs,
         NEW out \in Seq(Nat), NEW told \in Seq(Reports), NEW at \in Nat, NEW o \in Nat,
         Alike(w, b, out, told, at, o), b.stop # "none",
         NEW k \in 1..Len(t), Within(Advance(t, w, k, capT))
  PROVE  Alike(Advance(t, w, k, capT), b, out, told, at, o)
<1>1. PICK u, rw : u = Advance(t, w, k, capT) /\ rw = Framed(t, w, k)
  OBVIOUS
<1>2. w \in Runs /\ Len(w.out) <= capT /\ b.stop \in {"fault", "sink"}
  BY DEF Capped, Runs
<1>3. CASE ~(IsEnd(t, k) /\ w.stop = "none")
  <2>1. u = w
    BY <1>1, <1>2, <1>3, AdvanceIs
  <2> QED
    BY <1>1, <2>1
<1>4. CASE IsEnd(t, k) /\ w.stop = "none"
  <2>1. b.stop = "sink"
    BY <1>2, <1>4 DEF Alike
  <2>2. /\ u.profile = w.profile /\ StepsOn(w, rw, capT, u) /\ u.stop # "sink" /\ rw \in FramedRecords
    BY <1>1, <1>4, AdvanceAdds DEF Within
  <2>3. PICK x, y : x = NewItems(rw) /\ y = NewReports(w.profile, rw)
    OBVIOUS
  <2>4. x \in Seq(Nat) /\ y \in Seq(Reports) /\ u.out = w.out \o x /\ u.reports = w.reports \o y
    BY <2>2, <2>3, NewTyped DEF StepsOn
  <2>5. Begins(Nat, w.out, u.out) /\ Begins(Reports, w.reports, u.reports)
    BY <2>4 DEF Begins
  <2>6. PICK bo, br : bo = out \o b.out /\ br = told \o Told(b.reports, at, o)
    OBVIOUS
  <2>7. bo \in Seq(Nat) /\ br \in Seq(Reports) /\ w.out \in Seq(Nat) /\ w.reports \in Seq(Reports)
    <3>1. b.out \in Seq(Nat) /\ Told(b.reports, at, o) \in Seq(Reports)
      BY ToldTyped DEF Runs
    <3>2. out \o b.out \in Seq(Nat) /\ told \o Told(b.reports, at, o) \in Seq(Reports)
      BY <3>1, ConcatProperties
    <3> QED
      BY <1>2, <2>6, <3>2 DEF Runs
  <2>8. Begins(Nat, bo, w.out) /\ Begins(Reports, br, w.reports)
    BY <2>1, <2>6 DEF Alike
  <2>9. Begins(Nat, bo, u.out) /\ Begins(Reports, br, u.reports)
    BY <2>5, <2>7, <2>8, BeginsTransitive
  <2> QED
    BY <1>1, <2>1, <2>2, <2>6, <2>9 DEF Alike
<1> QED
  BY <1>3, <1>4

\* What a stretch begins with, of the drive over the whole.
Behaves(p, t, cap, at, out, told, o) ==
  \/ at = 0 /\ out = <<>> /\ told = <<>> /\ o = 0
  \/ /\ at > 0 /\ IsEnd(t, at) /\ t[at + 1].kind # "bom"
     /\ LET run == After(p, t, cap)[at]
        IN  run.stop = "none" /\ run.out = out /\ run.reports = told /\ run.ordinal = o

\* Driving a stretch gives what the drive over the whole makes of it.
LEMMA DrivesAlike ==
  ASSUME NEW p \in Kept, NEW t \in Seq(Bytes), NEW at \in 0..(Len(t) - 1), NEW capS \in Nat,
         NEW capT \in Nat, Ample(t, capT),
         NEW out \in Seq(Nat), NEW told \in Seq(Reports), NEW o \in Nat,
         Behaves(p, t, capT, at, out, told, o)
  PROVE  Alike(Drive(p, t, capT), Drive(p, SubSeq(t, at + 1, Len(t)), capS), out, told, at, o)
<1>1. PICK s, f, g : s = SubSeq(t, at + 1, Len(t)) /\ f = After(p, s, capS) /\ g = After(p, t, capT)
  OBVIOUS
<1>2. /\ Stretch(s, t, at) /\ Len(s) = Len(t) - at /\ s \in Seq(Bytes)
      /\ Len(t) \in Nat /\ Len(s) \in Nat /\ at \in Nat /\ at + Len(s) = Len(t) /\ Len(s) > 0
  <2>1. at \in Nat /\ Len(t) \in at..Len(t) /\ Len(t) \in Nat /\ at < Len(t)
    OBVIOUS
  <2>2. Stretch(s, t, at) /\ Len(s) = Len(t) - at
    BY <1>1, <2>1, SubSeqStretch
  <2> QED
    BY <2>1, <2>2 DEF Stretch
<1>3. IsDrive(p, s, capS, f) /\ Drive(p, s, capS) = f[Len(s)]
  BY <1>1, <1>2, DriveIsDrive
<1>4. IsDrive(p, t, capT, g) /\ Drive(p, t, capT) = g[Len(t)]
  BY <1>1, DriveIsDrive
<1>5. s[1] = t[at + 1] /\ s # <<>>
  <2>1. 1 \in 1..Len(s)
    BY <1>2
  <2> QED
    BY <1>2, <2>1 DEF Stretch
<1>6. Alike(g[at], f[0], out, told, at, o)
  <2>1. out \o <<>> = out /\ told \o <<>> = told /\ Told(<<>>, at, o) = <<>>
    BY ConcatEmptySeq DEF Told
  <2>2. CASE at > 0
    <3>1. ~StartsWithMark(s)
      BY <1>5, <2>2 DEF Behaves, StartsWithMark
    <3>2. PICK run : run = Started(p, s)
      OBVIOUS
    <3>3. /\ run.out = <<>> /\ run.reports = <<>> /\ run.stop = "none" /\ run.profile = p
          /\ run.from = 0 /\ run.ordinal = 0
      BY <3>1, <3>2, StartedIs
    <3>4. /\ g[at].stop = "none" /\ g[at].out = out /\ g[at].reports = told /\ g[at].ordinal = o
          /\ IsEnd(t, at)
      BY <1>1, <2>2 DEF Behaves
    <3>5. g[at] \in Runs /\ Sound(t, g[at], at)
      BY <1>4, DriveSound
    <3>6. g[at].from = at
      BY <2>2, <3>4, <3>5 DEF Sound
    <3>7. g[at].profile = p
      <4> DEFINE P == {j \in 0..Len(t) : g[j].profile = p}
      <4>1. 0 \in P
        BY <1>4, StartedIs DEF IsDrive
      <4>2. ASSUME NEW j \in 1..Len(t), j - 1 \in P PROVE j \in P
        <5>1. j - 1 \in 0..Len(t)
          BY <1>2
        <5>2. g[j] = Advance(t, g[j - 1], j, capT) /\ g[j - 1] \in Capped(capT)
          BY <1>4, <5>1 DEF IsDrive
        <5>3. g[j - 1] \in Runs /\ Len(g[j - 1].out) <= capT
          BY <5>2 DEF Capped
        <5> QED
          BY <4>2, <5>2, <5>3, AdvanceIs
      <4>3. P = 0..Len(t)
        <5> HIDE DEF P
        <5>1. P \in SUBSET (0..Len(t))
          BY DEF P
        <5> QED
          BY <1>2, <4>1, <4>2, <5>1, EachStage
      <4> QED
        BY <4>3
    <3>8. at = at + 0 /\ o = o + 0
      BY <1>2
    <3> QED
      BY <1>3, <2>1, <3>2, <3>3, <3>4, <3>6, <3>7, <3>8 DEF Alike, IsDrive
  <2>3. CASE at = 0
    <3>1. out = <<>> /\ told = <<>> /\ o = 0
      BY <2>3 DEF Behaves
    <3>2. PICK run : run = Started(p, s)
      OBVIOUS
    <3>3. f[0] = run /\ g[0] = run
      <4>1. t # <<>> /\ s # <<>> /\ s[1] = t[1]
        BY <1>2, <1>5, <2>3
      <4>2. Started(p, t) = Started(p, s)
        BY <4>1 DEF Started, StartsWithMark
      <4> QED
        BY <1>3, <1>4, <3>2, <4>2 DEF IsDrive
    <3>4. run \in Runs /\ run.out = <<>> /\ run.stop # "sink"
      BY <3>2, StartedIs
    <3>5. Told(run.reports, 0, 0) = run.reports
      <4>1. PICK r : r = run.reports
        OBVIOUS
      <4>2. r \in Seq(Reports)
        BY <3>4, <4>1 DEF Runs
      <4>3. /\ Told(r, 0, 0) \in Seq(Reports) /\ Len(Told(r, 0, 0)) = Len(r)
            /\ \A i \in 1..Len(r) : Told(r, 0, 0)[i] = RebasedBy(r[i], 0, 0)
        BY <4>2, ToldTyped
      <4>4. ASSUME NEW e \in Reports PROVE RebasedBy(e, 0, 0) = e
        <5>1. e.ordinal + 0 = e.ordinal /\ e.offset + 0 = e.offset
          BY DEF Reports
        <5>2. [e EXCEPT !.ordinal = e.ordinal, !.offset = e.offset] = e
          BY DEF Reports
        <5> QED
          BY <5>1, <5>2 DEF RebasedBy
      <4>5. \A i \in 1..Len(r) : Told(r, 0, 0)[i] = r[i]
        BY <4>2, <4>3, <4>4
      <4>6. PICK q : q = Told(r, 0, 0)
        OBVIOUS
      <4>7. q = r
        BY <4>2, <4>3, <4>5, <4>6, SeqEqual
      <4> QED
        BY <4>1, <4>6, <4>7
    <3>6. <<>> \o run.out = run.out /\ <<>> \o run.reports = run.reports
      BY <3>4, ConcatEmptySeq DEF Runs
    <3>7. run.from = 0 + run.from /\ run.ordinal = 0 + run.ordinal /\ run.offset = 0 + run.offset
      BY <3>4 DEF Runs
    <3> QED
      BY <2>3, <3>1, <3>3, <3>4, <3>5, <3>6, <3>7 DEF Alike
  <2> QED
    BY <1>2, <2>2, <2>3
<1> DEFINE P == {j \in 0..Len(s) : Alike(g[at + j], f[j], out, told, at, o)}
<1>7. 0 \in P
  BY <1>2, <1>6
<1>8. ASSUME NEW j \in 1..Len(s), j - 1 \in P PROVE j \in P
  <2>1. PICK k, w, b : k = at + j /\ w = g[k - 1] /\ b = f[j - 1]
    OBVIOUS
  <2>2. k \in 1..Len(t) /\ k - 1 \in 0..Len(t) /\ k \in 0..Len(t) /\ j - 1 \in 0..Len(s) /\ at + (j - 1) = k - 1
    BY <1>2, <2>1
  <2>3. Alike(w, b, out, told, at, o)
    BY <1>8, <2>1, <2>2
  <2>4. /\ g[k] = Advance(t, w, k, capT) /\ w \in Capped(capT)
        /\ f[j] = Advance(s, b, j, capS) /\ b \in Capped(capS) /\ b \in Runs /\ Len(b.out) <= capS
    BY <1>3, <1>4, <2>1, <2>2 DEF IsDrive, Capped
  <2>5. Within(g[k])
    BY <1>4, <2>2, DriveWithin
  <2>6. t \in Seq(Bytes) /\ s \in Seq(Bytes)
    BY <1>2
  <2>7. CASE b.stop # "none"
    <3>1. f[j] = b
      BY <2>4, <2>6, <2>7, AdvanceIs
    <3>2. Alike(g[k], b, out, told, at, o)
      BY <1>2, <2>2, <2>3, <2>4, <2>5, <2>7, AlikeStops
    <3> QED
      BY <2>1, <3>1, <3>2
  <2>8. CASE b.stop = "none" /\ ~IsEnd(s, j)
    <3>1. f[j] = b
      BY <2>4, <2>6, <2>8, AdvanceIs
    <3>2. ~IsEnd(t, k)
      BY <1>2, <2>1, <2>8 DEF IsEnd, Stretch
    <3>3. g[k] = w
      BY <2>2, <2>4, <2>6, <3>2, AdvanceIs DEF Capped
    <3> QED
      BY <2>1, <2>3, <3>1, <3>3
  <2>9. CASE b.stop = "none" /\ IsEnd(s, j)
    <3>1. PICK u, c : u = g[k] /\ c = f[j]
      OBVIOUS
    <3>2. /\ Stretch(s, t, at) /\ at + Len(s) = Len(t) /\ k = at + j
          /\ u = Advance(t, w, k, capT) /\ Within(u) /\ c = Advance(s, b, j, capS)
          /\ w \in Capped(capT) /\ b \in Capped(capS)
      BY <1>2, <2>1, <2>4, <2>5, <3>1
    <3>3. Alike(u, c, out, told, at, o)
      BY <2>3, <2>9, <3>2, AlikeRuns
    <3> QED
      BY <2>1, <3>1, <3>3
  <2> QED
    BY <2>7, <2>8, <2>9
<1>9. P = 0..Len(s)
  <2> HIDE DEF P
  <2>1. P \in SUBSET (0..Len(s))
    BY DEF P
  <2> QED
    BY <1>2, <1>7, <1>8, <2>1, EachStage
<1> QED
  <2> HIDE DEF P
  <2>1. Len(s) \in 0..Len(s)
    BY <1>2
  <2>2. Len(s) \in P
    BY <1>9, <2>1
  <2>3. Alike(g[at + Len(s)], f[Len(s)], out, told, at, o)
    BY <2>2 DEF P
  <2> QED
    BY <1>1, <1>2, <1>3, <1>4, <2>3

-----------------------------------------------------------------------------
(* The handle's buffer of diagnostics.                                     *)

\* The records of a buffer, and its mark.
Buffers(cap) == {b \in [records : Seq(Records), terminal : Nat] :
                   Len(b.records) <= cap /\ b.terminal <= Len(b.records)}

\* One record fewer.
LEMMA OneFewer ==
  ASSUME NEW s \in Seq(Records), NEW i \in 1..Len(s)
  PROVE  RemoveAt(s, i) \in Seq(Records) /\ Len(RemoveAt(s, i)) = Len(s) - 1
<1>1. PICK a, b : a = SubSeq(s, 1, i - 1) /\ b = SubSeq(s, i + 1, Len(s))
  OBVIOUS
<1>2. Len(s) \in Nat /\ i \in Nat /\ 1 <= i /\ i <= Len(s) /\ \A j \in 1..Len(s) : s[j] \in Records
  OBVIOUS
<1>3. a \in Seq(Records) /\ Len(a) = i - 1
  <2>1. 1 \in Int /\ i - 1 \in Int /\ \A j \in 1..(i - 1) : s[j] \in Records
    BY <1>2
  <2>2. a \in Seq(Records) /\ Len(a) = IF 1 <= i - 1 THEN (i - 1) - 1 + 1 ELSE 0
    BY <1>1, <2>1, SubSeqProperties
  <2> QED
    BY <1>2, <2>2
<1>4. b \in Seq(Records) /\ Len(b) = Len(s) - i
  <2>1. i + 1 \in Int /\ Len(s) \in Int /\ \A j \in (i + 1)..Len(s) : s[j] \in Records
    BY <1>2
  <2>2. b \in Seq(Records) /\ Len(b) = IF i + 1 <= Len(s) THEN Len(s) - (i + 1) + 1 ELSE 0
    BY <1>1, <2>1, SubSeqProperties
  <2> QED
    BY <1>2, <2>2
<1>5. a \o b \in Seq(Records) /\ Len(a \o b) = Len(a) + Len(b)
  BY <1>3, <1>4, ConcatProperties
<1>6. RemoveAt(s, i) = a \o b
  BY <1>1 DEF RemoveAt
<1>7. Len(a) + Len(b) = Len(s) - 1
  BY <1>2, <1>3, <1>4
<1> QED
  BY <1>5, <1>6, <1>7

\* The least of some positions.
LEMMA LeastPosition ==
  ASSUME NEW S \in SUBSET Nat, S # {}
  PROVE  Min(S) \in S /\ \A i \in S : Min(S) <= i
<1>1. PICK n \in S : \A k \in Nat : k < n => k \notin S
  BY LeastNumber
<1>2. \A i \in S : n <= i
  BY <1>1
<1> QED
  BY <1>2 DEF Min

\* A record is taken, or refused, within the cap.
LEMMA RecordedTyped ==
  ASSUME NEW cap \in Nat \ {0}, NEW b \in Buffers(cap), NEW record \in Records
  PROVE  Recorded(b, record, cap) \in Buffers(cap)
<1>1. PICK s, m : s = b.records /\ m = b.terminal
  OBVIOUS
<1>2. s \in Seq(Records) /\ m \in Nat /\ Len(s) <= cap /\ m <= Len(s) /\ Len(s) \in Nat
      /\ b = [records |-> s, terminal |-> m] /\ DOMAIN s = 1..Len(s)
  BY <1>1 DEF Buffers
<1> DEFINE victims == 1..Len(s) \ {m}
<1>3. CASE Len(s) < cap
  <2>1. Append(s, record) \in Seq(Records) /\ Len(Append(s, record)) = Len(s) + 1
    BY <1>2, AppendProperties
  <2>2. Recorded(b, record, cap) = [b EXCEPT !.records = Append(s, record)]
    BY <1>1, <1>3 DEF Recorded
  <2>3. Recorded(b, record, cap) = [records |-> Append(s, record), terminal |-> m]
    BY <1>2, <2>2
  <2> QED
    BY <1>2, <1>3, <2>1, <2>3 DEF Buffers
<1>4. CASE Len(s) >= cap /\ victims # {}
  <2>1. PICK i : i = Min(victims)
    OBVIOUS
  <2>2. victims \in SUBSET Nat /\ victims = (DOMAIN s) \ {m}
    BY <1>2
  <2>3. i \in 1..Len(s)
    <3> HIDE DEF victims
    <3>1. i \in victims
      BY <1>4, <2>1, <2>2, LeastPosition
    <3> QED
      BY <3>1 DEF victims
  <2>4. PICK fewer : fewer = RemoveAt(s, i)
    OBVIOUS
  <2>5. fewer \in Seq(Records) /\ Len(fewer) = Len(s) - 1
    BY <1>2, <2>3, <2>4, OneFewer
  <2>6. Append(fewer, record) \in Seq(Records) /\ Len(Append(fewer, record)) = Len(fewer) + 1
    BY <2>5, AppendProperties
  <2>7. Recorded(b, record, cap) = [records |-> Append(fewer, record), terminal |-> IF m > i THEN m - 1 ELSE m]
    <3> HIDE DEF victims
    <3>1. ~(Len(s) < cap) /\ Min(victims) = i
      BY <1>2, <1>4, <2>1
    <3> QED
      BY <1>1, <1>4, <2>2, <2>4, <3>1, Zenon DEF Recorded
  <2>8. PICK k : k = IF m > i THEN m - 1 ELSE m
    OBVIOUS
  <2>9. k \in Nat /\ k <= Len(s)
    BY <1>2, <2>3, <2>8
  <2>10. PICK more : more = Append(fewer, record)
    OBVIOUS
  <2>11. more \in Seq(Records) /\ Len(more) = Len(s)
    <3>1. more \in Seq(Records) /\ Len(more) = Len(fewer) + 1
      BY <2>6, <2>10
    <3>2. Len(fewer) + 1 = Len(s)
      BY <1>2, <2>5
    <3> QED
      BY <3>1, <3>2
  <2>12. [records |-> more, terminal |-> k] \in Buffers(cap)
    BY <1>2, <2>9, <2>11 DEF Buffers
  <2> QED
    BY <2>7, <2>8, <2>10, <2>12
<1>5. CASE ~(Len(s) < cap) /\ ~(Len(s) >= cap /\ victims # {})
  BY <1>1, <1>2, <1>5 DEF Recorded
<1> QED
  BY <1>3, <1>4, <1>5

\* The newest record is marked.
LEMMA MarkedTyped ==
  ASSUME NEW cap \in Nat, NEW b \in Buffers(cap)
  PROVE  [b EXCEPT !.terminal = Len(b.records)] \in Buffers(cap)
<1>1. b \in [records : Seq(Records), terminal : Nat] /\ Len(b.records) <= cap
  BY DEF Buffers
<1>2. PICK n : n = Len(b.records)
  OBVIOUS
<1>3. n \in Nat
  <2>1. b.records \in Seq(Records)
    BY <1>1
  <2> QED
    BY <1>2, <2>1, LenProperties
<1>4. PICK c : c = [b EXCEPT !.terminal = n]
  OBVIOUS
<1>5. c \in [records : Seq(Records), terminal : Nat] /\ c.records = b.records /\ c.terminal = n
  BY <1>1, <1>3, <1>4
<1>6. Len(c.records) <= cap /\ c.terminal <= Len(c.records)
  BY <1>1, <1>2, <1>3, <1>5
<1>7. c \in Buffers(cap)
  BY <1>5, <1>6 DEF Buffers
<1> QED
  BY <1>2, <1>4, <1>7

\* So is a marked one.
LEMMA NoteTyped ==
  ASSUME NEW b \in Buffers(DiagnosticCap), NEW failure \in {"death", "refused push", "no program"}
  PROVE  Note(b, failure) \in Buffers(DiagnosticCap)
<1>1. DiagnosticCap \in Nat \ {0}
  BY FeedAssumption
<1>2. Report(failure, 0, 0) \in Records
  BY DEF Report, Records
<1>3. PICK next : next = Recorded(b, Report(failure, 0, 0), DiagnosticCap)
  OBVIOUS
<1>4. next \in Buffers(DiagnosticCap)
  BY <1>1, <1>2, <1>3, RecordedTyped
<1>5. [next EXCEPT !.terminal = Len(next.records)] \in Buffers(DiagnosticCap)
  BY <1>1, <1>4, MarkedTyped
<1> QED
  BY <1>3, <1>5 DEF Note, RecordedTerminal

\* An empty buffer is one.
LEMMA ClearedTyped == ASSUME NEW cap \in Nat PROVE Cleared \in Buffers(cap)
BY DEF Cleared, Buffers

\* The recursion by which RecordedAll folds the records, as an equation.
IsNoting(b, told, cap, iter) ==
  iter = [s \in SUBSET (DOMAIN told) |->
            IF s = {} THEN b ELSE Recorded(iter[s \ {Max(s)}], told[Max(s)], cap)]
Noting(b, told, cap) == CHOOSE iter : IsNoting(b, told, cap, iter)

\* What the fold comes to.
LEMMA NotingUnfolds ==
  ASSUME NEW b, NEW told, NEW cap
  PROVE  RecordedAll(b, told, cap) = Noting(b, told, cap)[DOMAIN told]
BY Zenon DEF RecordedAll, Noting, IsNoting, FoldLeft, MapThenFoldSet

\* Any number of records is taken within the cap.
LEMMA RecordedAllTyped ==
  ASSUME NEW cap \in Nat \ {0}, NEW b \in Buffers(cap), NEW told \in Seq(Records)
  PROVE  RecordedAll(b, told, cap) \in Buffers(cap)
<1> DEFINE n == Len(told)
           X == Buffers(cap)
           op == [q \in X \X (1..n) |-> Recorded(q[1], told[q[2]], cap)]
           J == Noting(b, told, cap)
           F(it, s) == IF s = {} THEN b ELSE Recorded(it[s \ {Max(s)}], told[Max(s)], cap)
<1>1. n \in Nat /\ DOMAIN told = 1..n /\ \A i \in 1..n : told[i] \in Records
  OBVIOUS
<1>2. b \in X
  OBVIOUS
<1>3. \A x \in X, i \in 1..n : Recorded(x, told[i], cap) \in X
  BY <1>1, RecordedTyped
<1> HIDE DEF n, X
<1>4. op \in [X \X (1..n) -> X]
  <2> SUFFICES ASSUME NEW q \in X \X (1..n) PROVE Recorded(q[1], told[q[2]], cap) \in X
    OBVIOUS
  <2> QED
    BY <1>3
<1>5. \A x \in X, i \in 1..n : op[<<x, i>>] = Recorded(x, told[i], cap)
  <2> SUFFICES ASSUME NEW x \in X, NEW i \in 1..n PROVE op[<<x, i>>] = Recorded(x, told[i], cap)
    OBVIOUS
  <2>1. <<x, i>> \in X \X (1..n)
    OBVIOUS
  <2> QED
    BY <2>1
<1> HIDE DEF op
<1>6. PICK iter : IsFold(b, op, SUBSET (1..n), iter)
  BY <1>1, <1>2, <1>4, FoldsExist
<1>7. \A s \in SUBSET (1..n) : iter[s] \in X
  <2>1. Follows(n, X, b, op, iter)
    BY <1>6, FoldFolds
  <2> QED
    BY <1>1, <1>2, <1>4, <2>1, FoldTyped
<1>8. IsNoting(b, told, cap, iter)
  <2>1. \A s \in SUBSET (1..n) : FoldStep(b, op, iter, s) = F(iter, s)
    <3> SUFFICES ASSUME NEW s \in SUBSET (1..n), s # {}
                 PROVE  FoldStep(b, op, iter, s) = F(iter, s)
      BY DEF FoldStep
    <3>1. Max(s) \in 1..n /\ s \ {Max(s)} \in SUBSET (1..n)
      BY <1>1, FewerPositions
    <3>2. op[<<iter[s \ {Max(s)}], Max(s)>>] = Recorded(iter[s \ {Max(s)}], told[Max(s)], cap)
      BY <1>5, <1>7, <3>1
    <3> QED
      BY <3>2 DEF FoldStep
  <2>2. iter = [s \in SUBSET (1..n) |-> FoldStep(b, op, iter, s)]
    BY <1>6 DEF IsFold
  <2> HIDE DEF F
  <2>3. iter = [s \in SUBSET (1..n) |-> F(iter, s)]
    BY <2>1, <2>2
  <2> QED
    BY <2>3, <1>1 DEF IsNoting, F
<1>9. \A s \in SUBSET (1..n) : J[s] = F(J, s)
  <2>1. IsNoting(b, told, cap, J)
    BY <1>8 DEF Noting
  <2> HIDE DEF J
  <2> QED
    BY <1>1, <2>1 DEF IsNoting
<1> HIDE DEF J
<1>10. \A s \in SUBSET (1..n) : Folds(X, b, op, J, s)
  <2> SUFFICES ASSUME NEW s \in SUBSET (1..n) PROVE Folds(X, b, op, J, s)
    OBVIOUS
  <2>1. CASE s = {}
    BY <1>9, <2>1 DEF Folds
  <2>2. CASE s # {} /\ J[s \ {Max(s)}] \in X
    <3>1. Max(s) \in 1..n
      BY <1>1, <2>2, FewerPositions
    <3>2. J[s] = Recorded(J[s \ {Max(s)}], told[Max(s)], cap)
      BY <1>9, <2>2
    <3> QED
      BY <1>5, <2>2, <3>1, <3>2 DEF Folds
  <2>3. CASE s # {} /\ J[s \ {Max(s)}] \notin X
    BY <2>3 DEF Folds
  <2> QED
    BY <2>1, <2>2, <2>3
<1>11. J[1..n] \in X
  <2>1. Follows(n, X, b, op, J)
    BY <1>10 DEF Follows
  <2>2. 1..n \in SUBSET (1..n)
    OBVIOUS
  <2> QED
    BY <1>1, <1>2, <1>4, <2>1, <2>2, FoldTyped
<1> QED
  BY <1>1, <1>11, NotingUnfolds DEF J, X

-----------------------------------------------------------------------------
(* The drive over the first bytes of a stream.                             *)

\* What the drive makes of the first e bytes, its cap out of reach.
AllItems(t) == ItemsPerValue * Len(t)
Whole(p, t, e) == Drive(p, SubSeq(t, 1, e), AllItems(t))

\* `q` is the first e bytes of `t`, and has their ends.
IsFront(q, t, e) ==
  /\ Stretch(q, t, 0) /\ q \in Seq(Bytes) /\ Len(q) = e
  /\ \A j \in 1..e : q[j] = t[j] /\ (IsEnd(q, j) <=> t[j].kind = "lf" \/ j = e)
  /\ Ends(q) = {j \in 1..e : t[j].kind = "lf" \/ j = e} /\ Ends(q) = EndsUpto(q, e)
  /\ Ample(q, AllItems(t)) /\ AllItems(t) \in Nat

\* The first bytes are such a front.
LEMMA FirstBytes ==
  ASSUME NEW t \in Seq(Bytes), NEW e \in 0..Len(t), NEW q, q = SubSeq(t, 1, e)
  PROVE  IsFront(q, t, e)
<1>1. Stretch(q, t, 0) /\ Len(q) = e /\ q \in Seq(Bytes)
  <2>1. e \in 0..Len(t) /\ 0 + 1 = 1 /\ 0 \in Nat /\ e - 0 = e
    OBVIOUS
  <2>2. Stretch(SubSeq(t, 0 + 1, e), t, 0) /\ Len(SubSeq(t, 0 + 1, e)) = e - 0
    BY <2>1, SubSeqStretch
  <2> QED
    BY <2>1, <2>2 DEF Stretch
<1>2. \A j \in 1..e : q[j] = t[j] /\ (IsEnd(q, j) <=> t[j].kind = "lf" \/ j = e)
  BY <1>1 DEF Stretch, IsEnd
<1>3. Ends(q) = {j \in 1..e : t[j].kind = "lf" \/ j = e} /\ Ends(q) = EndsUpto(q, e)
  <2>1. DOMAIN q = 1..e
    BY <1>1
  <2> QED
    BY <1>2, <2>1 DEF Ends, EndsUpto
<1>4. Ample(q, AllItems(t)) /\ AllItems(t) \in Nat
  <2>1. ItemsPerValue \in Nat /\ e \in Nat /\ Len(t) \in Nat /\ e <= Len(t)
    BY DriveAssumption
  <2>2. AllItems(t) \in Nat /\ ItemsPerValue * e <= AllItems(t)
    BY <2>1, MultiplesGrow DEF AllItems
  <2> QED
    BY <1>1, <2>2 DEF Ample
<1> QED
  BY <1>1, <1>2, <1>3, <1>4 DEF IsFront

\* Of nothing it makes nothing.
LEMMA WholeOfNothing ==
  ASSUME NEW p \in Kept, NEW t \in Seq(Bytes), NEW run, run = Whole(p, t, 0)
  PROVE  /\ run \in Runs /\ run.out = <<>> /\ run.reports = <<>> /\ run.stop = "none"
         /\ Cardinality(Ends(SubSeq(t, 1, 0))) = 0
<1>1. PICK q, cap : q = SubSeq(t, 1, 0) /\ cap = AllItems(t)
  OBVIOUS
<1>2. 0 \in 0..Len(t)
  OBVIOUS
<1>3. q \in Seq(Bytes) /\ Len(q) = 0 /\ cap \in Nat /\ Ends(q) = {}
  <2>1. IsFront(q, t, 0)
    BY <1>1, <1>2, FirstBytes
  <2> QED
    BY <1>1, <2>1 DEF IsFront
<1>4. IsDrive(p, q, cap, After(p, q, cap)) /\ Drive(p, q, cap) = After(p, q, cap)[Len(q)]
  BY <1>3, DriveIsDrive
<1>5. run = Started(p, q)
  BY <1>1, <1>3, <1>4 DEF Whole, IsDrive
<1>6. ~StartsWithMark(q)
  BY <1>3 DEF StartsWithMark
<1>7. Cardinality(Ends(q)) = 0
  BY <1>3, FS_EmptySet
<1>8. /\ run \in Runs /\ run.out = <<>> /\ run.reports = <<>> /\ run.stop = "none"
  BY <1>5, <1>6, StartedIs
<1> QED
  BY <1>1, <1>7, <1>8

\* A run over the first bytes: no sink stops it, a fault is before its end, and it
\* has counted the records.
LEMMA WholeIsSound ==
  ASSUME NEW p \in Kept, NEW t \in Seq(Bytes), NEW e \in 0..Len(t), NEW run, run = Whole(p, t, e)
  PROVE  /\ run \in Runs /\ run.stop # "sink"
         /\ run.stop # "none" => run.offset < e
         /\ run.stop = "none" => run.ordinal = Cardinality(Ends(SubSeq(t, 1, e)))
<1>1. PICK q, cap : q = SubSeq(t, 1, e) /\ cap = AllItems(t)
  OBVIOUS
<1>2. q \in Seq(Bytes) /\ Len(q) = e /\ cap \in Nat /\ Ends(q) = EndsUpto(q, e) /\ Ample(q, cap)
  <2>1. IsFront(q, t, e)
    BY <1>1, FirstBytes
  <2> QED
    BY <1>1, <2>1 DEF IsFront
<1>3. PICK f : f = After(p, q, cap)
  OBVIOUS
<1>4. IsDrive(p, q, cap, f) /\ run = f[e] /\ e \in 0..Len(q)
  <2>1. IsDrive(p, q, cap, f) /\ Drive(p, q, cap) = f[Len(q)]
    BY <1>2, <1>3, DriveIsDrive
  <2> QED
    BY <1>1, <1>2, <2>1 DEF Whole
<1>5. f[e] \in Runs /\ Sound(q, f[e], e)
  BY <1>2, <1>4, DriveSound
<1>6. Within(f[e])
  BY <1>2, <1>4, DriveWithin
<1> QED
  BY <1>1, <1>2, <1>4, <1>5, <1>6 DEF Sound, Within

\* Up to a cut it is the run the longer drive has there.
LEMMA WholeWithin ==
  ASSUME NEW p \in Kept, NEW t \in Seq(Bytes), NEW e \in 0..Len(t), NEW d \in 1..e,
         t[d].kind = "lf" \/ d = e, NEW q, q = SubSeq(t, 1, e)
  PROVE  Whole(p, t, d) = After(p, q, AllItems(t))[d]
<1>1. PICK cap : cap = AllItems(t)
  OBVIOUS
<1>2. /\ q \in Seq(Bytes) /\ Len(q) = e /\ cap \in Nat /\ Stretch(q, t, 0)
      /\ d \in 1..Len(q) /\ IsEnd(q, d)
  <2>1. IsFront(q, t, e)
    BY FirstBytes
  <2> QED
    BY <1>1, <2>1 DEF IsFront
<1>3. Drive(p, SubSeq(q, 1, d), cap) = After(p, q, cap)[d]
  BY <1>2, PrefixSame
<1>4. SubSeq(q, 1, d) = SubSeq(t, 1, d)
  <2>1. d \in 0..Len(q) /\ 0 \in Nat /\ 0 = 0 + 0 /\ d = 0 + d /\ 0 + 1 = 1
    BY <1>2
  <2>2. Behind(q, 0, d) = Behind(t, 0, d)
    BY <1>2, <2>1, SameFront
  <2> QED
    BY <2>1, <2>2 DEF Behind
<1> QED
  BY <1>1, <1>3, <1>4 DEF Whole

\* More bytes only add.
LEMMA WholeGrows ==
  ASSUME NEW p \in Kept, NEW t \in Seq(Bytes), NEW e \in 0..Len(t), NEW d \in 0..e,
         d = 0 \/ t[d].kind = "lf" \/ d = e
  PROVE  Adds(Whole(p, t, d), Whole(p, t, e))
<1>1. PICK less, more : less = Whole(p, t, d) /\ more = Whole(p, t, e)
  OBVIOUS
<1>2. more \in Runs
  BY <1>1, WholeIsSound
<1>3. more.out \in Seq(Nat) /\ more.reports \in Seq(Reports)
  BY <1>2 DEF Runs
<1>4. CASE d = 0
  <2>0. less = Whole(p, t, 0)
    BY <1>1, <1>4
  <2>1. less.out = <<>> /\ less.reports = <<>> /\ less.stop = "none"
    BY <2>0, WholeOfNothing
  <2>2. Begins(Nat, <<>>, more.out) /\ Begins(Reports, <<>>, more.reports)
    BY <1>3, BeginsReflexive
  <2> QED
    BY <1>1, <2>1, <2>2 DEF Adds
<1>5. CASE d > 0
  <2>1. PICK q, cap, f : q = SubSeq(t, 1, e) /\ cap = AllItems(t) /\ f = After(p, q, cap)
    OBVIOUS
  <2>2. q \in Seq(Bytes) /\ Len(q) = e /\ cap \in Nat /\ Ample(q, cap)
    <3>1. IsFront(q, t, e)
      BY <2>1, FirstBytes
    <3> QED
      BY <2>1, <3>1 DEF IsFront
  <2>3. d \in 1..e /\ e \in 1..e /\ e \in Nat
    BY <1>5
  <2>4. less = f[d] /\ more = f[e]
    <3>0. t[d].kind = "lf" \/ d = e
      BY <1>5
    <3>1. Whole(p, t, d) = After(p, q, AllItems(t))[d]
      BY <2>1, <2>3, <3>0, WholeWithin
    <3>2. Whole(p, t, e) = After(p, q, AllItems(t))[e]
      BY <2>1, <2>3, WholeWithin
    <3> QED
      BY <1>1, <2>1, <3>1, <3>2
  <2>5. IsDrive(p, q, cap, f)
    BY <2>1, <2>2, DriveIsDrive
  <2>6. d \in 0..Len(q) /\ e \in d..Len(q)
    BY <2>2, <2>3
  <2>7. Adds(f[d], f[e])
    BY <2>2, <2>5, <2>6, DriveAdds
  <2> QED
    BY <1>1, <2>4, <2>7
<1> QED
  BY <1>4, <1>5

\* A batch cut from the stream, driven by itself.
LEMMA BatchIsAlike ==
  ASSUME NEW p \in Kept, NEW t \in Seq(Bytes), \A i \in 2..Len(t) : t[i].kind # "bom",
         NEW e \in 1..Len(t), NEW at \in 0..(e - 1), at = 0 \/ t[at].kind = "lf",
         NEW before, before = Whole(p, t, at), before.stop = "none", NEW cap \in Nat,
         NEW batch, batch = SubSeq(t, at + 1, e),
         NEW o, o = Cardinality(Ends(SubSeq(t, 1, at)))
  PROVE  Alike(Whole(p, t, e), Drive(p, batch, cap), before.out, before.reports, at, o)
<1>1. PICK q, all, f : /\ q = SubSeq(t, 1, e) /\ all = AllItems(t)
                       /\ f = After(p, q, all)
  OBVIOUS
<1>2. e \in 0..Len(t) /\ at \in 0..Len(t) /\ at \in Nat /\ e \in Nat
  OBVIOUS
<1>3. /\ q \in Seq(Bytes) /\ Len(q) = e /\ all \in Nat /\ Ample(q, all) /\ Stretch(q, t, 0)
      /\ \A j \in 1..e : q[j] = t[j] /\ (IsEnd(q, j) <=> t[j].kind = "lf" \/ j = e)
  <2>1. IsFront(q, t, e)
    BY <1>1, <1>2, FirstBytes
  <2> QED
    BY <1>1, <2>1 DEF IsFront
<1>4. batch = SubSeq(q, at + 1, Len(q))
  <2>1. Len(q) \in 0..Len(q) /\ at = 0 + at /\ e = 0 + Len(q)
    BY <1>2, <1>3
  <2>2. Behind(q, at, Len(q)) = Behind(t, at, e)
    BY <1>2, <1>3, <2>1, SameBytes
  <2> QED
    BY <2>2 DEF Behind
<1>5. /\ before \in Runs /\ before.out \in Seq(Nat) /\ before.reports \in Seq(Reports)
      /\ before.ordinal = o /\ o \in Nat
  <2>1. before \in Runs /\ before.ordinal = o
    BY <1>2, WholeIsSound
  <2> QED
    BY <2>1 DEF Runs
<1>6. Behaves(p, q, all, at, before.out, before.reports, o)
  <2>1. CASE at = 0
    BY <2>1, WholeOfNothing DEF Behaves
  <2>2. CASE at > 0
    <3>1. at \in 1..e /\ at + 1 \in 1..e /\ at + 1 \in 2..Len(t)
      BY <1>2, <2>2
    <3>2. IsEnd(q, at) /\ q[at + 1].kind # "bom"
      <4>1. IsEnd(q, at)
        BY <1>3, <2>2, <3>1
      <4>2. PICK j : j = at + 1
        OBVIOUS
      <4>3. j \in 1..e /\ j \in 2..Len(t)
        BY <3>1, <4>2
      <4>4. q[j] = t[j] /\ t[j].kind # "bom"
        BY <1>3, <4>3
      <4> QED
        BY <4>1, <4>2, <4>4
    <3>3. before = f[at]
      <4>1. t[at].kind = "lf"
        BY <2>2
      <4>2. Whole(p, t, at) = After(p, q, AllItems(t))[at]
        BY <1>1, <1>2, <3>1, <4>1, WholeWithin
      <4> QED
        BY <1>1, <4>2
    <3> QED
      BY <1>1, <1>5, <2>2, <3>2, <3>3 DEF Behaves
  <2> QED
    BY <1>2, <2>1, <2>2
<1>7. Alike(Drive(p, q, all), Drive(p, SubSeq(q, at + 1, Len(q)), cap), before.out, before.reports, at, o)
  <2>1. at \in 0..(Len(q) - 1)
    BY <1>3
  <2> QED
    BY <1>3, <1>5, <1>6, <2>1, DrivesAlike
<1> QED
  BY <1>1, <1>4, <1>7 DEF Whole

-----------------------------------------------------------------------------
(* Line feeds, and the records they end.                                   *)

\* The line feeds behind the first a bytes, up to the b-th.
Feeds(t, a, b) == {j \in (a + 1)..b : t[j].kind = "lf"}

\* There are finitely many.
LEMMA FeedsFinite ==
  ASSUME NEW t, NEW a \in Nat, NEW b \in Nat
  PROVE  /\ IsFiniteSet(Feeds(t, a, b)) /\ Cardinality(Feeds(t, a, b)) \in Nat
         /\ Feeds(t, a, b) \in SUBSET Nat
<1>1. IsFiniteSet((a + 1)..b)
  BY FS_Interval
<1>2. Feeds(t, a, b) \in SUBSET ((a + 1)..b)
  BY DEF Feeds
<1>3. IsFiniteSet(Feeds(t, a, b))
  BY <1>1, <1>2, FS_Subset
<1> QED
  BY <1>2, <1>3, FS_CardinalityType

\* Places moved along.
Along(S, by) == {by + j : j \in S}

\* Places moved along are as many.
LEMMA MovedAlong ==
  ASSUME NEW S \in SUBSET Nat, IsFiniteSet(S), NEW by \in Nat, NEW T, T = Along(S, by)
  PROVE  Cardinality(T) = Cardinality(S)
<1> USE DEF Along
<1> DEFINE f == [j \in S |-> by + j]
<1>1. f \in [S -> T]
  OBVIOUS
<1>2. \A i, j \in S : f[i] = f[j] => i = j
  OBVIOUS
<1>3. \A x \in T : \E j \in S : f[j] = x
  OBVIOUS
<1>4. f \in Bijection(S, T)
  BY <1>1, <1>2, <1>3 DEF Bijection, Injection, Surjection, IsInjective
<1>5. ExistsBijection(S, T)
  BY <1>4 DEF ExistsBijection
<1> QED
  BY <1>5, FS_Bijection

\* A stretch has the line feeds of its place.
LEMMA FeedsOfStretch ==
  ASSUME NEW s, NEW t, NEW by, Stretch(s, t, by), NEW a \in Nat, NEW b \in 0..Len(s),
         NEW c, NEW d, c = by + a, d = by + b
  PROVE  /\ Feeds(t, c, d) = Along(Feeds(s, a, b), by)
         /\ Cardinality(Feeds(t, c, d)) = Cardinality(Feeds(s, a, b))
<1>1. /\ by \in Nat /\ Len(s) \in Nat /\ b \in Nat /\ b <= Len(s)
      /\ \A j \in 1..Len(s) : s[j] = t[by + j]
  BY DEF Stretch
<1>2. Feeds(t, c, d) \subseteq {by + j : j \in Feeds(s, a, b)}
  <2> SUFFICES ASSUME NEW i \in Feeds(t, c, d) PROVE \E j \in Feeds(s, a, b) : i = by + j
    OBVIOUS
  <2>1. i \in (c + 1)..d /\ t[i].kind = "lf"
    BY DEF Feeds
  <2>2. PICK j \in (a + 1)..b : i = by + j
    <3>1. i - by \in (a + 1)..b /\ i = by + (i - by)
      BY <1>1, <2>1
    <3> QED
      BY <3>1
  <2>3. j \in 1..Len(s)
    BY <1>1
  <2>4. j \in Feeds(s, a, b)
    BY <1>1, <2>1, <2>2, <2>3 DEF Feeds
  <2> QED
    BY <2>2, <2>4
<1>3. {by + j : j \in Feeds(s, a, b)} \subseteq Feeds(t, c, d)
  <2> SUFFICES ASSUME NEW j \in Feeds(s, a, b) PROVE by + j \in Feeds(t, c, d)
    OBVIOUS
  <2>1. j \in (a + 1)..b /\ s[j].kind = "lf"
    BY DEF Feeds
  <2>2. j \in 1..Len(s) /\ by + j \in (c + 1)..d
    BY <1>1, <2>1
  <2>3. t[by + j].kind = "lf"
    BY <1>1, <2>1, <2>2
  <2> QED
    BY <2>2, <2>3 DEF Feeds
<1>4. IsFiniteSet(Feeds(s, a, b)) /\ Feeds(s, a, b) \in SUBSET Nat
  BY <1>1, FeedsFinite
<1>5. PICK S, T : S = Feeds(s, a, b) /\ T = Feeds(t, c, d)
  OBVIOUS
<1>6. T = Along(S, by)
  BY <1>2, <1>3, <1>5 DEF Along
<1>7. Cardinality(T) = Cardinality(S)
  BY <1>1, <1>4, <1>5, <1>6, MovedAlong
<1> QED
  BY <1>5, <1>6, <1>7

\* How many records end within the first e bytes.
EndsIn(t, e) == Cardinality(Ends(SubSeq(t, 1, e)))

\* Behind a line feed, each further line feed ends a record, and so does the end.
LEMMA MoreEnds ==
  ASSUME NEW t \in Seq(Bytes), NEW e \in 0..Len(t), NEW d \in 0..e, d = 0 \/ t[d].kind = "lf"
  PROVE  /\ e > 0 /\ t[e].kind = "lf" => EndsIn(t, e) = EndsIn(t, d) + Cardinality(Feeds(t, d, e))
         /\ d < e /\ Feeds(t, d, e) = {} => EndsIn(t, e) = EndsIn(t, d) + 1
         /\ EndsIn(t, d) \in Nat
<1>1. PICK q, r, F, G : q = SubSeq(t, 1, e) /\ r = SubSeq(t, 1, d) /\ F = Feeds(t, 0, d) /\ G = Feeds(t, d, e)
  OBVIOUS
<1>2. d \in 0..Len(t) /\ e \in Nat /\ d \in Nat /\ d <= e
  OBVIOUS
<1>3. Ends(q) = {j \in 1..e : t[j].kind = "lf" \/ j = e}
  <2>1. IsFront(q, t, e)
    BY <1>1, FirstBytes
  <2> QED
    BY <2>1 DEF IsFront
<1>4. Ends(r) = {j \in 1..d : t[j].kind = "lf" \/ j = d}
  <2>1. IsFront(r, t, d)
    BY <1>1, <1>2, FirstBytes
  <2> QED
    BY <2>1 DEF IsFront
<1>5. Ends(r) = F
  BY <1>1, <1>2, <1>4 DEF Feeds
<1>6. /\ IsFiniteSet(F) /\ Cardinality(F) \in Nat /\ IsFiniteSet(G) /\ Cardinality(G) \in Nat
      /\ F \cap G = {}
  <2>1. F \cap G = {}
    BY <1>1, <1>2 DEF Feeds
  <2> QED
    BY <1>1, <1>2, <2>1, FeedsFinite
<1>7. ASSUME e > 0, t[e].kind = "lf" PROVE EndsIn(t, e) = EndsIn(t, d) + Cardinality(G)
  <2>1. Ends(q) = F \cup G
    BY <1>1, <1>2, <1>3, <1>7 DEF Feeds
  <2>2. Cardinality(F \cup G) = Cardinality(F) + Cardinality(G) - Cardinality({})
    BY <1>6, FS_Union
  <2>3. Cardinality(F \cup G) = Cardinality(F) + Cardinality(G)
    BY <1>6, <2>2, FS_EmptySet
  <2> QED
    BY <1>1, <1>5, <2>1, <2>3 DEF EndsIn
<1>8. ASSUME d < e, G = {} PROVE EndsIn(t, e) = EndsIn(t, d) + 1
  <2>1. Ends(q) = F \cup {e} /\ e \notin F
    BY <1>1, <1>2, <1>3, <1>8 DEF Feeds
  <2>2. Cardinality(F \cup {e}) = Cardinality(F) + 1
    BY <1>6, <2>1, FS_AddElement
  <2> QED
    BY <1>1, <1>5, <2>1, <2>2 DEF EndsIn
<1> QED
  BY <1>1, <1>5, <1>6, <1>7, <1>8 DEF EndsIn

-----------------------------------------------------------------------------
(* The feed's place in the stream.                                         *)

\* Up to here the host has its items, or they are staged for it.
At == base + published

\* Where the feed may cut the stream.
IsCut(x) == x = 0 \/ stream[x].kind = "lf" \/ (finishing /\ x = Accepted)

\* The buffer is a stretch of the stream, cut twice.
Placed ==
  /\ stream \in Seq(Bytes) /\ \A i \in 2..Len(stream) : stream[i].kind # "bom"
  /\ profile \in Kept /\ finishing \in BOOLEAN
  /\ Stretch(retained, stream, base) /\ Len(retained) <= MaxRetained
  /\ published \in 0..complete /\ complete \in 0..Len(retained)
  /\ finishing => complete = Len(retained)
  /\ IsCut(At) /\ IsCut(base + complete)

\* The ordinals behind the feed.
Counted == ordinals = EndsIn(stream, At)

\* A feed that lives has delivered the drive up to where it is.
Live ==
  LET whole == Whole(profile, stream, At)
  IN  cause = "none" /\ whole.stop = "none" /\ Shown = whole.out /\ reports = whole.reports

\* A feed that died did so in a batch that ended at e: at a fault where the drive
\* does, with all that is before it; at its cap with a part of what is.
Died(e) ==
  LET whole == Whole(profile, stream, e)
  IN  /\ IsCut(e)
      /\ cause = "fault" => /\ whole.stop = "fault" /\ Shown = whole.out /\ reports = whole.reports
                            /\ At <= whole.offset /\ whole.offset < e
      /\ cause = "sink" => Begins(Nat, Shown, whole.out) /\ Begins(Reports, reports, whole.reports)

Dead == cause \in {"fault", "sink"} /\ \E e \in (At + 1)..(base + complete) : Died(e)

\* The rest.
Typed ==
  /\ terminal \in BOOLEAN /\ program \in BOOLEAN
  /\ staged # NONE => staged \in Seq(Nat) /\ Len(staged) <= MaxRetained
  /\ diagnostics \in Buffers(DiagnosticCap)
  /\ answer \in Nat \cup {NONE, FAILED}
  /\ received \in Seq(Nat) /\ reports \in Seq(Reports)

\* The inductive invariant.
FeedInv ==
  /\ Placed /\ Counted /\ Typed
  /\ ~terminal => Live
  /\ terminal => Dead

\* The places, in their order.
LEMMA PlacesOrdered ==
  ASSUME Placed
  PROVE  /\ base \in Nat /\ published \in Nat /\ complete \in Nat
         /\ Len(retained) \in Nat /\ Len(stream) \in Nat /\ At \in Nat /\ Accepted \in Nat
         /\ At <= base + complete /\ base + complete <= Accepted /\ Accepted <= Len(stream)
         /\ retained \in Seq(Bytes) /\ stream \in Seq(Bytes)
         /\ At < base + complete => At = 0 \/ stream[At].kind = "lf"
<1>1. /\ base \in Nat /\ retained \in Seq(Bytes) /\ stream \in Seq(Bytes)
      /\ base + Len(retained) <= Len(stream)
  BY DEF Placed, Stretch
<1>2. Len(retained) \in Nat /\ Len(stream) \in Nat
  BY <1>1, LenProperties
<1>3. complete \in Nat /\ complete <= Len(retained) /\ published \in Nat /\ published <= complete
  BY <1>2 DEF Placed
<1>4. At \in Nat /\ Accepted \in Nat /\ Accepted <= Len(stream)
      /\ At <= base + complete /\ base + complete <= Accepted
  BY <1>1, <1>2, <1>3 DEF At, Accepted
<1>5. ASSUME At < base + complete PROVE At = 0 \/ stream[At].kind = "lf"
  <2>1. At # Accepted
    BY <1>1, <1>3, <1>4, <1>5
  <2> QED
    BY <2>1 DEF Placed, IsCut
<1> QED
  BY <1>1, <1>2, <1>3, <1>4, <1>5

\* What the next batch is: up to a line feed, or the rest of a finished stream.
IsBatch(batch) ==
  /\ batch.end \in (published + 1)..complete
  /\ \/ /\ retained[batch.end].kind = "lf"
        /\ batch.records = Cardinality(Feeds(retained, published, batch.end))
     \/ /\ finishing /\ batch.end = complete /\ batch.records = 1
        /\ Feeds(retained, published, complete) = {}

\* The bounds do not matter to that.
LEMMA NextBatchIs ==
  ASSUME Placed, NextBatch # NONE
  PROVE  IsBatch(NextBatch)
<1> DEFINE feeds == {i \in published + 1..complete : retained[i].kind = "lf"}
           count(i) == Cardinality({j \in feeds : j <= i})
           full == {i \in feeds : count(i) >= BatchEntries \/ i - published >= BatchBytes}
           end == IF full # {} THEN Min(full) ELSE Max(feeds)
<1>1. published \in Nat /\ complete \in Nat
  BY PlacesOrdered
<1>2. feeds = Feeds(retained, published, complete)
  BY DEF Feeds
<1>3. CASE feeds # {}
  <2>1. end \in feeds
    <3>1. CASE full # {}
      <4>1. full \in SUBSET Nat
        BY <1>1
      <4> HIDE DEF full
      <4>2. Min(full) \in full
        BY <3>1, <4>1, LeastPosition
      <4>3. Min(full) \in feeds
        BY <4>2 DEF full
      <4> QED
        BY <3>1, <4>3
    <3>2. CASE full = {}
      <4>1. feeds \in SUBSET (1..complete)
        BY <1>1
      <4> HIDE DEF feeds, full
      <4>2. Max(feeds) \in feeds
        BY <1>1, <1>3, <4>1, LastPosition
      <4> QED
        BY <3>2, <4>2
    <3> QED
      BY <3>1, <3>2
  <2> HIDE DEF end, full
  <2>2. end \in (published + 1)..complete /\ retained[end].kind = "lf"
    BY <2>1
  <2>3. {j \in feeds : j <= end} = Feeds(retained, published, end)
    BY <1>1, <2>2 DEF Feeds
  <2>4. NextBatch = [end |-> end, records |-> count(end)]
    <3> HIDE DEF feeds, count
    <3> QED
      BY <1>3, Zenon DEF NextBatch, feeds, count, full, end
  <2>5. NextBatch.end = end /\ NextBatch.records = Cardinality(Feeds(retained, published, end))
    BY <2>3, <2>4
  <2> QED
    BY <2>2, <2>5 DEF IsBatch
<1>4. CASE feeds = {}
  <2>1. finishing /\ published < complete /\ NextBatch = [end |-> complete, records |-> 1]
    BY <1>4 DEF NextBatch
  <2>2. NextBatch.end = complete /\ NextBatch.records = 1
    BY <2>1
  <2>3. complete \in (published + 1)..complete
    BY <1>1, <2>1
  <2> QED
    BY <1>2, <1>4, <2>1, <2>2, <2>3 DEF IsBatch
<1> QED
  BY <1>3, <1>4

\* A batch of the stream: from where the feed is to a later cut.
IsBatchOfStream(batch, e) ==
  /\ e \in (At + 1)..(base + complete) /\ e \in 1..Len(stream) /\ At \in 0..(e - 1)
  /\ At = 0 \/ stream[At].kind = "lf"
  /\ IsCut(e)
  /\ batch.end \in (published + 1)..complete
  /\ EndsIn(stream, e) = EndsIn(stream, At) + batch.records /\ EndsIn(stream, At) \in Nat
  /\ Behind(retained, published, batch.end) = Behind(stream, At, e)

\* The next batch is one of the stream.
LEMMA BatchOfStream ==
  ASSUME Placed, NEW batch, IsBatch(batch), NEW e, e = base + batch.end
  PROVE  IsBatchOfStream(batch, e)
<1>1. PICK end, at, n : end = batch.end /\ at = At /\ n = batch.records
  OBVIOUS
<1>2. /\ base \in Nat /\ published \in Nat /\ complete \in Nat
      /\ Len(retained) \in Nat /\ Len(stream) \in Nat /\ at \in Nat /\ Accepted \in Nat
      /\ base + complete <= Accepted /\ Accepted <= Len(stream)
      /\ retained \in Seq(Bytes) /\ stream \in Seq(Bytes)
  BY <1>1, PlacesOrdered
<1>3. end \in (published + 1)..complete /\ at = base + published /\ e = base + end
  BY <1>1 DEF IsBatch, At
<1>4. /\ e \in (at + 1)..(base + complete) /\ e \in 1..Len(stream) /\ at \in 0..(e - 1)
      /\ e \in 0..Len(stream) /\ at \in 0..e /\ at < e /\ at < base + complete
      /\ complete <= Len(retained)
  BY <1>2, <1>3 DEF Placed
<1>5. at = 0 \/ stream[at].kind = "lf"
  BY <1>1, <1>4, PlacesOrdered
<1>6. Stretch(retained, stream, base) /\ end \in 0..Len(retained) /\ end \in 1..Len(retained)
  BY <1>2, <1>3, <1>4 DEF Placed
<1>7. Behind(retained, published, end) = Behind(stream, at, e)
  <2>1. published \in Nat /\ at = base + published /\ e = base + end
    BY <1>2, <1>3
  <2> QED
    BY <1>6, <2>1, SameBytes
<1>8. /\ Feeds(stream, at, e) = Along(Feeds(retained, published, end), base)
      /\ Cardinality(Feeds(stream, at, e)) = Cardinality(Feeds(retained, published, end))
  <2>1. published \in Nat /\ at = base + published /\ e = base + end
    BY <1>2, <1>3
  <2> QED
    BY <1>6, <2>1, FeedsOfStretch
<1>9. /\ stream[e].kind = "lf" => EndsIn(stream, e) = EndsIn(stream, at) + Cardinality(Feeds(stream, at, e))
      /\ Feeds(stream, at, e) = {} => EndsIn(stream, e) = EndsIn(stream, at) + 1
      /\ EndsIn(stream, at) \in Nat
  <2>1. e > 0
    BY <1>4
  <2> QED
    BY <1>2, <1>4, <1>5, <2>1, MoreEnds
<1>10. CASE retained[end].kind = "lf" /\ n = Cardinality(Feeds(retained, published, end))
  <2>1. stream[e].kind = "lf"
    BY <1>3, <1>6, <1>10 DEF Stretch
  <2>2. IsCut(e)
    BY <2>1 DEF IsCut
  <2>3. EndsIn(stream, e) = EndsIn(stream, at) + n
    BY <1>8, <1>9, <1>10, <2>1
  <2> QED
    BY <1>1, <1>3, <1>4, <1>5, <1>7, <1>9, <2>2, <2>3 DEF IsBatchOfStream
<1>11. CASE finishing /\ end = complete /\ n = 1 /\ Feeds(retained, published, complete) = {}
  <2>1. e = Accepted
    BY <1>3, <1>11 DEF Placed, Accepted
  <2>2. IsCut(e)
    BY <1>11, <2>1 DEF IsCut
  <2>3. Feeds(stream, at, e) = {}
    BY <1>8, <1>11 DEF Along
  <2>4. EndsIn(stream, e) = EndsIn(stream, at) + n
    BY <1>9, <1>11, <2>3
  <2> QED
    BY <1>1, <1>3, <1>4, <1>5, <1>7, <1>9, <2>2, <2>4 DEF IsBatchOfStream
<1> QED
  BY <1>1, <1>10, <1>11 DEF IsBatch

-----------------------------------------------------------------------------
(* What the steps keep.                                                    *)

\* What a poll may answer.
Answers == Nat \cup {NONE, FAILED}

\* What was delivered stays what it was, where nothing is and no cut is undone.
LEMMA StoryKept ==
  ASSUME Placed, ~terminal => Live, terminal => Dead,
         UNCHANGED <<stream, profile, terminal, cause, reports>>, Shown' = Shown, At' = At,
         base' + complete' \in Nat, base + complete <= base' + complete',
         finishing => finishing' /\ Accepted' = Accepted
  PROVE  (~terminal' => Live') /\ (terminal' => Dead')
<1>1. ASSUME ~terminal' PROVE Live'
  BY <1>1 DEF Live
<1>2. ASSUME terminal' PROVE Dead'
  <2>1. PICK e \in (At + 1)..(base + complete) : Died(e)
    BY <1>2 DEF Dead
  <2>2. IsCut(e)'
    BY <2>1 DEF Died, IsCut
  <2>3. Died(e)'
    BY <2>1, <2>2 DEF Died
  <2>4. At \in Nat /\ base + complete \in Nat
    BY PlacesOrdered
  <2>5. e \in (At' + 1)..(base' + complete')
    BY <2>4
  <2>6. cause' \in {"fault", "sink"}
    BY <1>2 DEF Dead
  <2> QED
    BY <2>3, <2>5, <2>6 DEF Dead
<1> QED
  BY <1>1, <1>2

\* A call that touches neither the feed nor what was delivered.
LEMMA IdleKeeps ==
  ASSUME FeedInv, UNCHANGED <<stream, profile, feed, received, reports, cause>>,
         diagnostics' \in Buffers(DiagnosticCap), answer' \in Answers, program' \in BOOLEAN
  PROVE  FeedInv'
<1>1. UNCHANGED <<retained, complete, published, finishing, staged, terminal, base, ordinals>>
  BY DEF feed
<1>2. At' = At /\ Accepted' = Accepted /\ Shown' = Shown
  BY <1>1 DEF At, Accepted, Shown
<1>3. Placed'
  BY <1>1, <1>2 DEF FeedInv, Placed, IsCut
<1>4. Counted'
  BY <1>1, <1>2 DEF FeedInv, Counted
<1>5. Typed'
  BY <1>1 DEF FeedInv, Typed, Answers
<1>6. (~terminal' => Live') /\ (terminal' => Dead')
  <2>1. base' + complete' \in Nat /\ base + complete <= base' + complete'
    BY <1>1, PlacesOrdered DEF FeedInv
  <2> QED
    BY <1>1, <1>2, <2>1, StoryKept DEF FeedInv
<1> QED
  BY <1>3, <1>4, <1>5, <1>6 DEF FeedInv

\* The end of the stream is a cut.
LEMMA FinishKeeps ==
  ASSUME FeedInv, Finish
  PROVE  FeedInv'
<1>1. /\ ~terminal /\ ~finishing /\ finishing' = TRUE /\ complete' = Len(retained)
      /\ UNCHANGED <<stream, profile, retained, published, staged, terminal, base, ordinals,
                     diagnostics, program, answer, received, reports, cause>>
  BY DEF Finish
<1>2. /\ base \in Nat /\ published \in Nat /\ complete \in Nat /\ Len(retained) \in Nat
      /\ At \in Nat /\ published <= complete /\ complete <= Len(retained) /\ complete \in 0..Len(retained)
  BY PlacesOrdered DEF FeedInv, Placed
<1>3. At' = At /\ Accepted' = Accepted /\ Shown' = Shown /\ base' + complete' = Accepted
  BY <1>1 DEF At, Accepted, Shown
<1>4. Placed'
  <2>1. IsCut(At)' /\ IsCut(base + complete)'
    BY <1>1, <1>3 DEF FeedInv, Placed, IsCut
  <2>2. published' \in 0..complete' /\ complete' \in 0..Len(retained')
    BY <1>1, <1>2
  <2> QED
    BY <1>1, <2>1, <2>2 DEF FeedInv, Placed
<1>5. Counted'
  BY <1>1, <1>3 DEF FeedInv, Counted
<1>6. Typed'
  BY <1>1 DEF FeedInv, Typed
<1>7. (~terminal' => Live') /\ (terminal' => Dead')
  <2>1. base' + complete' \in Nat /\ base + complete <= base' + complete'
    BY <1>1, <1>2
  <2> QED
    BY <1>1, <1>3, <2>1, StoryKept DEF FeedInv
<1> QED
  BY <1>4, <1>5, <1>6, <1>7 DEF FeedInv

\* A piece of n bytes goes on with the stretch.
Meets(s, t, by, piece, n) ==
  /\ piece \in Seq(Bytes) /\ Len(piece) = n /\ \A i \in 1..n : piece[i] = t[by + Len(s) + i]
  /\ Stretch(s \o piece, t, by) /\ Len(s \o piece) = Len(s) + n

\* The next bytes do.
LEMMA StretchesMeet ==
  ASSUME NEW s, NEW t, NEW by, Stretch(s, t, by), NEW n \in Nat, by + Len(s) + n <= Len(t),
         NEW m, m = by + Len(s) + n,
         NEW piece, piece = SubSeq(t, by + Len(s) + 1, m)
  PROVE  Meets(s, t, by, piece, n)
<1>1. PICK k : k = by + Len(s)
  OBVIOUS
<1>2. /\ s \in Seq(Bytes) /\ t \in Seq(Bytes) /\ by \in Nat /\ Len(s) \in Nat /\ Len(t) \in Nat
      /\ k \in Nat /\ k + n \in k..Len(t)
  BY <1>1 DEF Stretch
<1>3. Stretch(piece, t, k) /\ Len(piece) = n
  <2>1. PICK end : end = k + n
    OBVIOUS
  <2>2. end \in k..Len(t) /\ end - k = n
    BY <1>2, <2>1
  <2>3. piece = SubSeq(t, k + 1, end)
    BY <1>1, <2>1
  <2> QED
    BY <1>2, <2>2, <2>3, SubSeqStretch
<1>4. piece \in Seq(Bytes) /\ \A i \in 1..n : piece[i] = t[k + i]
  BY <1>3 DEF Stretch
<1>5. PICK both : both = s \o piece
  OBVIOUS
<1>6. /\ both \in Seq(Bytes) /\ Len(both) = Len(s) + n
      /\ \A i \in 1..(Len(s) + n) : both[i] = IF i <= Len(s) THEN s[i] ELSE piece[i - Len(s)]
  <2>1. /\ both \in Seq(Bytes) /\ Len(both) = Len(s) + Len(piece)
        /\ \A i \in 1..(Len(s) + Len(piece)) :
             both[i] = IF i <= Len(s) THEN s[i] ELSE piece[i - Len(s)]
    <3>1. s \in Seq(Bytes) /\ piece \in Seq(Bytes)
      BY <1>2, <1>4
    <3> QED
      BY <1>5, <3>1, JoinIs
  <2>2. Len(piece) = n
    BY <1>3
  <2> QED
    BY <2>1, <2>2
<1>7. \A i \in 1..Len(both) : both[i] = t[by + i]
  <2> SUFFICES ASSUME NEW i \in 1..Len(both) PROVE both[i] = t[by + i]
    OBVIOUS
  <2>1. i \in 1..(Len(s) + n)
    BY <1>6
  <2>2. CASE i <= Len(s)
    <3>1. i \in 1..Len(s)
      BY <1>2, <2>1, <2>2
    <3> QED
      BY <1>6, <2>1, <2>2, <3>1 DEF Stretch
  <2>3. CASE i > Len(s)
    <3>1. i - Len(s) \in 1..n /\ k + (i - Len(s)) = by + i /\ ~(i <= Len(s))
      BY <1>1, <1>2, <2>1, <2>3
    <3>2. both[i] = piece[i - Len(s)]
      BY <1>6, <2>1, <3>1
    <3>3. piece[i - Len(s)] = t[k + (i - Len(s))]
      BY <1>4, <3>1
    <3> QED
      BY <3>1, <3>2, <3>3
  <2> QED
    BY <1>2, <2>1, <2>2, <2>3
<1>8. by + Len(both) <= Len(t)
  BY <1>1, <1>2, <1>6
<1>9. Stretch(both, t, by)
  BY <1>2, <1>6, <1>7, <1>8 DEF Stretch
<1> QED
  BY <1>1, <1>3, <1>4, <1>5, <1>6, <1>9 DEF Meets

\* The last line feed of a piece is the new cut.
LEMMA CutIs ==
  ASSUME NEW piece, NEW n \in Nat, DOMAIN piece = 1..n
  PROVE  \/ Cut(piece) = complete
         \/ \E i \in 1..n : Cut(piece) = Len(retained) + i /\ piece[i].kind = "lf"
<1> DEFINE feeds == {i \in DOMAIN piece : piece[i].kind = "lf"}
<1>1. CASE feeds = {}
  BY <1>1 DEF Cut
<1>2. CASE feeds # {}
  <2>1. feeds \in SUBSET (1..n)
    OBVIOUS
  <2>2. Cut(piece) = Len(retained) + Max(feeds)
    BY <1>2 DEF Cut
  <2> HIDE DEF feeds
  <2>3. Max(feeds) \in feeds
    BY <1>2, <2>1, LastPosition
  <2>4. Max(feeds) \in 1..n /\ piece[Max(feeds)].kind = "lf"
    BY <2>1, <2>3 DEF feeds
  <2> QED
    BY <2>2, <2>4
<1> QED
  BY <1>1, <1>2

\* A push goes on with the stream.
LEMMA PushKeeps ==
  ASSUME FeedInv, NEW n \in Nat, n > 0, Push(n)
  PROVE  FeedInv'
<1>1. PICK piece : piece = SubSeq(stream, Accepted + 1, Accepted + n)
  OBVIOUS
<1>2. /\ ~finishing /\ Accepted + n <= Len(stream)
      /\ UNCHANGED <<stream, profile, published, finishing, staged, terminal, base, ordinals,
                     program, answer, received, reports, cause>>
  BY DEF Push
<1>3. \/ /\ Len(retained) + n <= MaxRetained
         /\ retained' = retained \o piece /\ complete' = Cut(piece) /\ UNCHANGED diagnostics
      \/ /\ diagnostics' = Note(diagnostics, "refused push") /\ UNCHANGED <<retained, complete>>
  BY <1>1 DEF Push
<1>4. /\ base \in Nat /\ published \in Nat /\ complete \in Nat /\ Len(retained) \in Nat
      /\ published <= complete /\ complete <= Len(retained) /\ n \in Nat /\ n > 0
      /\ Stretch(retained, stream, base) /\ Len(retained) <= MaxRetained /\ MaxRetained \in Nat
  BY PlacesOrdered, FeedAssumption DEF FeedInv, Placed
<1>5. At' = At /\ Shown' = Shown
  BY <1>2 DEF At, Shown
<1>6. diagnostics' \in Buffers(DiagnosticCap)
  BY <1>3, NoteTyped DEF FeedInv, Typed
<1>7. /\ Stretch(retained', stream, base) /\ Len(retained') <= MaxRetained
      /\ complete' \in complete..Len(retained')
      /\ complete' = complete \/ stream[base + complete'].kind = "lf"
  <2>1. CASE UNCHANGED <<retained, complete>>
    BY <1>4, <2>1
  <2>2. CASE Len(retained) + n <= MaxRetained /\ retained' = retained \o piece /\ complete' = Cut(piece)
    <3>1. PICK m : m = base + Len(retained) + n
      OBVIOUS
    <3>2. base + Len(retained) + n <= Len(stream) /\ piece = SubSeq(stream, base + Len(retained) + 1, m)
      BY <1>1, <1>2, <3>1 DEF Accepted
    <3>3. Meets(retained, stream, base, piece, n)
      BY <1>4, <3>1, <3>2, StretchesMeet
    <3>4. Stretch(retained', stream, base) /\ Len(retained') = Len(retained) + n
      BY <2>2, <3>3 DEF Meets
    <3>5. DOMAIN piece = 1..n /\ \A i \in 1..n : piece[i] = stream[base + Len(retained) + i]
      BY <3>3, LenProperties DEF Meets
    <3>6. \/ complete' = complete
          \/ \E i \in 1..n : complete' = Len(retained) + i /\ piece[i].kind = "lf"
      BY <1>4, <2>2, <3>5, CutIs
    <3>7. CASE complete' = complete
      BY <1>4, <2>2, <3>4, <3>7
    <3>8. ASSUME NEW i \in 1..n, complete' = Len(retained) + i, piece[i].kind = "lf"
          PROVE  /\ complete' \in complete..Len(retained')
                 /\ stream[base + complete'].kind = "lf"
      <4>1. base + Len(retained) + i = base + complete'
        BY <1>4, <3>8
      <4> QED
        BY <1>4, <3>4, <3>5, <3>8, <4>1
    <3> QED
      BY <2>2, <3>4, <3>6, <3>7, <3>8
  <2> QED
    BY <1>3, <2>1, <2>2
<1>8. complete' \in Nat /\ complete <= complete' /\ base + complete <= base + complete' /\ base + complete' \in Nat
      /\ Len(retained') \in Nat
  <2>1. Len(retained') \in Nat
    BY <1>7, LenProperties DEF Stretch
  <2>2. complete' \in Nat /\ complete <= complete'
    BY <1>4, <1>7, <2>1
  <2>3. base \in Nat /\ complete \in Nat
    BY <1>4
  <2>4. PICK b, c, d : b = base /\ c = complete /\ d = complete'
    OBVIOUS
  <2>5. b \in Nat /\ c \in Nat /\ d \in Nat /\ c <= d
    BY <2>2, <2>3, <2>4
  <2>6. b + c <= b + d /\ b + d \in Nat
    BY <2>5
  <2> QED
    BY <2>1, <2>2, <2>4, <2>6
<1>9. Placed'
  <2>1. IsCut(At)'
    BY <1>2, <1>5 DEF FeedInv, Placed, IsCut
  <2>2. IsCut(base + complete)'
    BY <1>2, <1>7 DEF FeedInv, Placed, IsCut
  <2>3. published' \in 0..complete' /\ complete' \in 0..Len(retained')
    BY <1>2, <1>4, <1>7, <1>8
  <2> QED
    BY <1>2, <1>7, <2>1, <2>2, <2>3 DEF FeedInv, Placed
<1>10. Counted'
  BY <1>2, <1>5 DEF FeedInv, Counted
<1>11. Typed'
  BY <1>2, <1>6 DEF FeedInv, Typed
<1>12. (~terminal' => Live') /\ (terminal' => Dead')
  <2>1. base' + complete' \in Nat /\ base + complete <= base' + complete'
    BY <1>2, <1>8
  <2> QED
    BY <1>2, <1>5, <2>1, StoryKept DEF FeedInv
<1> QED
  BY <1>9, <1>10, <1>11, <1>12 DEF FeedInv

\* A stretch of a stretch.
LEMMA StretchWithin ==
  ASSUME NEW s, NEW t, NEW by, Stretch(s, t, by), NEW u, NEW a, Stretch(u, s, a),
         NEW m, m = by + a
  PROVE  Stretch(u, t, m)
<1>1. /\ by \in Nat /\ a \in Nat /\ Len(s) \in Nat /\ Len(u) \in Nat /\ Len(t) \in Nat
      /\ by + Len(s) <= Len(t) /\ a + Len(u) <= Len(s)
      /\ u \in Seq(Bytes) /\ t \in Seq(Bytes)
  BY DEF Stretch
<1>2. ASSUME NEW j \in 1..Len(u) PROVE u[j] = t[m + j]
  <2>1. a + j \in 1..Len(s) /\ by + (a + j) = m + j
    BY <1>1
  <2>2. u[j] = s[a + j] /\ s[a + j] = t[by + (a + j)]
    BY <2>1 DEF Stretch
  <2> QED
    BY <2>1, <2>2
<1>3. m \in Nat /\ m + Len(u) <= Len(t)
  BY <1>1
<1> QED
  BY <1>1, <1>2, <1>3 DEF Stretch

\* Whether it fits or stays, a batch is shown once.
LEMMA DeliverShows ==
  ASSUME NEW batch \in Seq(Nat), NEW end, NEW dead, NEW room, Deliver(batch, end, dead, room),
         received \in Seq(Nat)
  PROVE  /\ Shown' = received \o batch /\ received' \in Seq(Nat)
         /\ staged' # NONE => staged' = batch
         /\ answer' \in Nat
<1>1. answer' = Len(batch) /\ answer' \in Nat
  BY LenProperties DEF Deliver
<1>2. batch # NONE
  BY FeedAssumption
<1>3. CASE Len(batch) > room
  <2>1. staged' = batch /\ received' = received
    BY <1>3 DEF Deliver
  <2> QED
    BY <1>1, <1>2, <2>1 DEF Shown
<1>4. CASE ~(Len(batch) > room)
  <2>1. staged' = NONE /\ received' = received \o batch
    BY <1>4 DEF Deliver
  <2>2. received \o batch \in Seq(Nat)
    BY ConcatProperties
  <2>3. (received \o batch) \o <<>> = received \o batch
    BY <2>2, ConcatEmptySeq
  <2> QED
    BY <1>1, <2>1, <2>2, <2>3 DEF Shown
<1> QED
  BY <1>3, <1>4

\* A delivery moves the cut behind the batch, a dead one leaves it; no byte moves.
LEMMA DeliverMoves ==
  ASSUME Placed, NEW batch, NEW end \in published..complete, NEW dead \in BOOLEAN, NEW room,
         Deliver(batch, end, dead, room), UNCHANGED <<stream, profile, finishing>>,
         NEW e, e = base + end, IsCut(e)
  PROVE  /\ Placed' /\ Accepted' = Accepted /\ base' + complete' = base + complete
         /\ dead => At' = At
         /\ ~dead => At' = e
<1>1. PICK b, c, p, n : b = base /\ c = complete /\ p = published /\ n = Len(retained)
  OBVIOUS
<1>2. /\ b \in Nat /\ c \in Nat /\ p \in Nat /\ n \in Nat /\ end \in Nat /\ e \in Nat
      /\ p <= end /\ end <= c /\ c <= n /\ b + n <= Len(stream) /\ e = b + end
      /\ Stretch(retained, stream, b) /\ retained \in Seq(Bytes)
  <2>1. b \in Nat /\ c \in Nat /\ p \in Nat /\ n \in Nat /\ retained \in Seq(Bytes)
    BY <1>1, PlacesOrdered
  <2>2. p <= end /\ end <= c /\ end \in Nat
    BY <1>1, <2>1
  <2>3. c <= n /\ Stretch(retained, stream, b)
    BY <1>1, <2>1 DEF Placed
  <2>4. e = b + end /\ e \in Nat
    BY <1>1, <2>1, <2>2
  <2>5. b + n <= Len(stream)
    BY <1>1, <2>3 DEF Stretch
  <2> QED
    BY <2>1, <2>2, <2>3, <2>4, <2>5
<1>3. CASE UNCHANGED <<retained, complete, base>> /\ published' = (IF dead THEN published ELSE end)
  <2>1. Accepted' = Accepted /\ base' + complete' = base + complete
    BY <1>3 DEF Accepted
  <2>2. dead => At' = At
    BY <1>3 DEF At
  <2>3. ~dead => At' = e
    BY <1>3 DEF At
  <2>4. IsCut(At)' /\ IsCut(base + complete)'
    BY <2>1, <2>2, <2>3 DEF Placed, IsCut
  <2>5. published' \in 0..complete'
    BY <1>1, <1>2, <1>3
  <2>6. Placed'
    BY <1>3, <2>4, <2>5 DEF Placed
  <2> QED
    BY <2>1, <2>2, <2>3, <2>6
<1>4. CASE /\ ~dead /\ retained' = SubSeq(retained, end + 1, n)
           /\ complete' = c - end /\ base' = e /\ published' = 0
  <2>1. PICK rest : rest = SubSeq(retained, end + 1, n)
    OBVIOUS
  <2>2. Stretch(rest, retained, end) /\ Len(rest) = n - end
    <3>1. n \in end..Len(retained)
      BY <1>1, <1>2
    <3> QED
      BY <1>2, <2>1, <3>1, SubSeqStretch
  <2>3. Stretch(rest, stream, e)
    BY <1>2, <2>2, StretchWithin
  <2>4. Stretch(retained', stream', base') /\ Len(retained') = n - end
    BY <1>4, <2>1, <2>2, <2>3
  <2>5. At' = e
    BY <1>2, <1>4 DEF At
  <2>6. Accepted' = Accepted
    <3>1. e + (n - end) = b + n
      BY <1>2
    <3> QED
      BY <1>1, <1>4, <2>4, <3>1 DEF Accepted
  <2>7. base' + complete' = base + complete
    <3>1. e + (c - end) = b + c
      BY <1>2
    <3> QED
      BY <1>1, <1>4, <3>1
  <2>8. IsCut(At)' /\ IsCut(base + complete)'
    BY <2>5, <2>6, <2>7 DEF Placed, IsCut
  <2>9. published' \in 0..complete' /\ complete' \in 0..Len(retained')
    <3>1. c - end \in 0..(n - end) /\ 0 \in 0..(c - end)
      BY <1>2
    <3> QED
      BY <1>4, <2>4, <3>1
  <2>10. Len(retained') <= MaxRetained
    <3>1. n <= MaxRetained /\ MaxRetained \in Nat
      BY <1>1, FeedAssumption DEF Placed
    <3>2. n - end <= MaxRetained
      BY <1>2, <3>1
    <3> QED
      BY <2>4, <3>2
  <2>11. finishing' => complete' = Len(retained')
    BY <1>1, <1>4, <2>4 DEF Placed
  <2>12. Placed'
    BY <2>4, <2>8, <2>9, <2>10, <2>11 DEF Placed
  <2> QED
    BY <1>4, <2>5, <2>6, <2>7, <2>12
<1>5. CASE dead \/ Len(batch) > room
  BY <1>3, <1>5 DEF Deliver
<1>6. CASE ~(dead \/ Len(batch) > room)
  <2>1. /\ retained' = SubSeq(retained, end + 1, Len(retained))
        /\ complete' = complete - end /\ base' = base + end /\ published' = 0
    BY <1>6 DEF Deliver
  <2> QED
    BY <1>1, <1>4, <1>6, <2>1
<1> QED
  BY <1>5, <1>6

\* A batch that stayed is delivered again, as it was.
LEMMA RedeliverKeeps ==
  ASSUME FeedInv, NEW room, Redeliver(room)
  PROVE  FeedInv'
<1>1. /\ staged # NONE /\ Deliver(staged, published, terminal, room)
      /\ UNCHANGED <<stream, profile, finishing, terminal, ordinals, diagnostics, program, reports, cause>>
  BY DEF Redeliver
<1>2. staged \in Seq(Nat) /\ Len(staged) <= MaxRetained /\ received \in Seq(Nat) /\ terminal \in BOOLEAN
  BY <1>1 DEF FeedInv, Typed
<1>3. /\ Shown' = received \o staged /\ received' \in Seq(Nat)
      /\ staged' # NONE => staged' = staged
      /\ answer' \in Nat
  BY <1>1, <1>2, DeliverShows
<1>4. Shown' = Shown
  BY <1>1, <1>3 DEF Shown
<1>5. PICK e : e = base + published
  OBVIOUS
<1>6. e = At /\ IsCut(e) /\ published \in published..complete
  <2>1. published \in Nat /\ complete \in Nat /\ published <= complete
    BY PlacesOrdered DEF FeedInv, Placed
  <2> QED
    BY <1>5, <2>1 DEF FeedInv, Placed, At
<1>7. Placed' /\ Accepted' = Accepted /\ base' + complete' = base + complete /\ At' = At
  BY <1>1, <1>2, <1>5, <1>6, DeliverMoves DEF FeedInv
<1>8. Counted'
  BY <1>1, <1>7 DEF FeedInv, Counted
<1>9. Typed'
  BY <1>1, <1>2, <1>3 DEF FeedInv, Typed
<1>10. (~terminal' => Live') /\ (terminal' => Dead')
  <2>1. base' + complete' \in Nat /\ base + complete <= base' + complete'
    BY <1>7, PlacesOrdered DEF FeedInv
  <2> QED
    BY <1>1, <1>4, <1>7, <2>1, StoryKept DEF FeedInv
<1> QED
  BY <1>7, <1>8, <1>9, <1>10 DEF FeedInv

\* The drive over a batch gives what the drive over the stream makes of it.
LEMMA RunOfBatch ==
  ASSUME Placed, Counted, Live, NEW batch, NEW e, IsBatchOfStream(batch, e),
         NEW run, run = Drive(profile, SubSeq(retained, published + 1, batch.end), MaxRetained)
  PROVE  /\ run \in Capped(MaxRetained)
         /\ Alike(Whole(profile, stream, e), run, Shown, reports, At, ordinals)
<1>1. PICK t, at, o, part, before : /\ t = stream /\ at = At /\ o = ordinals
                                    /\ part = SubSeq(t, at + 1, e) /\ before = Whole(profile, t, at)
  OBVIOUS
<1>2. /\ e \in 1..Len(t) /\ at \in 0..(e - 1)
      /\ at = 0 \/ t[at].kind = "lf"
      /\ Behind(retained, published, batch.end) = Behind(t, at, e)
  BY <1>1 DEF IsBatchOfStream
<1>3. run = Drive(profile, part, MaxRetained)
  BY <1>1, <1>2 DEF Behind
<1>4. t \in Seq(Bytes) /\ (\A i \in 2..Len(t) : t[i].kind # "bom") /\ profile \in Kept /\ MaxRetained \in Nat
  BY <1>1, PlacesOrdered, FeedAssumption DEF Placed
<1>5. before.stop = "none" /\ before.out = Shown /\ before.reports = reports
  BY <1>1 DEF Live
<1>6. o = Cardinality(Ends(SubSeq(t, 1, at)))
  BY <1>1 DEF Counted, EndsIn
<1>7. Alike(Whole(profile, t, e), Drive(profile, part, MaxRetained), before.out, before.reports, at, o)
  <2>1. part = SubSeq(t, at + 1, e) /\ before = Whole(profile, t, at) /\ before.stop = "none"
    BY <1>1, <1>5
  <2>2. e \in 1..Len(t) /\ at \in 0..(e - 1) /\ (at = 0 \/ t[at].kind = "lf")
    BY <1>2
  <2> QED
    BY <1>4, <1>6, <2>1, <2>2, BatchIsAlike
<1>8. run \in Capped(MaxRetained)
  <2>1. part \in Seq(Bytes)
    <3>0. Len(t) \in Nat /\ e \in 1..Len(t) /\ at \in 0..(e - 1)
      BY <1>2, <1>4, LenProperties
    <3>1. at \in Nat /\ e \in at..Len(t)
      BY <3>0
    <3>2. Stretch(part, t, at)
      BY <1>1, <1>4, <3>1, SubSeqStretch
    <3> QED
      BY <3>2 DEF Stretch
  <2>2. PICK f : f = After(profile, part, MaxRetained)
    OBVIOUS
  <2>3. IsDrive(profile, part, MaxRetained, f) /\ run = f[Len(part)]
    BY <1>3, <1>4, <2>1, <2>2, DriveIsDrive
  <2>4. Len(part) \in 0..Len(part)
    BY <2>1
  <2> QED
    BY <2>3, <2>4 DEF IsDrive
<1> QED
  BY <1>1, <1>3, <1>5, <1>7, <1>8

\* The feed's rebasing is the drive's.
LEMMA RebasedIs ==
  ASSUME Placed, ordinals \in Nat, NEW told \in Seq(Reports)
  PROVE  [i \in DOMAIN told |-> Rebased(told[i])] = Told(told, At, ordinals)
<1>1. base \in Nat /\ published \in Nat
  BY PlacesOrdered
<1>2. ASSUME NEW r \in Reports PROVE Rebased(r) = RebasedBy(r, At, ordinals)
  <2>1. r.offset \in Nat
    BY DEF Reports
  <2>2. r.offset + base + published = r.offset + (base + published)
    BY <1>1, <2>1
  <2> QED
    BY <2>2 DEF Rebased, RebasedBy, At
<1>3. \A i \in DOMAIN told : told[i] \in Reports
  OBVIOUS
<1> QED
  BY <1>2, <1>3 DEF Told

\* What a batch leaves, whether the feed lives or dies of it.
LEMMA BatchKeeps ==
  ASSUME FeedInv, NEW room, PollBatch(room)
  PROVE  FeedInv'
<1>1. PICK batch, run, told, noted :
        /\ batch = NextBatch
        /\ run = Drive(profile, SubSeq(retained, published + 1, batch.end), MaxRetained)
        /\ told = [i \in DOMAIN run.reports |-> Rebased(run.reports[i])]
        /\ noted = RecordedAll(Cleared, told, DiagnosticCap)
  OBVIOUS
<1>2. /\ staged = NONE /\ ~terminal /\ batch # NONE
      /\ reports' = reports \o told
      /\ UNCHANGED <<stream, profile, finishing, program>>
  BY <1>1 DEF PollBatch
<1>3. \/ /\ run.stop = "none"
         /\ diagnostics' = noted /\ ordinals' = ordinals + batch.records
         /\ Deliver(run.out, batch.end, FALSE, room)
         /\ UNCHANGED <<terminal, cause>>
      \/ /\ run.stop # "none"
         /\ terminal' = TRUE /\ cause' = run.stop
         /\ diagnostics' = Note(noted, "death")
         /\ UNCHANGED ordinals
         /\ \/ /\ run.out = <<>> /\ answer' = FAILED
               /\ UNCHANGED <<retained, complete, published, base, staged, received>>
            \/ Deliver(run.out, batch.end, TRUE, room)
  BY <1>1 DEF PollBatch
<1>4. Placed /\ Counted /\ Typed /\ Live
  BY <1>2 DEF FeedInv
<1>5. PICK e, w : e = base + batch.end /\ w = Whole(profile, stream, e)
  OBVIOUS
<1>6. IsBatchOfStream(batch, e)
  BY <1>1, <1>2, <1>4, <1>5, NextBatchIs, BatchOfStream
<1>7. run \in Capped(MaxRetained) /\ Alike(w, run, Shown, reports, At, ordinals)
  BY <1>1, <1>4, <1>5, <1>6, RunOfBatch
<1>8. /\ run \in Runs /\ Len(run.out) <= MaxRetained /\ run.out \in Seq(Nat)
      /\ run.reports \in Seq(Reports) /\ run.stop \in {"none", "fault", "sink"} /\ run.offset \in Nat
  BY <1>7 DEF Capped, Runs
<1>9. ordinals \in Nat /\ At \in Nat
  <2>1. ordinals \in Nat
    BY <1>4, <1>6 DEF Counted, IsBatchOfStream
  <2> QED
    BY <1>4, <2>1, PlacesOrdered
<1>10. told = Told(run.reports, At, ordinals)
  BY <1>1, <1>4, <1>8, <1>9, RebasedIs
<1>11. told \in Seq(Reports)
  BY <1>8, <1>9, <1>10, ToldTyped
<1>12. /\ reports \in Seq(Reports) /\ received \in Seq(Nat) /\ Shown = received
  <2>1. reports \in Seq(Reports) /\ received \in Seq(Nat)
    BY <1>4 DEF Typed
  <2>2. received \o <<>> = received
    BY <2>1, ConcatEmptySeq
  <2> QED
    BY <1>2, <2>1, <2>2 DEF Shown
<1>13. reports' \in Seq(Reports)
  BY <1>2, <1>11, <1>12, ConcatProperties
<1>14. noted \in Buffers(DiagnosticCap)
  <2>1. told \in Seq(Records)
    <3>1. Reports \subseteq Records
      BY DEF Reports, Records
    <3>2. DOMAIN told = 1..Len(told) /\ Len(told) \in Nat /\ \A i \in 1..Len(told) : told[i] \in Reports
      BY <1>11
    <3>3. told \in [1..Len(told) -> Records]
      BY <1>11, <3>1, <3>2
    <3> QED
      BY <3>2, <3>3, TableIsSeq
  <2>2. DiagnosticCap \in Nat \ {0} /\ DiagnosticCap \in Nat
    BY FeedAssumption
  <2>3. Cleared \in Buffers(DiagnosticCap)
    BY <2>2, ClearedTyped
  <2> QED
    BY <1>1, <2>1, <2>2, <2>3, RecordedAllTyped
<1>15. /\ e \in (At + 1)..(base + complete) /\ IsCut(e)
       /\ batch.end \in published..complete
       /\ EndsIn(stream, e) = ordinals + batch.records
       /\ e \in 0..Len(stream)
  <2>1. batch.end \in (published + 1)..complete /\ e \in (At + 1)..(base + complete) /\ IsCut(e)
        /\ e \in 1..Len(stream) /\ EndsIn(stream, e) = EndsIn(stream, At) + batch.records
    BY <1>6 DEF IsBatchOfStream
  <2>2. published \in Nat /\ complete \in Nat
    BY <1>4, PlacesOrdered
  <2>3. batch.end \in published..complete /\ e \in 0..Len(stream)
    BY <2>1, <2>2
  <2> QED
    BY <1>4, <2>1, <2>3 DEF Counted
<1>16. CASE run.stop = "none"
  <2>1. /\ diagnostics' = noted /\ ordinals' = ordinals + batch.records
        /\ Deliver(run.out, batch.end, FALSE, room)
        /\ UNCHANGED <<terminal, cause>>
    BY <1>3, <1>16
  <2>2. /\ Shown' = received \o run.out /\ received' \in Seq(Nat)
        /\ staged' # NONE => staged' = run.out
        /\ answer' \in Nat
    BY <1>8, <1>12, <2>1, DeliverShows
  <2>3. Placed' /\ At' = e
    BY <1>2, <1>4, <1>5, <1>15, <2>1, DeliverMoves
  <2>4. Counted'
    BY <1>2, <1>15, <2>1, <2>3 DEF Counted
  <2>5. Typed'
    BY <1>2, <1>4, <1>8, <1>13, <1>14, <2>1, <2>2 DEF Typed
  <2>6. Live'
    <3>1. w.stop = "none" /\ w.out = Shown \o run.out /\ w.reports = reports \o told
      BY <1>7, <1>10, <1>16 DEF Alike
    <3>2. Whole(profile', stream', At') = w
      BY <1>2, <1>5, <2>3
    <3>3. cause' = "none"
      BY <1>4, <2>1 DEF Live
    <3> QED
      BY <1>2, <1>12, <2>2, <3>1, <3>2, <3>3 DEF Live
  <2> QED
    BY <1>2, <2>1, <2>3, <2>4, <2>5, <2>6 DEF FeedInv
<1>17. CASE run.stop # "none"
  <2>1. /\ terminal' = TRUE /\ cause' = run.stop /\ ordinals' = ordinals
        /\ diagnostics' = Note(noted, "death")
        /\ \/ /\ run.out = <<>> /\ answer' = FAILED
              /\ UNCHANGED <<retained, complete, published, base, staged, received>>
           \/ Deliver(run.out, batch.end, TRUE, room)
    BY <1>3, <1>17
  <2>2. diagnostics' \in Buffers(DiagnosticCap)
    BY <1>14, <2>1, NoteTyped
  <2>3. /\ Shown' = received \o run.out /\ received' \in Seq(Nat)
        /\ staged' # NONE => staged' = run.out
        /\ answer' \in Nat \cup {NONE, FAILED}
        /\ Placed' /\ Accepted' = Accepted /\ base' + complete' = base + complete /\ At' = At
    <3>1. CASE run.out = <<>> /\ answer' = FAILED
               /\ UNCHANGED <<retained, complete, published, base, staged, received>>
      <4>1. At' = At /\ Accepted' = Accepted /\ Shown' = Shown
        BY <3>1 DEF At, Accepted, Shown
      <4>2. Placed'
        BY <1>2, <1>4, <3>1, <4>1 DEF Placed, IsCut
      <4>3. received \o <<>> = received
        BY <1>12, ConcatEmptySeq
      <4> QED
        BY <1>2, <1>12, <3>1, <4>1, <4>2, <4>3
    <3>2. CASE Deliver(run.out, batch.end, TRUE, room)
      <4>1. /\ Shown' = received \o run.out /\ received' \in Seq(Nat)
            /\ staged' # NONE => staged' = run.out
            /\ answer' \in Nat
        BY <1>8, <1>12, <3>2, DeliverShows
      <4>2. Placed' /\ Accepted' = Accepted /\ base' + complete' = base + complete /\ At' = At
        BY <1>2, <1>4, <1>5, <1>15, <3>2, DeliverMoves
      <4> QED
        BY <4>1, <4>2
    <3> QED
      BY <2>1, <3>1, <3>2
  <2>4. Counted'
    BY <1>2, <1>4, <2>1, <2>3 DEF Counted
  <2>5. Typed'
    BY <1>2, <1>4, <1>8, <1>13, <2>1, <2>2, <2>3 DEF Typed
  <2>6. Dead'
    <3>1. IsCut(e)'
      BY <1>2, <1>15, <2>3 DEF IsCut
    <3>2. ASSUME run.stop = "fault"
          PROVE  /\ w.stop = "fault" /\ w.out = Shown \o run.out /\ w.reports = reports \o told
                 /\ At <= w.offset /\ w.offset < e
      <4>1. w.stop = "fault" /\ w.out = Shown \o run.out /\ w.reports = reports \o told
            /\ w.offset = At + run.offset
        BY <1>7, <1>10, <3>2 DEF Alike
      <4>2. At <= w.offset
        BY <1>8, <1>9, <4>1
      <4>3. w.offset < e
        <5>1. stream \in Seq(Bytes) /\ profile \in Kept
          BY <1>4 DEF Placed
        <5> QED
          BY <1>5, <1>15, <4>1, <5>1, WholeIsSound
      <4> QED
        BY <4>1, <4>2, <4>3
    <3>3. ASSUME run.stop = "sink"
          PROVE  Begins(Nat, Shown \o run.out, w.out) /\ Begins(Reports, reports \o told, w.reports)
      BY <1>7, <1>10, <3>3 DEF Alike
    <3>4. Whole(profile', stream', e) = w
      BY <1>2, <1>5
    <3>5. Shown' = Shown \o run.out /\ reports' = reports \o told
      BY <1>2, <1>12, <2>3
    <3>6. Died(e)'
      BY <2>1, <2>3, <3>1, <3>2, <3>3, <3>4, <3>5 DEF Died
    <3>7. e \in (At' + 1)..(base' + complete')
      BY <1>15, <2>3
    <3>8. cause' \in {"fault", "sink"}
      BY <1>8, <1>17, <2>1
    <3> QED
      BY <3>6, <3>7, <3>8 DEF Dead
  <2> QED
    BY <2>1, <2>3, <2>4, <2>5, <2>6 DEF FeedInv
<1> QED
  BY <1>16, <1>17

-----------------------------------------------------------------------------
(* The theorems.                                                           *)

\* A stream is bytes, and has a mark only at its beginning.
LEMMA StreamsTyped ==
  ASSUME NEW kinds \in Streams
  PROVE  /\ Stamped(kinds) \in Seq(Bytes)
         /\ \A i \in 2..Len(Stamped(kinds)) : Stamped(kinds)[i].kind # "bom"
<1>1. PICK t, n : t = Stamped(kinds) /\ n = Len(kinds)
  OBVIOUS
<1>2. kinds \in Seq(Kinds) /\ \A i \in DOMAIN kinds : kinds[i] = "bom" => i = 1
  BY StreamAssumption
<1>3. n \in Nat /\ DOMAIN kinds = 1..n /\ \A i \in 1..n : kinds[i] \in Kinds
  BY <1>1, <1>2
<1>4. t \in [1..n -> Bytes] /\ \A i \in 1..n : t[i].kind = kinds[i]
  BY <1>1, <1>3 DEF Stamped, Bytes
<1>5. t \in Seq(Bytes) /\ Len(t) = n
  BY <1>3, <1>4, TableIsSeq
<1>6. \A i \in 2..n : t[i].kind # "bom"
  BY <1>2, <1>3, <1>4
<1> QED
  BY <1>1, <1>5, <1>6

\* A new feed is at the beginning.
LEMMA InitHolds == Init => FeedInv
<1> SUFFICES ASSUME Init PROVE FeedInv
  OBVIOUS
<1>1. /\ stream \in {Stamped(kinds) : kinds \in Streams} /\ profile \in Profiles
      /\ retained = <<>> /\ complete = 0 /\ published = 0
      /\ finishing = FALSE /\ staged = NONE /\ terminal = FALSE
      /\ base = 0 /\ ordinals = 0 /\ diagnostics = Cleared /\ program = TRUE /\ answer = NONE
      /\ received = <<>> /\ reports = <<>> /\ cause = "none"
  BY DEF Init
<1>2. stream \in Seq(Bytes) /\ \A i \in 2..Len(stream) : stream[i].kind # "bom"
  BY <1>1, StreamsTyped
<1>3. profile \in Kept /\ MaxRetained \in Nat /\ DiagnosticCap \in Nat
  BY <1>1, FeedAssumption DEF Kept
<1>4. At = 0 /\ base + complete = 0
  BY <1>1 DEF At
<1>5. Placed
  <2>1. <<>> \in Seq(Bytes) /\ Len(<<>>) = 0 /\ Len(stream) \in Nat
    BY <1>2
  <2>2. Stretch(retained, stream, base)
    BY <1>1, <1>2, <2>1 DEF Stretch
  <2>3. IsCut(At) /\ IsCut(base + complete)
    BY <1>4 DEF IsCut
  <2>4. profile \in Kept /\ finishing \in BOOLEAN /\ Len(retained) <= MaxRetained
    <3>1. Len(retained) = 0
      BY <1>1, <2>1
    <3>2. Len(retained) <= MaxRetained
      BY <1>3, <3>1
    <3>3. finishing \in BOOLEAN
      BY <1>1
    <3> QED
      BY <1>3, <3>2, <3>3
  <2>5. published \in 0..complete /\ complete \in 0..Len(retained)
    BY <1>1, <2>1
  <2>6. finishing => complete = Len(retained)
    BY <1>1
  <2> QED
    BY <1>2, <2>2, <2>3, <2>4, <2>5, <2>6 DEF Placed
<1>6. PICK run : run = Whole(profile, stream, 0)
  OBVIOUS
<1>7. /\ run.out = <<>> /\ run.reports = <<>> /\ run.stop = "none"
      /\ Cardinality(Ends(SubSeq(stream, 1, 0))) = 0
  BY <1>2, <1>3, <1>6, WholeOfNothing
<1>8. Counted
  BY <1>1, <1>4, <1>7 DEF Counted, EndsIn
<1>9. Live
  <2>1. Shown = <<>>
    BY <1>1 DEF Shown
  <2> QED
    BY <1>1, <1>4, <1>6, <1>7, <2>1 DEF Live
<1>10. Typed
  <2>1. diagnostics \in Buffers(DiagnosticCap)
    BY <1>1, <1>3, ClearedTyped
  <2>2. received \in Seq(Nat) /\ reports \in Seq(Reports)
    <3>1. <<>> \in Seq(Nat) /\ <<>> \in Seq(Reports)
      OBVIOUS
    <3> QED
      BY <1>1, <3>1
  <2>3. terminal \in BOOLEAN /\ program \in BOOLEAN /\ answer \in Nat \cup {NONE, FAILED}
    BY <1>1
  <2>4. staged # NONE => staged \in Seq(Nat) /\ Len(staged) <= MaxRetained
    BY <1>1
  <2> QED
    BY <2>1, <2>2, <2>3, <2>4 DEF Typed
<1> QED
  BY <1>1, <1>5, <1>8, <1>9, <1>10 DEF FeedInv

\* Every step keeps the invariant.
LEMMA NextKeeps == FeedInv /\ [Next]_vars => FeedInv'
<1> SUFFICES ASSUME FeedInv, [Next]_vars PROVE FeedInv'
  OBVIOUS
<1>0. diagnostics \in Buffers(DiagnosticCap) /\ answer \in Answers /\ program \in BOOLEAN
  BY DEF FeedInv, Typed, Answers
<1>1. Cleared \in Buffers(DiagnosticCap)
  BY FeedAssumption, ClearedTyped
<1>2. ASSUME NEW n \in 1..MaxPiece, Push(n) PROVE FeedInv'
  <2>1. n \in Nat /\ n > 0
    BY FeedAssumption
  <2> QED
    BY <1>2, <2>1, PushKeeps
<1>3. CASE Finish
  BY <1>3, FinishKeeps
<1>4. CASE FreeProgram
  BY <1>0, <1>4, IdleKeeps DEF FreeProgram
<1>5. ASSUME NEW room \in Rooms, Poll(room) PROVE FeedInv'
  <2>1. CASE PollNoProgram
    <3>1. Fresh \in Buffers(DiagnosticCap)
      BY <1>0, <1>1 DEF Fresh
    <3>2. diagnostics' \in Buffers(DiagnosticCap)
      BY <2>1, <3>1, NoteTyped DEF PollNoProgram
    <3>3. answer' \in Answers /\ program' \in BOOLEAN
      BY <1>0, <2>1 DEF PollNoProgram, Answers
    <3> QED
      BY <2>1, <3>2, <3>3, IdleKeeps DEF PollNoProgram
  <2>2. CASE Redeliver(room)
    BY <2>2, RedeliverKeeps
  <2>3. CASE PollDead
    <3>1. answer' \in Answers
      BY <2>3 DEF PollDead, Answers
    <3> QED
      BY <1>0, <2>3, <3>1, IdleKeeps DEF PollDead
  <2>4. CASE PollEmpty
    <3>1. answer' \in Answers /\ diagnostics' \in Buffers(DiagnosticCap)
      BY <1>1, <2>4 DEF PollEmpty, Answers
    <3> QED
      BY <1>0, <2>4, <3>1, IdleKeeps DEF PollEmpty
  <2>5. CASE PollBatch(room)
    BY <2>5, BatchKeeps
  <2> QED
    BY <1>5, <2>1, <2>2, <2>3, <2>4, <2>5 DEF Poll
<1>6. CASE UNCHANGED vars
  <2>1. UNCHANGED <<stream, profile, feed, received, reports, cause>>
        /\ diagnostics' = diagnostics /\ answer' = answer /\ program' = program
    BY <1>6 DEF vars
  <2> QED
    BY <1>0, <2>1, IdleKeeps
<1> QED
  BY <1>2, <1>3, <1>4, <1>5, <1>6 DEF Next

\* The inductive invariant holds.
THEOREM FeedInvHolds == Spec => []FeedInv
<1>1. Init => FeedInv
  BY InitHolds
<1>2. FeedInv /\ [Next]_vars => FeedInv'
  BY NextKeeps
<1> QED
  BY <1>1, <1>2, PTL DEF Spec

\* Some number of records ends within any number of bytes.
LEMMA EndsInTyped ==
  ASSUME NEW t \in Seq(Bytes), NEW e \in 0..Len(t)
  PROVE  EndsIn(t, e) \in Nat
<1>1. PICK q : q = SubSeq(t, 1, e)
  OBVIOUS
<1>2. Ends(q) = EndsUpto(q, e)
  <2>1. IsFront(q, t, e)
    BY <1>1, FirstBytes
  <2> QED
    BY <2>1 DEF IsFront
<1>3. IsFiniteSet(1..e) /\ Ends(q) \in SUBSET (1..e)
  BY <1>2, FS_Interval DEF EndsUpto
<1>4. IsFiniteSet(Ends(q))
  BY <1>3, FS_Subset
<1> QED
  BY <1>1, <1>4, FS_CardinalityType DEF EndsIn

\* Every field of the feed keeps its type, the retained bytes their bound and the
\* diagnostics their cap.
THEOREM FeedTyped == Spec => []TypeOK
<1>1. ASSUME FeedInv PROVE TypeOK
  <2>1. Placed /\ Counted /\ Typed /\ cause \in {"none", "fault", "sink"}
    BY <1>1 DEF FeedInv, Live, Dead, Typed
  <2>2. /\ stream \in Seq(Bytes) /\ retained \in Seq(Bytes) /\ base \in Nat
        /\ At \in Nat /\ At <= Len(stream) /\ Len(stream) \in Nat
    BY <2>1, PlacesOrdered
  <2>3. ordinals \in Nat
    <3>1. At \in 0..Len(stream)
      BY <2>2
    <3> QED
      BY <2>1, <2>2, <3>1, EndsInTyped DEF Counted
  <2>4. /\ diagnostics.records \in Seq(Records) /\ Len(diagnostics.records) <= DiagnosticCap
        /\ diagnostics.terminal \in 0..Len(diagnostics.records)
    <3>1. PICK s, m : s = diagnostics.records /\ m = diagnostics.terminal
      OBVIOUS
    <3>2. s \in Seq(Records) /\ m \in Nat /\ Len(s) <= DiagnosticCap /\ m <= Len(s)
      BY <2>1, <3>1 DEF Typed, Buffers
    <3>3. Len(s) \in Nat
      BY <3>2, LenProperties
    <3>4. m \in 0..Len(s)
      BY <3>2, <3>3
    <3> QED
      BY <3>1, <3>2, <3>4
  <2> QED
    BY <2>1, <2>2, <2>3, <2>4 DEF TypeOK, Placed, Typed, Kept
<1> QED
  BY <1>1, FeedInvHolds, PTL

\* The one drive, and what a feed that is dead has of it.
LEMMA RouteIs ==
  ASSUME FeedInv
  PROVE  /\ Route = Whole(profile, stream, base + complete) /\ Route \in Runs
         /\ Adds(Whole(profile, stream, At), Route)
         /\ \A e \in (At + 1)..(base + complete) : IsCut(e) => Adds(Whole(profile, stream, e), Route)
<1>1. PICK far : far = base + complete
  OBVIOUS
<1>2. Placed /\ stream \in Seq(Bytes) /\ profile \in Kept
  BY DEF FeedInv, Placed
<1>3. /\ At \in Nat /\ far \in Nat /\ Len(stream) \in Nat /\ At <= far /\ far <= Len(stream)
      /\ Accepted \in Nat
  BY <1>1, <1>2, PlacesOrdered
<1>4. Route = Whole(profile, stream, far)
  BY <1>1 DEF Route, Whole, AllItems
<1>5. ASSUME finishing PROVE Accepted = far
  BY <1>1, <1>2, <1>5 DEF Placed, Accepted
<1>6. ASSUME NEW e \in At..far, IsCut(e)
      PROVE  Adds(Whole(profile, stream, e), Route)
  <2>1. far \in 0..Len(stream) /\ e \in 0..far
    BY <1>3
  <2>2. e = 0 \/ stream[e].kind = "lf" \/ e = far
    BY <1>5, <1>6 DEF IsCut
  <2> QED
    BY <1>2, <1>4, <2>1, <2>2, WholeGrows
<1>7. Adds(Whole(profile, stream, At), Route)
  <2>1. At \in At..far /\ IsCut(At)
    BY <1>2, <1>3 DEF Placed
  <2> QED
    BY <1>6, <2>1
<1>8. Route \in Runs
  <2>1. far \in 0..Len(stream)
    BY <1>3
  <2> QED
    BY <1>2, <1>4, <2>1, WholeIsSound
<1>9. \A e \in (At + 1)..far : e \in At..far
  BY <1>3
<1> QED
  BY <1>1, <1>4, <1>6, <1>7, <1>8, <1>9

\* The buffer is the stream's bytes from the base on, cut after a record, with as
\* many ordinals behind it as there are records; a record that faults is in it.
THEOREM WindowIsExact == Spec => []WindowExact
<1>1. ASSUME FeedInv PROVE WindowExact
  <2>1. Placed /\ Counted
    BY <1>1 DEF FeedInv
  <2>2. /\ base \in Nat /\ Len(retained) \in Nat /\ Len(stream) \in Nat /\ Accepted \in Nat
        /\ base <= Accepted /\ Accepted <= Len(stream) /\ base + complete <= Accepted
        /\ base + complete \in Nat /\ At \in Nat
    BY <2>1, PlacesOrdered DEF Accepted
  <2>3. retained = SubSeq(stream, base + 1, Accepted)
    <3>1. PICK s, b, far : s = SubSeq(stream, b + 1, far) /\ b = base /\ far = Accepted
      OBVIOUS
    <3>2. Stretch(retained, stream, b) /\ stream \in Seq(Bytes)
      BY <2>1, <3>1 DEF Placed
    <3>3. far \in b..Len(stream) /\ b \in Nat
      BY <2>2, <3>1
    <3>4. Stretch(s, stream, b) /\ Len(s) = far - b
      BY <3>1, <3>2, <3>3, SubSeqStretch
    <3>5. Len(s) = Len(retained)
      BY <2>2, <3>1, <3>4 DEF Accepted
    <3>6. s \in Seq(Bytes) /\ retained \in Seq(Bytes) /\ \A i \in 1..Len(s) : s[i] = retained[i]
      BY <3>2, <3>4, <3>5 DEF Stretch
    <3>7. s = retained
      BY <3>5, <3>6, SeqEqual
    <3> QED
      BY <3>1, <3>7
  <2>4. ordinals = Cardinality(Ends(SubSeq(stream, 1, base + published)))
    BY <2>1 DEF Counted, EndsIn, At
  <2>5. ASSUME NEW at \in {base + published, base + complete}, at > 0, stream[at].kind # "lf"
        PROVE  finishing /\ at = Accepted
    <3>1. IsCut(at)
      BY <2>1 DEF Placed, At
    <3>2. at # 0
      BY <2>2, <2>5 DEF At
    <3> QED
      BY <2>5, <3>1, <3>2 DEF IsCut
  <2>6. ASSUME cause = "fault"
        PROVE  base + published <= Route.offset /\ Route.offset < Accepted
    <3>1. PICK e \in (At + 1)..(base + complete) : Died(e)
      BY <1>1, <2>6 DEF FeedInv, Live, Dead
    <3>2. PICK whole : whole = Whole(profile, stream, e)
      OBVIOUS
    <3>3. whole.stop = "fault" /\ At <= whole.offset /\ whole.offset < e /\ IsCut(e)
      BY <2>6, <3>1, <3>2 DEF Died
    <3>4. Route = whole
      BY <1>1, <3>2, <3>3, RouteIs DEF Adds
    <3>5. whole.offset \in Nat
      BY <1>1, <3>4, RouteIs DEF Runs
    <3>6. whole.offset < Accepted
      BY <2>2, <3>3, <3>5
    <3> QED
      BY <3>3, <3>4, <3>6 DEF At
  <2> QED
    BY <2>3, <2>4, <2>5, <2>6 DEF WindowExact
<1> QED
  BY <1>1, FeedInvHolds, PTL

\* What begins a sequence is a prefix of it.
LEMMA BeginsIsIsPrefix ==
  ASSUME NEW X, NEW s \in Seq(X), NEW t \in Seq(X), Begins(X, s, t)
  PROVE  IsPrefix(s, t)
BY BeginsIsPrefix DEF IsPrefix

\* Whatever the pieces, the buffers and the bounds, the host is given a prefix of
\* what one drive over the stream gives, and all of it where the feed has none
\* left; a fault takes nothing before it along.
THEOREM FeedGivesTheRoute == Spec => []FeedIsRoute
<1>1. ASSUME FeedInv PROVE FeedIsRoute
  <2>1. Placed /\ Typed
    BY <1>1 DEF FeedInv
  <2>2. /\ Route = Whole(profile, stream, base + complete) /\ Route \in Runs
        /\ Adds(Whole(profile, stream, At), Route)
        /\ \A e \in (At + 1)..(base + complete) : IsCut(e) => Adds(Whole(profile, stream, e), Route)
    BY <1>1, RouteIs
  <2>3. Route.out \in Seq(Nat) /\ Route.reports \in Seq(Reports)
    BY <2>2 DEF Runs
  <2>4. Shown \in Seq(Nat) /\ reports \in Seq(Reports)
    <3>1. received \in Seq(Nat) /\ <<>> \in Seq(Nat) /\ reports \in Seq(Reports)
      BY <2>1 DEF Typed
    <3>2. CASE staged = NONE
      <4>1. received \o <<>> = received
        BY <3>1, ConcatEmptySeq
      <4> QED
        BY <3>1, <3>2, <4>1 DEF Shown
    <3>3. CASE staged # NONE
      <4>1. staged \in Seq(Nat)
        BY <2>1, <3>3 DEF Typed
      <4>2. received \o staged \in Seq(Nat)
        BY <3>1, <4>1, ConcatProperties
      <4> QED
        BY <3>1, <3>3, <4>2 DEF Shown
    <3> QED
      BY <3>2, <3>3
  <2>5. /\ Begins(Nat, Shown, Route.out) /\ Begins(Reports, reports, Route.reports)
        /\ cause = "fault" => Shown = Route.out /\ Route.stop = "fault"
    <3>1. CASE ~terminal
      <4>1. Live
        BY <1>1, <3>1 DEF FeedInv
      <4> QED
        BY <2>2, <4>1 DEF Live, Adds
    <3>2. CASE terminal
      <4>1. PICK e \in (At + 1)..(base + complete) : Died(e)
        BY <1>1, <3>2 DEF FeedInv, Dead
      <4>2. PICK whole : whole = Whole(profile, stream, e)
        OBVIOUS
      <4>3. Adds(whole, Route) /\ IsCut(e)
        BY <2>2, <4>1, <4>2 DEF Died
      <4>4. CASE cause = "fault"
        <5>1. whole.stop = "fault" /\ Shown = whole.out /\ reports = whole.reports
          BY <4>1, <4>2, <4>4 DEF Died
        <5>2. Route = whole
          BY <4>3, <5>1 DEF Adds
        <5> QED
          BY <2>3, <5>1, <5>2, BeginsReflexive
      <4>5. CASE cause = "sink"
        <5>1. Begins(Nat, Shown, whole.out) /\ Begins(Reports, reports, whole.reports)
          BY <4>1, <4>2, <4>5 DEF Died
        <5>2. Begins(Nat, whole.out, Route.out) /\ Begins(Reports, whole.reports, Route.reports)
          BY <4>3 DEF Adds
        <5>3. whole.out \in Seq(Nat) /\ whole.reports \in Seq(Reports)
          <6>1. stream \in Seq(Bytes) /\ profile \in Kept /\ e \in 0..Len(stream)
            BY <2>1, PlacesOrdered DEF Placed
          <6> QED
            BY <4>2, <6>1, WholeIsSound DEF Runs
        <5> QED
          BY <2>4, <4>5, <5>1, <5>2, <5>3, BeginsTransitive
      <4> QED
        BY <1>1, <3>2, <4>4, <4>5 DEF FeedInv, Dead
    <3> QED
      BY <2>1, <3>1, <3>2 DEF Typed
  <2>6. IsPrefix(Shown, Route.out) /\ IsPrefix(reports, Route.reports)
    BY <2>3, <2>4, <2>5, BeginsIsIsPrefix
  <2>7. ASSUME ~terminal, Drained
        PROVE  Shown = Route.out /\ reports = Route.reports /\ Route.stop = "none"
    <3>1. At = base + complete
      BY <2>7 DEF Drained, At
    <3> QED
      BY <1>1, <2>2, <2>7, <3>1 DEF FeedInv, Live
  <2> QED
    BY <2>5, <2>6, <2>7 DEF FeedIsRoute
<1> QED
  BY <1>1, FeedInvHolds, PTL

-----------------------------------------------------------------------------
(* The live routes.                                                        *)

-----------------------------------------------------------------------------
(* The inductive invariant.                                                *)

\* A stream's history.
History(s, o, p, t, f, l, d) ==
  [seen |-> s, out |-> o, reports |-> p, torn |-> t, refused |-> f, stale |-> l, due |-> d]
IsRun(r) ==
  \E s, o, p, t, f, l, d :
    /\ s \in Seq(Bytes) /\ d \in Seq(Bytes)
    /\ r = History(s, o, p, t, f, l, d)

Places == {"poll", "drain", "reopen", "size", "read", "cycle", "rotated", "eof",
           "failed", "reported", "served"}

FollowTyped ==
  /\ mode \in Modes
  /\ files \in [Inodes -> Seq(Seq(Bytes))] /\ \A i \in Inodes : Len(files[i]) > 0
  /\ path \in Inodes \cup {NIL} /\ writer \in Inodes \cup {NIL} /\ fd \in Inodes
  /\ pending \in Seq(Kinds) /\ written \in Nat
  /\ cursor \in Nat /\ offset \in Nat /\ pc \in Places
  /\ buffer \in Seq(Bytes)
  /\ IsRun(history) /\ (ended # NIL => IsRun(ended))

\* b is the k-th byte of the m-th contents of inode i.
IsAt(b, i, m, k) ==
  /\ i \in Inodes /\ m \in 1..Len(files[i]) /\ k \in 1..Len(files[i][m])
  /\ b = files[i][m][k]

\* No byte is at two places.
Apart ==
  /\ \A b, i, m, k : IsAt(b, i, m, k) => b.at \in Nat /\ b.at <= written
  /\ \A b, i, m, k, j, q, l : IsAt(b, i, m, k) /\ IsAt(b, j, q, l) => i = j /\ m = q /\ k = l

\* Each byte read was at its own place in some contents.
Aligned(r) == \A k \in 1..Len(r.seen) : \E i, m : IsAt(r.seen[k], i, m, k)

\* Where the loop will read next.
Standing ==
  /\ ~history.stale => Aligned(history)
  /\ ended # NIL /\ ~ended.stale => Aligned(ended)
  /\ mode # "file" => /\ pc \in {"poll", "cycle", "eof", "failed", "reported", "served"}
                      /\ cursor = Len(history.seen)
  /\ mode = "file" /\ pc \in {"poll", "size", "cycle"} => offset = Len(history.seen)
  /\ pc \in {"poll", "size", "read", "cycle"} => ~history.stale
  /\ pc = "rotated" => offset = 0
  /\ pc = "read" => cursor = Len(history.seen)
  /\ pc = "drain" /\ ~history.stale => cursor = Len(history.seen)

StartOf(s, t) == Len(s) <= Len(t) /\ \A k \in 1..Len(s) : s[k] = t[k]

\* What is due of the file the loop is leaving.
Draining ==
  /\ pc = "drain" => path # fd
  /\ pc = "drain" /\ ~history.stale => /\ StartOf(history.due, Content(fd))
                                       /\ history.due = <<>> \/ StartOf(history.seen, Content(fd))
  /\ pc = "reopen" /\ ~history.stale => StartOf(history.due, history.seen) \/ Held(buffer) > HeldCap
  /\ pc = "rotated" /\ ~history.stale => StartOf(history.due, history.seen)
  /\ ended # NIL /\ ~ended.stale => StartOf(ended.due, ended.seen)

Holding ==
  /\ Held(buffer) <= HeldCap + Chunk
  /\ pc \in {"poll", "size"} => LineFeeds(buffer) = {} /\ Len(buffer) <= HeldCap
  /\ pc \in {"read", "drain"} => Held(buffer) <= HeldCap

TailInv == FollowTyped /\ Apart /\ Standing /\ Draining /\ Holding

-----------------------------------------------------------------------------
(* What is held.                                                           *)

\* The cut is the last line feed.
LEMMA CompleteSpanIs ==
  ASSUME NEW s \in Seq(Bytes)
  PROVE  /\ Len(s) \in Nat /\ CompleteSpan(s) \in 0..Len(s)
         /\ CompleteSpan(s) # 0 => s[CompleteSpan(s)].kind = "lf"
         /\ \A i \in 1..Len(s) : s[i].kind = "lf" => i <= CompleteSpan(s)
<1>1. Len(s) \in Nat /\ DOMAIN s = 1..Len(s)
  BY LenProperties
<1> DEFINE feeds == {i \in 1..Len(s) : s[i].kind = "lf"}
<1>2. CompleteSpan(s) = Max(feeds \cup {0}) /\ IsFiniteSet(feeds) /\ feeds \in SUBSET (1..Len(s))
  <2>1. IsFiniteSet(1..Len(s)) /\ feeds \subseteq 1..Len(s)
    BY <1>1, FS_Interval
  <2>2. IsFiniteSet(feeds)
    BY <2>1, FS_Subset
  <2> QED
    BY <1>1, <2>1, <2>2 DEF CompleteSpan, LineFeeds
<1> HIDE DEF feeds
<1>3. \E x \in feeds \cup {0} : \A y \in feeds \cup {0} : x >= y
  <2>1. CASE feeds = {}
    BY <2>1
  <2>2. CASE feeds # {}
    <3>1. Max(feeds) \in feeds /\ \A i \in feeds : i <= Max(feeds)
      BY <1>1, <1>2, <2>2, LastPosition
    <3>2. \A y \in feeds \cup {0} : Max(feeds) >= y
      <4>4. 1..Len(s) \subseteq Nat
        BY <1>1
      <4>5. Max(feeds) \in Nat
        BY <1>2, <3>1, <4>4
      <4>1. PICK m \in Nat : m = Max(feeds)
        BY <4>5
      <4>2. \A y \in feeds : m >= y
        BY <1>2, <3>1, <4>1
      <4>3. m >= 0
        OBVIOUS
      <4> QED
        BY <4>1, <4>2, <4>3
    <3> QED
      BY <3>1, <3>2
  <2> QED
    BY <2>1, <2>2
<1>4. Max(feeds \cup {0}) \in feeds \cup {0} /\ \A y \in feeds \cup {0} : Max(feeds \cup {0}) >= y
  BY <1>3 DEF Max
<1>5. CompleteSpan(s) \in 0..Len(s)
  <2>1. CompleteSpan(s) \in feeds \cup {0} /\ 0 \in 0..Len(s) /\ 1..Len(s) \subseteq 0..Len(s)
    BY <1>1, <1>2, <1>4
  <2> QED
    BY <1>2, <2>1
<1>6. \A i \in feeds : i <= CompleteSpan(s)
  BY <1>1, <1>2, <1>4, <1>5
<1>7. CompleteSpan(s) # 0 => CompleteSpan(s) \in feeds
  BY <1>2, <1>4
<1> QED
  BY <1>1, <1>5, <1>6, <1>7 DEF feeds

\* Bytes added are held, unless they end records.
LEMMA HeldOfJoin ==
  ASSUME NEW s \in Seq(Bytes), NEW t \in Seq(Bytes), NEW u, u = s \o t
  PROVE  u \in Seq(Bytes) /\ Held(u) <= Held(s) + Len(t) /\ Held(s) \in Nat /\ Held(u) \in Nat
<1>1. /\ u \in Seq(Bytes) /\ Len(u) = Len(s) + Len(t) /\ Len(t) \in Nat
      /\ \A i \in 1..Len(s) : u[i] = s[i]
  BY ConcatProperties
<1>2. PICK c, d : c = CompleteSpan(s) /\ d = CompleteSpan(u)
  OBVIOUS
<1>3. /\ Len(s) \in Nat /\ c \in 0..Len(s)
      /\ Len(u) \in Nat /\ d \in 0..Len(u) /\ \A i \in 1..Len(u) : u[i].kind = "lf" => i <= d
  BY <1>1, <1>2, CompleteSpanIs
<1>4. c <= d
  <2>1. CASE c = 0
    BY <1>3, <2>1
  <2>2. CASE c # 0
    <3>1. s[c].kind = "lf"
      BY <1>2, <2>2, CompleteSpanIs
    <3>2. c \in 1..Len(s) /\ c \in 1..Len(u)
      BY <1>1, <1>3, <2>2
    <3> QED
      BY <1>1, <1>3, <3>1, <3>2
  <2> QED
    BY <2>1, <2>2
<1>5. Held(s) = Len(s) - c /\ Held(u) = Len(u) - d
  BY <1>2 DEF Held
<1> QED
  BY <1>1, <1>3, <1>4, <1>5

\* A part of a sequence, by its elements.
LEMMA PartIs ==
  ASSUME NEW s \in Seq(Bytes), NEW a \in Nat, NEW b \in 0..Len(s), NEW u, u = SubSeq(s, a + 1, b)
  PROVE  /\ u \in Seq(Bytes) /\ Len(u) = IF a <= b THEN b - a ELSE 0
         /\ \A k \in 1..Len(u) : a + k <= b /\ u[k] = s[a + k]
<1>1. Len(s) \in Nat /\ b \in Nat /\ b <= Len(s) /\ \A j \in (a + 1)..b : s[j] \in Bytes
  OBVIOUS
<1>2. /\ u \in Seq(Bytes) /\ Len(u) = IF a + 1 <= b THEN b - (a + 1) + 1 ELSE 0
      /\ \A j \in 1..(b - (a + 1) + 1) : u[j] = s[(a + 1) + j - 1]
  <2>1. a + 1 \in Int /\ b \in Int
    BY <1>1
  <2> QED
    BY <1>1, <2>1, SubSeqProperties
<1>3. Len(u) = IF a <= b THEN b - a ELSE 0
  BY <1>1, <1>2
<1>4. \A k \in 1..Len(u) : a + k <= b /\ u[k] = s[a + k]
  <2> SUFFICES ASSUME NEW k \in 1..Len(u) PROVE a + k <= b /\ u[k] = s[a + k]
    OBVIOUS
  <2>1. k \in 1..(b - (a + 1) + 1) /\ (a + 1) + k - 1 = a + k /\ a + k <= b
    BY <1>1, <1>3
  <2> QED
    BY <1>2, <2>1
<1> QED
  BY <1>2, <1>3, <1>4

\* What is behind the cut holds no line feed.
LEMMA HeldOfRest ==
  ASSUME NEW s \in Seq(Bytes), NEW u, u = SubSeq(s, CompleteSpan(s) + 1, Len(s))
  PROVE  u \in Seq(Bytes) /\ Len(u) = Held(s) /\ LineFeeds(u) = {} /\ Held(u) = Held(s)
<1>1. PICK c : c = CompleteSpan(s)
  OBVIOUS
<1>2. /\ Len(s) \in Nat /\ c \in Nat /\ c <= Len(s) /\ Len(s) \in 0..Len(s)
      /\ \A i \in 1..Len(s) : s[i].kind = "lf" => i <= c
  BY <1>1, CompleteSpanIs
<1>4. /\ u \in Seq(Bytes) /\ Len(u) = IF c <= Len(s) THEN Len(s) - c ELSE 0
      /\ \A i \in 1..Len(u) : c + i <= Len(s) /\ u[i] = s[c + i]
  BY <1>1, <1>2, PartIs
<1>5. PICK n \in Nat : n = Len(u) /\ n = Len(s) - c
  BY <1>2, <1>4
<1>6. \A i \in 1..n : u[i].kind # "lf"
  <2> SUFFICES ASSUME NEW i \in 1..n PROVE u[i].kind # "lf"
    OBVIOUS
  <2>1. c + i <= Len(s) /\ u[i] = s[c + i]
    BY <1>4, <1>5
  <2>2. c + i \in 1..Len(s) /\ ~(c + i <= c)
    BY <1>2, <2>1
  <2> QED
    BY <1>2, <2>1, <2>2
<1>7. DOMAIN u = 1..Len(u)
  BY <1>4, LenProperties
<1>8. LineFeeds(u) = {}
  BY <1>5, <1>6, <1>7 DEF LineFeeds
<1>9. CompleteSpan(u) = 0
  <2>1. CompleteSpan(u) \in 0..n /\ (CompleteSpan(u) # 0 => u[CompleteSpan(u)].kind = "lf")
    BY <1>4, <1>5, CompleteSpanIs
  <2>2. CompleteSpan(u) # 0 => CompleteSpan(u) \in 1..n
    BY <2>1
  <2> QED
    BY <1>6, <2>1, <2>2
<1> QED
  BY <1>1, <1>4, <1>5, <1>8, <1>9 DEF Held

\* Nothing holds nothing.
LEMMA HeldOfNothing == <<>> \in Seq(Bytes) /\ Len(<<>>) = 0 /\ LineFeeds(<<>>) = {} /\ Held(<<>>) = 0
<1>5. <<>> \in Seq(Bytes)
  OBVIOUS
<1>1. PICK s : s = <<>>
  OBVIOUS
<1>2. s \in Seq(Bytes) /\ Len(s) = 0 /\ DOMAIN s = 1..0
  BY <1>1, <1>5
<1>3. CompleteSpan(s) = 0
  <2>1. CompleteSpan(s) \in 0..Len(s)
    BY <1>2, CompleteSpanIs
  <2> QED
    BY <1>2, <2>1
<1>4. LineFeeds(s) = {}
  BY <1>2 DEF LineFeeds
<1> QED
  BY <1>1, <1>2, <1>3, <1>4 DEF Held

-----------------------------------------------------------------------------
(* One read.                                                               *)

\* The smaller of two.
LEMMA MinOfTwo ==
  ASSUME NEW a \in Nat, NEW b \in Nat
  PROVE  Min({a, b}) \in Nat /\ Min({a, b}) <= a /\ Min({a, b}) <= b
         /\ (Min({a, b}) = a \/ Min({a, b}) = b)
<1>1. \E x \in {a, b} : \A y \in {a, b} : x <= y
  OBVIOUS
<1>2. Min({a, b}) \in {a, b} /\ \A y \in {a, b} : Min({a, b}) <= y
  BY <1>1 DEF Min
<1> QED
  BY <1>2

\* u is what stands in t behind its first `at` bytes, a chunk of it at most.
IsRead(u, t, at) ==
  /\ u \in Seq(Bytes) /\ Len(u) \in Nat /\ Len(u) <= Chunk
  /\ \A k \in 1..Len(u) : at + k <= Len(t) /\ u[k] = t[at + k]

\* What a read gets.
LEMMA NextReadIs ==
  ASSUME FollowTyped, NEW t, t = Content(fd)
  PROVE  /\ t \in Seq(Bytes) /\ Len(t) \in Nat /\ IsRead(NextRead, t, cursor)
         /\ NextRead = <<>> => Len(t) <= cursor
<1>1. t \in Seq(Bytes) /\ Len(t) \in Nat /\ cursor \in Nat /\ Chunk \in Nat /\ Chunk > 0
  <2>1. files[fd] \in Seq(Seq(Bytes)) /\ Len(files[fd]) > 0
    BY DEF FollowTyped
  <2>2. Len(files[fd]) \in 1..Len(files[fd]) /\ t = files[fd][Len(files[fd])]
    BY <2>1 DEF Content, Last
  <2>3. t \in Seq(Bytes)
    BY <2>1, <2>2
  <2> QED
    BY <2>3, FollowAssumption DEF FollowTyped
<1>2. PICK w : w = Unread
  OBVIOUS
<1>3. /\ w \in Seq(Bytes) /\ Len(w) = IF cursor <= Len(t) THEN Len(t) - cursor ELSE 0
      /\ \A k \in 1..Len(w) : cursor + k <= Len(t) /\ w[k] = t[cursor + k]
  <2>1. w = SubSeq(t, cursor + 1, Len(t)) /\ Len(t) \in 0..Len(t)
    BY <1>1, <1>2 DEF Unread
  <2> QED
    BY <1>1, <2>1, PartIs
<1>4. PICK n : n = Min({Chunk, Len(w)})
  OBVIOUS
<1>5. Len(w) \in Nat /\ n \in Nat /\ n <= Chunk /\ n <= Len(w) /\ (n = Chunk \/ n = Len(w))
  BY <1>1, <1>3, <1>4, MinOfTwo
<1>6. PICK u : u = NextRead
  OBVIOUS
<1>7. /\ u \in Seq(Bytes) /\ Len(u) = n
      /\ \A k \in 1..Len(u) : 0 + k <= n /\ u[k] = w[0 + k]
  <2>1. u = SubSeq(w, 0 + 1, n) /\ n \in 0..Len(w) /\ 0 \in Nat
    BY <1>2, <1>4, <1>5, <1>6 DEF NextRead
  <2>2. /\ u \in Seq(Bytes) /\ Len(u) = IF 0 <= n THEN n - 0 ELSE 0
        /\ \A k \in 1..Len(u) : 0 + k <= n /\ u[k] = w[0 + k]
    BY <1>3, <2>1, PartIs
  <2> QED
    BY <1>5, <2>2
<1>8. \A k \in 1..Len(u) : cursor + k <= Len(t) /\ u[k] = t[cursor + k]
  <2> SUFFICES ASSUME NEW k \in 1..Len(u) PROVE cursor + k <= Len(t) /\ u[k] = t[cursor + k]
    OBVIOUS
  <2>1. k \in 1..Len(w) /\ 0 + k = k
    BY <1>5, <1>7
  <2> QED
    BY <1>3, <1>7, <2>1
<1>9. u = <<>> => Len(t) <= cursor
  <2>1. u = <<>> => n = 0
    BY <1>7
  <2> QED
    BY <1>1, <1>3, <1>5, <2>1
<1> QED
  BY <1>1, <1>5, <1>6, <1>7, <1>8, <1>9 DEF IsRead

\* A pipe may give less.
LEMMA PartOfRead ==
  ASSUME NEW u, NEW t, NEW at \in Nat, IsRead(u, t, at), NEW n \in 1..Len(u), NEW v, v = SubSeq(u, 1, n)
  PROVE  IsRead(v, t, at) /\ Len(v) = n
<1>1. u \in Seq(Bytes) /\ Len(u) \in Nat /\ n \in Nat /\ n <= Len(u) /\ Len(u) <= Chunk
  BY DEF IsRead
<1>2. /\ v \in Seq(Bytes) /\ Len(v) = IF 0 <= n THEN n - 0 ELSE 0
      /\ \A k \in 1..Len(v) : 0 + k <= n /\ v[k] = u[0 + k]
  <2>1. v = SubSeq(u, 0 + 1, n) /\ 0 \in Nat /\ n \in 0..Len(u)
    BY <1>1
  <2> QED
    BY <1>1, <2>1, PartIs
<1>3. Len(v) = n /\ Len(v) <= Chunk /\ Len(v) \in Nat
  BY <1>1, <1>2, FollowAssumption
<1>4. \A k \in 1..Len(v) : at + k <= Len(t) /\ v[k] = t[at + k]
  <2> SUFFICES ASSUME NEW k \in 1..Len(v) PROVE at + k <= Len(t) /\ v[k] = t[at + k]
    OBVIOUS
  <2>1. k \in 1..Len(u) /\ 0 + k = k
    BY <1>1, <1>3
  <2> QED
    BY <1>2, <2>1 DEF IsRead
<1> QED
  BY <1>2, <1>3, <1>4 DEF IsRead

-----------------------------------------------------------------------------
(* What a step does to a stream's history.                                 *)

\* The same bytes were read, and the same are due.
SameStream(r, q) == IsRun(r) /\ r.seen = q.seen /\ r.stale = q.stale /\ r.due = q.due

\* What a history holds.
LEMMA HistoryIs ==
  ASSUME NEW s \in Seq(Bytes), NEW d \in Seq(Bytes), NEW o, NEW p, NEW t, NEW f, NEW l, NEW r,
         r = History(s, o, p, t, f, l, d)
  PROVE  IsRun(r) /\ r.seen = s /\ r.stale = l /\ r.due = d
<1>1. IsRun(r)
  BY Zenon DEF IsRun
<1> QED
  BY <1>1 DEF History

\* A history's fields.
LEMMA RunTyped ==
  ASSUME NEW r, IsRun(r)
  PROVE  r.seen \in Seq(Bytes) /\ r.due \in Seq(Bytes) /\ SameStream(r, r)
<1>1. PICK s, o, p, t, f, l, d :
        s \in Seq(Bytes) /\ d \in Seq(Bytes) /\ r = History(s, o, p, t, f, l, d)
  BY DEF IsRun
<1>2. r.seen = s /\ r.due = d
  BY <1>1, HistoryIs
<1> QED
  BY <1>1, <1>2 DEF SameStream

\* What a drive shows leaves what was read.
LEMMA ShownSame ==
  ASSUME NEW r, IsRun(r), NEW o, NEW p, NEW f, NEW q,
         q = [r EXCEPT !.out = o, !.reports = p, !.refused = f]
  PROVE  SameStream(q, r)
<1>1. PICK s, a, b, t, c, l, d :
        s \in Seq(Bytes) /\ d \in Seq(Bytes) /\ r = History(s, a, b, t, c, l, d)
  BY DEF IsRun
<1>2. q = History(s, o, p, t, f, l, d)
  BY <1>1 DEF History
<1> QED
  BY <1>1, <1>2, HistoryIs DEF SameStream

\* So does losing a part of it.
LEMMA TornSame ==
  ASSUME NEW r, IsRun(r), NEW t, NEW q, q = [r EXCEPT !.torn = t]
  PROVE  SameStream(q, r)
<1>1. PICK s, a, b, u, c, l, d :
        s \in Seq(Bytes) /\ d \in Seq(Bytes) /\ r = History(s, a, b, u, c, l, d)
  BY DEF IsRun
<1>2. q = History(s, a, b, t, c, l, d)
  BY <1>1 DEF History
<1> QED
  BY <1>1, <1>2, HistoryIs DEF SameStream

\* What Shown makes of a run.
LEMMA ShownIs ==
  ASSUME IsRun(history), NEW d
  PROVE  SameStream(ShownBy(d), history)
<1>1. PICK o, p, f : ShownBy(d) = [history EXCEPT !.out = o, !.reports = p, !.refused = f]
  BY DEF ShownBy
<1> QED
  BY <1>1, ShownSame

\* A cycle, whatever is left of the held bytes.
LEMMA DrivePrefixSame ==
  ASSUME IsRun(history), NEW left, DrivePrefix(left)
  PROVE  SameStream(history', history) /\ buffer' = left
<1>1. CASE CompleteSpan(buffer) = 0
  <2>1. PICK t : history' = [history EXCEPT !.torn = t]
    BY <1>1 DEF DrivePrefix
  <2> QED
    BY <1>1, <2>1, TornSame DEF DrivePrefix
<1>2. CASE CompleteSpan(buffer) # 0
  <2>1. PICK d : history' = [ShownBy(d) EXCEPT !.torn = @ \/ Len(left) < Held(buffer)]
    BY <1>2 DEF DrivePrefix
  <2>2. PICK q : q = ShownBy(d)
    OBVIOUS
  <2>3. SameStream(q, history)
    BY <2>2, ShownIs
  <2>4. PICK t : history' = [q EXCEPT !.torn = t]
    BY <2>1, <2>2
  <2>5. SameStream(history', q)
    BY <2>3, <2>4, TornSame DEF SameStream
  <2> QED
    BY <1>2, <2>3, <2>5 DEF DrivePrefix, SameStream
<1> QED
  BY <1>1, <1>2

\* A new stream.
LEMMA NewRunIs == IsRun(NewRun) /\ NewRun.seen = <<>> /\ ~NewRun.stale /\ NewRun.due = <<>>
<1>1. <<>> \in Seq(Bytes)
  OBVIOUS
<1>2. PICK e, b : e = <<>> /\ b = FALSE
  OBVIOUS
<1>3. NewRun = History(e, e, e, b, b, b, e)
  BY <1>2 DEF NewRun, History
<1>4. e \in Seq(Bytes)
  BY <1>1, <1>2
<1>5. IsRun(NewRun) /\ NewRun.seen = e /\ NewRun.stale = b /\ NewRun.due = e
  BY <1>3, <1>4, HistoryIs
<1> QED
  BY <1>2, <1>5

\* What a read does.
Took(u) ==
  /\ IsRun(history') /\ history'.seen = history.seen \o u /\ history'.stale = history.stale /\ history'.due = history.due
  /\ cursor' = cursor + Len(u) /\ cursor' \in Nat
  /\ buffer' \in Seq(Bytes) /\ Held(buffer') <= Held(buffer) + Len(u)
  /\ Len(history'.seen) = Len(history.seen) + Len(u) /\ Len(history.seen) \in Nat

\* That is what Take does.
LEMMA TakeIs ==
  ASSUME FollowTyped, NEW u \in Seq(Bytes), Take(u)
  PROVE  Took(u)
<1>1. PICK s, o, p, t, f, l, d :
        s \in Seq(Bytes) /\ d \in Seq(Bytes) /\ history = History(s, o, p, t, f, l, d)
  BY DEF FollowTyped, IsRun
<1>2. PICK v : v = s \o u
  OBVIOUS
<1>3. v \in Seq(Bytes) /\ Len(v) = Len(s) + Len(u) /\ Len(s) \in Nat
  BY <1>1, <1>2, JoinIs
<1>4. history' = History(v, o, p, t, f, l, d)
  BY <1>1, <1>2 DEF Take, History
<1>5. IsRun(history') /\ history'.seen = v /\ history'.stale = l /\ history'.due = d
  BY <1>1, <1>3, <1>4, HistoryIs
<1>6. cursor' = cursor + Len(u) /\ cursor' \in Nat
  <2>1. Len(u) \in Nat /\ cursor \in Nat
    BY DEF FollowTyped
  <2> QED
    BY <2>1 DEF Take
<1>7. buffer' \in Seq(Bytes) /\ Held(buffer') <= Held(buffer) + Len(u)
  <2>1. buffer \in Seq(Bytes) /\ buffer' = buffer \o u
    BY DEF FollowTyped, Take
  <2> QED
    BY <2>1, HeldOfJoin
<1>8. history.seen = s /\ history.stale = l /\ history.due = d
  BY <1>1, HistoryIs
<1> QED
  BY <1>2, <1>3, <1>5, <1>6, <1>7, <1>8 DEF Took

\* What is read from where the follower stands was at its own place.
LEMMA TakeAligned ==
  ASSUME FollowTyped, NEW u, IsRead(u, Content(fd), cursor), Took(u), cursor = Len(history.seen),
         Aligned(history), UNCHANGED files
  PROVE  Aligned(history)'
<1>1. PICK s, v, n, t : s = history.seen /\ v = history'.seen /\ n = Len(s) /\ t = Content(fd)
  OBVIOUS
<1>2. /\ s \in Seq(Bytes) /\ u \in Seq(Bytes) /\ v = s \o u
      /\ n \in Nat /\ Len(u) \in Nat /\ cursor = n
  BY <1>1, RunTyped DEF FollowTyped, Took, IsRead
<1>3. Len(v) = n + Len(u) /\ \A k \in 1..(n + Len(u)) : v[k] = IF k <= n THEN s[k] ELSE u[k - n]
  BY <1>1, <1>2, JoinIs
<1>4. PICK m : m = Len(files[fd])
  OBVIOUS
<1>7. m \in 1..Len(files[fd]) /\ t = files[fd][m]
  <2>1. files[fd] \in Seq(Seq(Bytes)) /\ Len(files[fd]) > 0
    BY DEF FollowTyped
  <2>2. m \in Nat /\ m > 0
    BY <1>4, <2>1
  <2> QED
    BY <1>1, <1>4, <2>2 DEF Content, Last
<1>5. ASSUME NEW k \in 1..Len(v)
      PROVE  \E i, q : IsAt(v[k], i, q, k)
  <2>1. CASE k <= n
    <3>1. k \in 1..n /\ v[k] = s[k]
      BY <1>2, <1>3, <2>1
    <3> QED
      BY <1>1, <3>1 DEF Aligned
  <2>2. CASE ~(k <= n)
    <3>1. k - n \in 1..Len(u) /\ cursor + (k - n) = k /\ v[k] = u[k - n]
      BY <1>2, <1>3, <2>2
    <3>2. k <= Len(t) /\ v[k] = t[k]
      BY <1>1, <3>1 DEF IsRead
    <3>3. k \in Nat /\ 1 <= k /\ Len(t) \in Nat
      <4>1. t \in Seq(Bytes)
        BY <1>1, NextReadIs
      <4> QED
        BY <1>2, <1>3, <4>1
    <3>4. IsAt(v[k], fd, m, k)
      BY <1>7, <3>2, <3>3 DEF IsAt, FollowTyped
    <3> QED
      BY <3>4
  <2> QED
    BY <2>1, <2>2
<1>6. ASSUME NEW k \in 1..Len(v) PROVE \E i, q : IsAt(v[k], i, q, k)'
  <2>1. PICK i, q : IsAt(v[k], i, q, k)
    BY <1>5
  <2>2. (IsAt(v[k], i, q, k))'
    BY <1>1, <2>1 DEF IsAt
  <2> QED
    BY <2>2
<1> QED
  BY <1>1, <1>6 DEF Aligned

-----------------------------------------------------------------------------
(* The writer and the rotation.                                            *)

\* Bytes stay where they are.
BytesStay == \A b, i, m, k : IsAt(b, i, m, k) => IsAt(b, i, m, k)'

\* A file that is not renamed away may be cut; one that is only grows.
OldFileGrows == path # fd => StartOf(Content(fd), Content(fd)')

\* A record, or a part of one, goes to the end of the writer's file.
LEMMA WriteKeeps ==
  ASSUME FollowTyped, Apart, Write
  PROVE  FollowTyped' /\ Apart' /\ BytesStay /\ OldFileGrows
<1>1. PICK text, n :
        /\ text \in (IF pending = <<>> THEN Texts[mode] ELSE {pending}) /\ n \in 1..Len(text)
        /\ written' = written + n
        /\ files' = [files EXCEPT ![writer] = [files[writer] EXCEPT ![Len(files[writer])] =
                        @ \o [i \in 1..n |-> [kind |-> text[i], at |-> written + i]]]]
        /\ pending' = SubSeq(text, n + 1, Len(text))
  BY DEF Write
<1>2. /\ writer \in Inodes
      /\ UNCHANGED <<mode, path, writer, events, fd, cursor, offset, pc, buffer, bases, history, ended>>
  BY DEF Write, FollowTyped, follower
<1>3. text \in Seq(Kinds) /\ Len(text) \in Nat
  <2>1. Texts[mode] \subseteq Seq(Kinds) /\ pending \in Seq(Kinds)
    BY FollowAssumption DEF FollowTyped
  <2> QED
    BY <1>1, <2>1
<1>4. n \in Nat /\ 1 <= n /\ n <= Len(text) /\ written \in Nat
  BY <1>1, <1>3 DEF FollowTyped
<1>5. PICK u : u = [i \in 1..n |-> [kind |-> text[i], at |-> written + i]]
  OBVIOUS
<1>6. /\ u \in Seq(Bytes) /\ Len(u) = n
      /\ \A i \in 1..n : u[i].at = written + i
  <2>1. \A i \in 1..n : text[i] \in Kinds /\ written + i \in Nat
    BY <1>3, <1>4
  <2>2. u \in [1..n -> Bytes]
    BY <1>5, <2>1 DEF Bytes
  <2> QED
    BY <1>4, <1>5, <2>2, TableIsSeq
<1>7. PICK w, old, last, g, h :
        w = writer /\ old = files[w] /\ last = Len(old) /\ g = old[last] /\ h = g \o u
  OBVIOUS
<1>8. old \in Seq(Seq(Bytes)) /\ last \in 1..Len(old) /\ g \in Seq(Bytes) /\ Len(g) \in Nat
  <2>1. old \in Seq(Seq(Bytes)) /\ Len(old) > 0
    BY <1>2, <1>7 DEF FollowTyped
  <2>2. last \in 1..Len(old)
    BY <1>7, <2>1
  <2> QED
    BY <1>7, <2>1, <2>2
<1>9. /\ h \in Seq(Bytes) /\ Len(h) = Len(g) + n
      /\ \A i \in 1..(Len(g) + n) : h[i] = IF i <= Len(g) THEN g[i] ELSE u[i - Len(g)]
  <2>1. g \in Seq(Bytes) /\ u \in Seq(Bytes) /\ h = g \o u
    BY <1>6, <1>7, <1>8
  <2>2. /\ h \in Seq(Bytes) /\ Len(h) = Len(g) + Len(u)
        /\ \A i \in 1..(Len(g) + Len(u)) : h[i] = IF i <= Len(g) THEN g[i] ELSE u[i - Len(g)]
    BY <2>1, JoinIs
  <2>3. Len(u) = n
    BY <1>6
  <2> QED
    BY <2>2, <2>3
<1>30. \A i \in 1..Len(g) : i \in 1..Len(h) /\ h[i] = g[i]
  <2> SUFFICES ASSUME NEW i \in 1..Len(g) PROVE i \in 1..Len(h) /\ h[i] = g[i]
    OBVIOUS
  <2>1. i \in Nat /\ 1 <= i /\ i <= Len(g) /\ Len(h) = Len(g) + n
    BY <1>8, <1>9
  <2>2. i \in 1..(Len(g) + n)
    BY <1>4, <1>8, <2>1
  <2> QED
    BY <1>9, <2>1, <2>2
<1>10. PICK new : new = [old EXCEPT ![last] = h]
  OBVIOUS
<1>11. /\ new \in Seq(Seq(Bytes)) /\ Len(new) = Len(old) /\ new[last] = h
       /\ \A m \in 1..Len(old) : m # last => new[m] = old[m]
  <2>1. new \in Seq(Seq(Bytes)) /\ Len(new) = Len(old)
    BY <1>8, <1>9, <1>10
  <2> QED
    BY <1>8, <1>10, <2>1
<1>12. files' = [files EXCEPT ![w] = new] /\ w \in Inodes
  BY <1>1, <1>2, <1>5, <1>7, <1>10
<1>13. /\ files' \in [Inodes -> Seq(Seq(Bytes))] /\ files'[w] = new
       /\ \A i \in Inodes : i # w => files'[i] = files[i]
  <2>1. files \in [Inodes -> Seq(Seq(Bytes))]
    BY DEF FollowTyped
  <2> QED
    BY <1>11, <1>12, <2>1
<1>14. \A i \in Inodes : Len(files'[i]) > 0
  <2> SUFFICES ASSUME NEW i \in Inodes PROVE Len(files'[i]) > 0
    OBVIOUS
  <2>1. Len(files[i]) > 0
    BY DEF FollowTyped
  <2> QED
    BY <1>7, <1>11, <1>13, <2>1
<1>15. FollowTyped'
  <2>1. pending' \in Seq(Kinds)
    <3>1. \A j \in (n + 1)..Len(text) : text[j] \in Kinds
      BY <1>3, <1>4
    <3>2. n + 1 \in Int /\ Len(text) \in Int
      BY <1>3, <1>4
    <3> QED
      BY <1>1, <3>1, <3>2, SubSeqProperties
  <2>2. written' \in Nat
    BY <1>1, <1>4
  <2> QED
    BY <1>2, <1>13, <1>14, <2>1, <2>2 DEF FollowTyped
<1>16. BytesStay
  <2> SUFFICES ASSUME NEW b, NEW i, NEW m, NEW k, IsAt(b, i, m, k) PROVE IsAt(b, i, m, k)'
    BY DEF BytesStay
  <2>1. /\ i \in Inodes /\ m \in 1..Len(files[i]) /\ k \in 1..Len(files[i][m])
        /\ b = files[i][m][k]
    BY DEF IsAt
  <2>2. CASE i # w
    BY <1>13, <2>1, <2>2 DEF IsAt
  <2>3. CASE i = w /\ m # last
    BY <1>7, <1>11, <1>13, <2>1, <2>3 DEF IsAt
  <2>4. CASE i = w /\ m = last
    <3>1. k \in 1..Len(g) /\ b = g[k]
      BY <1>7, <2>1, <2>4
    <3>2. k \in 1..Len(h) /\ h[k] = g[k]
      BY <1>30, <3>1
    <3>3. i \in Inodes /\ m \in 1..Len(files'[i]) /\ files'[i][m] = h
      BY <1>11, <1>13, <2>1, <2>4, <1>7
    <3> QED
      BY <3>1, <3>2, <3>3 DEF IsAt
  <2> QED
    BY <2>2, <2>3, <2>4
<1>17. ASSUME NEW b, NEW i, NEW m, NEW k, IsAt(b, i, m, k)'
       PROVE  \/ IsAt(b, i, m, k)
              \/ i = w /\ m = last /\ k \in Nat /\ k > Len(g) /\ b.at = written + (k - Len(g))
                 /\ k - Len(g) \in 1..n
  <2>1. /\ i \in Inodes /\ m \in 1..Len(files'[i]) /\ k \in 1..Len(files'[i][m])
        /\ b = files'[i][m][k]
    BY <1>17 DEF IsAt
  <2>2. CASE i # w
    BY <1>13, <2>1, <2>2 DEF IsAt
  <2>3. CASE i = w /\ m # last
    BY <1>7, <1>11, <1>13, <2>1, <2>3 DEF IsAt
  <2>4. CASE i = w /\ m = last
    <3>1. k \in 1..Len(h) /\ b = h[k]
      BY <1>11, <1>13, <2>1, <2>4
    <3>2. CASE k <= Len(g)
      <4>1. k \in 1..Len(g) /\ b = g[k]
        <5>1. k \in Nat /\ 1 <= k
          BY <3>1
        <5>2. k \in 1..Len(g)
          BY <1>8, <3>2, <5>1
        <5> QED
          BY <1>30, <3>1, <5>2
      <4> QED
        BY <1>7, <1>8, <1>2, <2>4, <4>1 DEF IsAt
    <3>3. CASE ~(k <= Len(g))
      <4>1. k \in Nat /\ k > Len(g) /\ k - Len(g) \in 1..n /\ b = u[k - Len(g)]
        BY <1>4, <1>8, <1>9, <3>1, <3>3
      <4> QED
        BY <1>6, <2>4, <4>1
    <3> QED
      BY <3>2, <3>3
  <2> QED
    BY <2>2, <2>3, <2>4
<1>18. Apart'
  <2>1. ASSUME NEW b, NEW i, NEW m, NEW k, IsAt(b, i, m, k)'
        PROVE  b.at \in Nat /\ b.at <= written'
    <3>1. CASE IsAt(b, i, m, k)
      BY <1>1, <1>4, <3>1 DEF Apart
    <3>2. CASE b.at = written + (k - Len(g)) /\ k - Len(g) \in 1..n
      BY <1>1, <1>4, <3>2
    <3> QED
      BY <1>17, <2>1, <3>1, <3>2
  <2>2. ASSUME NEW b, NEW i, NEW m, NEW k, NEW j, NEW q, NEW l,
               IsAt(b, i, m, k)', IsAt(b, j, q, l)'
        PROVE  i = j /\ m = q /\ k = l
    <3> DEFINE New(x, y, z) == /\ x = w /\ y = last /\ z \in Nat /\ z > Len(g)
                               /\ b.at = written + (z - Len(g)) /\ z - Len(g) \in 1..n
    <3>1. IsAt(b, i, m, k) \/ New(i, m, k)
      BY <1>17, <2>2
    <3>2. IsAt(b, j, q, l) \/ New(j, q, l)
      BY <1>17, <2>2
    <3>3. CASE IsAt(b, i, m, k) /\ IsAt(b, j, q, l)
      BY <3>3 DEF Apart
    <3>4. CASE New(i, m, k) /\ New(j, q, l)
      BY <1>4, <1>8, <3>4
    <3>5. ASSUME IsAt(b, i, m, k) \/ IsAt(b, j, q, l), New(i, m, k) \/ New(j, q, l) PROVE FALSE
      <4>1. b.at \in Nat /\ b.at <= written
        BY <3>5 DEF Apart
      <4>2. b.at > written
        <5>1. PICK z : b.at = written + (z - Len(g)) /\ z - Len(g) \in 1..n
          BY <3>5
        <5>2. PICK y : y = z - Len(g)
          OBVIOUS
        <5>3. y \in Nat /\ 1 <= y /\ b.at = written + y
          BY <1>4, <5>1, <5>2
        <5> QED
          BY <1>4, <5>3
      <4> QED
        BY <1>4, <4>1, <4>2
    <3> QED
      BY <3>1, <3>2, <3>3, <3>4, <3>5
  <2> QED
    BY <2>1, <2>2 DEF Apart
<1>19. OldFileGrows
  <2>1. PICK t, r : t = Content(fd) /\ r = Content(fd)'
    OBVIOUS
  <2>2. fd' = fd /\ fd \in Inodes
    BY <1>2 DEF FollowTyped
  <2>3. CASE fd # w
    <3>1. files'[fd] = files[fd]
      BY <1>13, <2>2, <2>3
    <3>2. r = t
      BY <2>1, <2>2, <3>1 DEF Content
    <3>3. t \in Seq(Bytes) /\ Len(t) \in Nat
      BY <2>1, NextReadIs
    <3> QED
      BY <2>1, <3>2, <3>3 DEF OldFileGrows, StartOf
  <2>4. CASE fd = w
    <3>1. t = g /\ r = h
      BY <1>7, <1>11, <1>13, <2>1, <2>2, <2>4 DEF Content, Last
    <3>2. Len(g) <= Len(h) /\ \A k \in 1..Len(g) : g[k] = h[k]
      BY <1>4, <1>8, <1>9
    <3> QED
      BY <2>1, <3>1, <3>2 DEF OldFileGrows, StartOf
  <2> QED
    BY <2>3, <2>4
<1> QED
  BY <1>15, <1>16, <1>18, <1>19

\* A file cut is a file begun again.
LEMMA TruncateKeeps ==
  ASSUME FollowTyped, Apart, Truncate
  PROVE  FollowTyped' /\ Apart' /\ BytesStay /\ OldFileGrows
<1>1. /\ path # NIL /\ path \in Inodes
      /\ files' = [files EXCEPT ![path] = Append(@, <<>>)]
      /\ UNCHANGED <<mode, path, writer, pending, written, fd, cursor, offset, pc, buffer,
                     bases, history, ended>>
  BY DEF Truncate, FollowTyped, follower
<1>2. PICK old, new : old = files[path] /\ new = Append(old, <<>>)
  OBVIOUS
<1>3. /\ new \in Seq(Seq(Bytes)) /\ Len(new) = Len(old) + 1 /\ Len(old) \in Nat
      /\ new[Len(old) + 1] = <<>> /\ \A m \in 1..Len(old) : new[m] = old[m]
  <2>1. old \in Seq(Seq(Bytes)) /\ <<>> \in Seq(Bytes)
    BY <1>1, <1>2 DEF FollowTyped
  <2> QED
    BY <1>2, <2>1, AppendProperties
<1>4. /\ files' \in [Inodes -> Seq(Seq(Bytes))] /\ files'[path] = new
      /\ \A i \in Inodes : i # path => files'[i] = files[i]
  <2>1. files \in [Inodes -> Seq(Seq(Bytes))]
    BY DEF FollowTyped
  <2> QED
    BY <1>1, <1>2, <1>3, <2>1
<1>5. \A i \in Inodes : Len(files'[i]) > 0
  <2> SUFFICES ASSUME NEW i \in Inodes PROVE Len(files'[i]) > 0
    OBVIOUS
  <2>1. Len(files[i]) > 0
    BY DEF FollowTyped
  <2> QED
    BY <1>3, <1>4, <2>1
<1>6. FollowTyped'
  BY <1>1, <1>4, <1>5 DEF FollowTyped
<1>7. ASSUME NEW b, NEW i, NEW m, NEW k PROVE IsAt(b, i, m, k)' <=> IsAt(b, i, m, k)
  <2>1. CASE i # path
    BY <1>4, <2>1 DEF IsAt
  <2>2. CASE i = path /\ m \in 1..Len(old)
    <3>1. m \in 1..Len(new) /\ new[m] = old[m]
      BY <1>3, <2>2
    <3> QED
      BY <1>2, <1>4, <2>2, <3>1, <1>1 DEF IsAt
  <2>3. CASE i = path /\ ~(m \in 1..Len(old))
    <3>1. ~IsAt(b, i, m, k)
      BY <1>2, <2>3 DEF IsAt
    <3>2. ASSUME IsAt(b, i, m, k)' PROVE FALSE
      <4>1. m \in 1..Len(new) /\ k \in 1..Len(new[m])
        BY <1>1, <1>4, <2>3, <3>2 DEF IsAt
      <4>2. m = Len(old) + 1
        BY <1>3, <2>3, <4>1
      <4>3. k \in 1..0
        BY <1>3, <4>1, <4>2
      <4> QED
        BY <4>3
    <3> QED
      BY <3>1, <3>2
  <2> QED
    BY <2>1, <2>2, <2>3
<1>8. BytesStay
  BY <1>7 DEF BytesStay
<1>9. Apart'
  <2>1. written' = written
    BY <1>1
  <2>2. \A b, i, m, k : IsAt(b, i, m, k)' => b.at \in Nat /\ b.at <= written
    BY <1>7 DEF Apart
  <2>3. \A b, i, m, k, j, q, l : IsAt(b, i, m, k)' /\ IsAt(b, j, q, l)' => i = j /\ m = q /\ k = l
    BY <1>7 DEF Apart
  <2> QED
    BY <2>1, <2>2, <2>3 DEF Apart
<1>10. OldFileGrows
  <2> SUFFICES ASSUME path # fd PROVE StartOf(Content(fd), Content(fd)')
    BY DEF OldFileGrows
  <2>1. PICK t, r : t = Content(fd) /\ r = Content(fd)'
    OBVIOUS
  <2>2. files'[fd'] = files[fd]
    BY <1>1, <1>4 DEF FollowTyped
  <2>3. r = t
    BY <2>1, <2>2 DEF Content
  <2>4. t \in Seq(Bytes) /\ Len(t) \in Nat
    BY <2>1, NextReadIs
  <2> QED
    BY <2>1, <2>3, <2>4 DEF StartOf
<1> QED
  BY <1>6, <1>8, <1>9, <1>10

\* The other steps touch no file.
LEMMA NamesKeep ==
  ASSUME FollowTyped, Apart, Rename \/ Create \/ Reopen \/ Close
  PROVE  FollowTyped' /\ Apart' /\ BytesStay /\ OldFileGrows
<1>1. /\ UNCHANGED <<mode, files, pending, written, fd, cursor, offset, pc, buffer,
                     bases, history, ended>>
      /\ path' \in Inodes \cup {NIL} /\ writer' \in Inodes \cup {NIL}
  BY DEF Rename, Create, Reopen, Close, follower, FollowTyped
<1>2. FollowTyped'
  BY <1>1 DEF FollowTyped
<1>3. \A b, i, m, k : IsAt(b, i, m, k)' <=> IsAt(b, i, m, k)
  BY <1>1 DEF IsAt
<1>4. BytesStay /\ Apart'
  BY <1>1, <1>3 DEF BytesStay, Apart
<1>5. OldFileGrows
  <2>1. PICK t, r : t = Content(fd) /\ r = Content(fd)'
    OBVIOUS
  <2>2. r = t
    BY <1>1, <2>1 DEF Content
  <2>3. t \in Seq(Bytes) /\ Len(t) \in Nat
    BY <2>1, NextReadIs
  <2> QED
    BY <2>1, <2>2, <2>3 DEF OldFileGrows, StartOf
<1> QED
  BY <1>2, <1>4, <1>5

\* A beginning of a beginning is a beginning.
LEMMA FrontOfFront ==
  ASSUME NEW s, NEW t, NEW r, Len(s) \in Nat, Len(t) \in Nat, Len(r) \in Nat, StartOf(s, t), StartOf(t, r)
  PROVE  StartOf(s, r)
<1>1. Len(s) <= Len(t) /\ Len(t) <= Len(r)
  BY DEF StartOf
<1>2. \A k \in 1..Len(s) : k \in 1..Len(t)
  BY <1>1
<1>3. \A k \in 1..Len(s) : s[k] = t[k] /\ t[k] = r[k]
  BY <1>2 DEF StartOf
<1> QED
  BY <1>1, <1>3 DEF StartOf

\* Where bytes stay, what was read is where it was.
LEMMA AlignedStays ==
  ASSUME NEW r, BytesStay, Aligned(r)
  PROVE  \A k \in 1..Len(r.seen) : \E i, m : IsAt(r.seen[k], i, m, k)'
<1> SUFFICES ASSUME NEW k \in 1..Len(r.seen) PROVE \E i, m : IsAt(r.seen[k], i, m, k)'
  OBVIOUS
<1>1. PICK i, m : IsAt(r.seen[k], i, m, k)
  BY DEF Aligned
<1>2. IsAt(r.seen[k], i, m, k)'
  BY <1>1 DEF BytesStay
<1> QED
  BY <1>2

\* Whatever the writer and the rotation do, the invariant holds.
LEMMA WorldKeeps ==
  ASSUME TailInv, World
  PROVE  TailInv'
<1>1. FollowTyped /\ Apart /\ Standing /\ Draining /\ Holding
  BY DEF TailInv
<1>2. FollowTyped' /\ Apart' /\ BytesStay /\ OldFileGrows
  BY <1>1, WriteKeeps, TruncateKeeps, NamesKeep DEF World
<1>3. /\ UNCHANGED <<mode, fd, cursor, offset, pc, buffer, history, ended>>
      /\ path # fd => path' # fd'
  BY <1>1, FollowAssumption
  DEF World, Write, Truncate, Rename, Create, Reopen, Close, follower, FollowTyped
<1>4. Standing'
  <2>1. ~history.stale => Aligned(history)'
    <3> SUFFICES ASSUME ~history.stale PROVE Aligned(history)'
      OBVIOUS
    <3>1. PICK r : r = history /\ r = history'
      BY <1>3
    <3>2. \A k \in 1..Len(r.seen) : \E i, m : IsAt(r.seen[k], i, m, k)'
      BY <1>1, <1>2, <3>1, AlignedStays DEF Standing
    <3> QED
      BY <3>1, <3>2 DEF Aligned
  <2>2. ended # NIL /\ ~ended.stale => Aligned(ended)'
    <3> SUFFICES ASSUME ended # NIL, ~ended.stale PROVE Aligned(ended)'
      OBVIOUS
    <3>1. PICK r : r = ended /\ r = ended'
      BY <1>3
    <3>2. \A k \in 1..Len(r.seen) : \E i, m : IsAt(r.seen[k], i, m, k)'
      BY <1>1, <1>2, <3>1, AlignedStays DEF Standing
    <3> QED
      BY <3>1, <3>2 DEF Aligned
  <2> QED
    BY <1>1, <1>3, <2>1, <2>2 DEF Standing
<1>5. Draining'
  <2>1. ASSUME pc = "drain", ~history.stale
        PROVE  /\ StartOf(history.due, Content(fd)')
               /\ history.due = <<>> \/ StartOf(history.seen, Content(fd)')
    <3>1. PICK t, r, d, s : t = Content(fd) /\ r = Content(fd)' /\ d = history.due /\ s = history.seen
      OBVIOUS
    <3>2. /\ StartOf(t, r) /\ StartOf(d, t)
          /\ d = <<>> \/ StartOf(s, t)
      BY <1>1, <1>2, <2>1, <3>1 DEF OldFileGrows, Draining
    <3>3. Len(t) \in Nat /\ Len(d) \in Nat /\ Len(s) \in Nat
      <4>1. t \in Seq(Bytes) /\ d \in Seq(Bytes) /\ s \in Seq(Bytes)
        BY <1>1, <3>1, NextReadIs, RunTyped DEF FollowTyped
      <4> QED
        BY <4>1
    <3>4. Len(r) \in Nat
      <4>1. files'[fd'] \in Seq(Seq(Bytes)) /\ Len(files'[fd']) > 0
        BY <1>2 DEF FollowTyped
      <4>2. PICK f, n : f = files'[fd'] /\ n = Len(f)
        OBVIOUS
      <4>3. n \in 1..Len(f) /\ r = f[n]
        BY <3>1, <4>1, <4>2 DEF Content, Last
      <4>4. r \in Seq(Bytes)
        BY <4>1, <4>2, <4>3
      <4> QED
        BY <4>4
    <3>5. StartOf(d, r) /\ (d = <<>> \/ StartOf(s, r))
      BY <3>2, <3>3, <3>4, FrontOfFront
    <3> QED
      BY <3>1, <3>5
  <2> QED
    BY <1>1, <1>3, <2>1 DEF Draining
<1>6. Holding'
  BY <1>1, <1>3 DEF Holding
<1> QED
  BY <1>2, <1>4, <1>5, <1>6 DEF TailInv

-----------------------------------------------------------------------------
(* The loop.                                                               *)

\* The loop touches no file.
LEMMA FilesStay ==
  ASSUME Apart, UNCHANGED environment
  PROVE  Apart' /\ BytesStay /\ UNCHANGED <<mode, files, path, writer, pending, written>>
<1>1. UNCHANGED <<mode, files, path, writer, pending, written>>
  BY DEF environment
<1>2. \A b, i, m, k : IsAt(b, i, m, k)' <=> IsAt(b, i, m, k)
  BY <1>1 DEF IsAt
<1> QED
  BY <1>1, <1>2 DEF Apart, BytesStay

\* The same bytes read are where they were.
LEMMA SameAligned ==
  ASSUME Aligned(history), BytesStay, history'.seen = history.seen
  PROVE  Aligned(history)'
<1>1. PICK s : s = history.seen /\ s = history'.seen
  OBVIOUS
<1>2. \A k \in 1..Len(history.seen) : \E i, m : IsAt(history.seen[k], i, m, k)'
  BY AlignedStays
<1>3. \A k \in 1..Len(s) : \E i, m : IsAt(s[k], i, m, k)'
  BY <1>1, <1>2
<1> QED
  BY <1>1, <1>3 DEF Aligned

\* What a rotation ended stays what it was.
EndedStays ==
  /\ ended' # NIL /\ ~ended'.stale => Aligned(ended)' /\ StartOf(ended'.due, ended'.seen)
  /\ ended' # NIL => IsRun(ended')

\* And so it does in every step that leaves it.
LEMMA EndedKept ==
  ASSUME TailInv, BytesStay, UNCHANGED ended
  PROVE  EndedStays
<1>1. ended # NIL => IsRun(ended)
  BY DEF TailInv, FollowTyped
<1>2. ended # NIL /\ ~ended.stale => Aligned(ended) /\ StartOf(ended.due, ended.seen)
  BY DEF TailInv, Standing, Draining
<1>3. ASSUME ended # NIL, ~ended.stale PROVE Aligned(ended)'
  <2>1. PICK r : r = ended /\ r = ended'
    OBVIOUS
  <2>2. \A k \in 1..Len(r.seen) : \E i, m : IsAt(r.seen[k], i, m, k)'
    BY <1>2, <1>3, <2>1, AlignedStays
  <2> QED
    BY <2>1, <2>2 DEF Aligned
<1> QED
  BY <1>1, <1>2, <1>3 DEF EndedStays

\* Nothing is a beginning of anything.
LEMMA NothingIsFront ==
  ASSUME NEW s \in Seq(Bytes), NEW e, e = <<>>
  PROVE  StartOf(e, s)
<1>1. Len(s) \in Nat /\ Len(e) = 0
  OBVIOUS
<1> QED
  BY <1>1 DEF StartOf

\* Between two looks what is held is within the cap.
LEMMA HeldAtRest ==
  ASSUME FollowTyped, Holding, pc \in {"poll", "size"}
  PROVE  Held(buffer) <= HeldCap /\ LineFeeds(buffer) = {} /\ Len(buffer) <= HeldCap
<1>1. LineFeeds(buffer) = {} /\ Len(buffer) <= HeldCap /\ buffer \in Seq(Bytes)
  BY DEF Holding, FollowTyped
<1>2. PICK n, c : n = Len(buffer) /\ c = CompleteSpan(buffer)
  OBVIOUS
<1>3. n \in Nat /\ c \in 0..n /\ HeldCap \in Nat /\ n <= HeldCap
  BY <1>1, <1>2, CompleteSpanIs, FollowAssumption
<1>4. n - c <= HeldCap
  BY <1>3
<1> QED
  BY <1>1, <1>2, <1>4 DEF Held

\* The look at the path.
LEMMA PollKeeps ==
  ASSUME TailInv, PollPath
  PROVE  TailInv'
<1>1. FollowTyped /\ Apart /\ Standing /\ Draining /\ Holding
  BY DEF TailInv
<1>2. /\ pc = "poll" /\ mode = "file"
      /\ UNCHANGED <<environment, fd, cursor, offset, buffer, ended>>
  BY DEF PollPath
<1>3. Apart' /\ BytesStay /\ UNCHANGED <<mode, files, path, writer, pending, written>> /\ EndedStays
  BY <1>1, <1>2, FilesStay, EndedKept
<1>4. ~history.stale /\ Aligned(history) /\ offset = Len(history.seen)
  BY <1>1, <1>2 DEF Standing
<1>5. Held(buffer) <= HeldCap /\ LineFeeds(buffer) = {} /\ Len(buffer) <= HeldCap
  BY <1>1, <1>2, HeldAtRest
<1>6. CASE path \notin {NIL, fd}
  <2>1. /\ pc' = "drain"
        /\ history' = [history EXCEPT !.stale = cursor # offset,
                                      !.due = IF IsPrefix(history.seen, Content(fd)) THEN Content(fd) ELSE <<>>]
    BY <1>6 DEF PollPath
  <2>2. PICK t, e, x : /\ t = Content(fd) /\ e = (IF IsPrefix(history.seen, t) THEN t ELSE <<>>)
                       /\ x = (cursor # offset)
    OBVIOUS
  <2>3. PICK s, o, p, u, f, l, d :
          s \in Seq(Bytes) /\ d \in Seq(Bytes) /\ history = History(s, o, p, u, f, l, d)
    BY <1>1 DEF FollowTyped, IsRun
  <2>4. history' = History(s, o, p, u, f, x, e)
    BY <2>1, <2>2, <2>3 DEF History
  <2>5. t \in Seq(Bytes) /\ Len(t) \in Nat /\ e \in Seq(Bytes)
    <3>1. <<>> \in Seq(Bytes)
      OBVIOUS
    <3> QED
      BY <1>1, <2>2, <3>1, NextReadIs
  <2>6. IsRun(history') /\ history'.seen = s /\ history'.stale = x /\ history'.due = e
    BY <2>3, <2>4, <2>5, HistoryIs
  <2>7. history.seen = s
    BY <2>3, HistoryIs
  <2>8. StartOf(e, t) /\ (e = <<>> \/ StartOf(s, t))
    <3>1. CASE IsPrefix(s, t)
      <4>1. e = t
        BY <2>2, <2>7, <3>1
      <4>2. StartOf(t, t)
        BY <2>5 DEF StartOf
      <4>3. StartOf(s, t)
        <5>1. Len(s) <= Len(t) /\ SubSeq(s, 1, Len(s)) = SubSeq(t, 1, Len(s)) /\ Len(s) \in Nat
          BY <2>3, <3>1 DEF IsPrefix
        <5>8. PICK n : n = Len(s)
          OBVIOUS
        <5>9. PICK v : v = SubSeq(s, 0 + 1, n)
          OBVIOUS
        <5>2. v = SubSeq(s, 0 + 1, n) /\ v = SubSeq(t, 0 + 1, n) /\ n = Len(s)
          BY <5>1, <5>8, <5>9
        <5>3. n \in 0..Len(s) /\ n \in 0..Len(t) /\ 0 \in Nat
          BY <2>5, <5>1, <5>2
        <5>4. /\ Len(v) = IF 0 <= n THEN n - 0 ELSE 0
              /\ \A k \in 1..Len(v) : 0 + k <= n /\ v[k] = s[0 + k]
          BY <2>3, <5>2, <5>3, PartIs
        <5>5. \A k \in 1..Len(v) : 0 + k <= n /\ v[k] = t[0 + k]
          BY <2>5, <5>2, <5>3, PartIs
        <5>6. Len(v) = n
          BY <5>1, <5>2, <5>4
        <5>7. \A k \in 1..n : s[k] = t[k]
          <6> SUFFICES ASSUME NEW k \in 1..n PROVE s[k] = t[k]
            OBVIOUS
          <6>1. 0 + k = k
            BY <5>1, <5>2
          <6> QED
            BY <5>4, <5>5, <5>6, <6>1
        <5> QED
          BY <5>1, <5>2, <5>7 DEF StartOf
      <4> QED
        BY <4>1, <4>2, <4>3
    <3>2. CASE ~IsPrefix(s, t)
      <4>1. e = <<>>
        BY <2>2, <2>7, <3>2
      <4> QED
        BY <2>5, <4>1, NothingIsFront
    <3> QED
      BY <3>1, <3>2
  <2>9. FollowTyped'
    BY <1>1, <1>2, <1>3, <2>1, <2>6 DEF FollowTyped, Places, EndedStays
  <2>10. Standing'
    <3>1. Aligned(history)'
      BY <1>3, <1>4, <2>6, <2>7, SameAligned
    <3>2. ~history'.stale => cursor' = Len(history'.seen)
      BY <1>2, <1>4, <2>2, <2>6, <2>7
    <3> QED
      BY <1>2, <1>3, <2>1, <3>1, <3>2 DEF Standing, EndedStays
  <2>11. Draining'
    <3>1. Content(fd)' = t
      BY <1>2, <1>3, <2>2 DEF Content
    <3> QED
      BY <1>2, <1>3, <1>6, <2>1, <2>6, <2>8, <3>1 DEF Draining, EndedStays
  <2>12. Holding'
    BY <1>1, <1>2, <1>5, <2>1 DEF Holding
  <2> QED
    BY <1>3, <2>9, <2>10, <2>11, <2>12 DEF TailInv
<1>7. CASE path \in {NIL, fd}
  <2>1. pc' = "size" /\ UNCHANGED history
    BY <1>7 DEF PollPath
  <2>2. FollowTyped'
    BY <1>1, <1>2, <1>3, <2>1 DEF FollowTyped, Places
  <2>3. Standing'
    <3>1. Aligned(history)'
      BY <1>3, <1>4, <2>1, SameAligned
    <3> QED
      BY <1>2, <1>3, <1>4, <2>1, <3>1 DEF Standing, EndedStays
  <2>4. Draining'
    BY <1>3, <2>1 DEF Draining, EndedStays
  <2>5. Holding'
    BY <1>1, <1>2, <1>5, <2>1 DEF Holding
  <2> QED
    BY <1>3, <2>2, <2>3, <2>4, <2>5 DEF TailInv
<1> QED
  BY <1>6, <1>7

\* What was read is a beginning of the file, and so it is with the next bytes of it.
LEMMA TakeFront ==
  ASSUME FollowTyped, NEW t, t = Content(fd), NEW u, IsRead(u, t, cursor), Took(u),
         cursor = Len(history.seen), StartOf(history.seen, t)
  PROVE  StartOf(history'.seen, t)
<1>1. PICK s, v, n : s = history.seen /\ v = history'.seen /\ n = Len(s)
  OBVIOUS
<1>2. /\ s \in Seq(Bytes) /\ u \in Seq(Bytes) /\ v = s \o u
      /\ n \in Nat /\ Len(u) \in Nat /\ cursor = n /\ Len(t) \in Nat
  BY <1>1, RunTyped, NextReadIs DEF FollowTyped, Took, IsRead
<1>3. Len(v) = n + Len(u) /\ \A k \in 1..(n + Len(u)) : v[k] = IF k <= n THEN s[k] ELSE u[k - n]
  BY <1>1, <1>2, JoinIs
<1>4. Len(v) <= Len(t)
  <2>1. CASE Len(u) = 0
    BY <1>1, <1>2, <1>3, <2>1 DEF StartOf
  <2>2. CASE Len(u) # 0
    <3>1. Len(u) \in 1..Len(u)
      BY <1>2, <2>2
    <3>2. cursor + Len(u) <= Len(t)
      BY <3>1 DEF IsRead
    <3> QED
      BY <1>2, <1>3, <3>2
  <2> QED
    BY <2>1, <2>2
<1>5. ASSUME NEW k \in 1..Len(v) PROVE v[k] = t[k]
  <2>1. CASE k <= n
    <3>1. k \in 1..n /\ v[k] = s[k]
      BY <1>2, <1>3, <2>1
    <3> QED
      BY <1>1, <3>1 DEF StartOf
  <2>2. CASE ~(k <= n)
    <3>1. k - n \in 1..Len(u) /\ cursor + (k - n) = k /\ v[k] = u[k - n]
      BY <1>2, <1>3, <2>2
    <3> QED
      BY <3>1 DEF IsRead
  <2> QED
    BY <2>1, <2>2
<1> QED
  BY <1>1, <1>4, <1>5 DEF StartOf

\* One read of the file the loop is leaving.
LEMMA DrainKeeps ==
  ASSUME TailInv, Drain
  PROVE  TailInv'
<1>1. FollowTyped /\ Apart /\ Standing /\ Draining /\ Holding
  BY DEF TailInv
<1>2. PICK u, t : u = NextRead /\ t = Content(fd)
  OBVIOUS
<1>3. /\ pc = "drain" /\ Take(u)
      /\ pc' = IF u = <<>> \/ Held(buffer') > HeldCap THEN "reopen" ELSE "drain"
      /\ UNCHANGED <<environment, fd, offset, bases, ended>>
  BY <1>2 DEF Drain
<1>4. Apart' /\ BytesStay /\ UNCHANGED <<mode, files, path, writer, pending, written>> /\ EndedStays
  BY <1>1, <1>3, FilesStay, EndedKept
<1>5. /\ t \in Seq(Bytes) /\ Len(t) \in Nat /\ IsRead(u, t, cursor)
      /\ u = <<>> => Len(t) <= cursor
  BY <1>1, <1>2, NextReadIs
<1>6. u \in Seq(Bytes) /\ Len(u) \in Nat /\ Len(u) <= Chunk
  BY <1>5 DEF IsRead
<1>7. Took(u)
  BY <1>1, <1>3, <1>6, TakeIs
<1>8. /\ mode = "file" /\ path # fd
      /\ ~history.stale => cursor = Len(history.seen) /\ Aligned(history) /\ StartOf(history.due, t)
                           /\ (history.due = <<>> \/ StartOf(history.seen, t))
  BY <1>1, <1>2, <1>3 DEF Standing, Draining
<1>9. pc' \in {"reopen", "drain"}
  BY <1>3
<1>10. FollowTyped'
  BY <1>1, <1>3, <1>4, <1>7, <1>9 DEF FollowTyped, Places, Took, EndedStays
<1>11. Standing'
  <2>1. ~history'.stale => Aligned(history)'
    BY <1>2, <1>4, <1>5, <1>7, <1>8, <1>1, TakeAligned DEF Took
  <2>2. ~history'.stale => cursor' = Len(history'.seen)
    BY <1>7, <1>8 DEF Took
  <2> QED
    BY <1>4, <1>8, <1>9, <2>1, <2>2 DEF Standing, EndedStays
<1>12. Draining'
  <2>1. Content(fd)' = t
    BY <1>2, <1>3, <1>4 DEF Content
  <2>2. history.due \in Seq(Bytes) /\ history.seen \in Seq(Bytes) /\ history'.seen \in Seq(Bytes)
    BY <1>1, <1>7, RunTyped DEF FollowTyped, Took
  <2>3. ~history.stale => history.due = <<>> \/ StartOf(history'.seen, t)
    BY <1>1, <1>2, <1>5, <1>7, <1>8, TakeFront
  <2>4. pc' = "drain" /\ ~history'.stale =>
          StartOf(history'.due, t) /\ (history'.due = <<>> \/ StartOf(history'.seen, t))
    BY <1>7, <1>8, <2>3 DEF Took
  <2>5. ASSUME u = <<>>, ~history.stale PROVE StartOf(history.due, history'.seen)
    <3>1. CASE history.due = <<>>
      BY <2>2, <3>1, NothingIsFront
    <3>2. CASE history.due # <<>>
      <4>1. PICK d, v : d = history.due /\ v = history'.seen
        OBVIOUS
      <4>2. StartOf(d, t) /\ StartOf(v, t)
        BY <1>8, <2>3, <2>5, <3>2, <4>1
      <4>3. Len(v) = Len(history.seen) + Len(u) /\ Len(history.seen) \in Nat /\ Len(u) = 0
        BY <1>7, <2>5, <4>1 DEF Took
      <4>4. Len(t) <= Len(v)
        BY <1>5, <1>8, <2>5, <4>3
      <4>5. Len(d) \in Nat /\ Len(v) \in Nat
        BY <2>2, <4>1
      <4>6. Len(d) <= Len(v)
        BY <1>5, <4>2, <4>4, <4>5 DEF StartOf
      <4>7. \A k \in 1..Len(d) : k \in 1..Len(v)
        BY <4>5, <4>6
      <4>8. \A k \in 1..Len(d) : d[k] = t[k] /\ v[k] = t[k]
        BY <4>2, <4>7 DEF StartOf
      <4>9. StartOf(d, v)
        BY <4>6, <4>8 DEF StartOf
      <4> QED
        BY <4>1, <4>9
    <3> QED
      BY <3>1, <3>2
  <2>6. pc' = "reopen" /\ ~history'.stale => StartOf(history'.due, history'.seen) \/ Held(buffer') > HeldCap
    <3>1. history'.due = history.due /\ history'.stale = history.stale
      BY <1>7 DEF Took
    <3>2. pc' = "reopen" => u = <<>> \/ Held(buffer') > HeldCap
      BY <1>3
    <3> QED
      BY <2>5, <3>1, <3>2
  <2> QED
    BY <1>3, <1>4, <1>8, <1>9, <2>1, <2>4, <2>6 DEF Draining, EndedStays
<1>13. Holding'
  <2>1. PICK h, k : h = Held(buffer) /\ k = Held(buffer')
    OBVIOUS
  <2>2. h \in Nat /\ k \in Nat
    <3>1. buffer \in Seq(Bytes) /\ buffer' = buffer \o u
      BY <1>1, <1>3 DEF FollowTyped, Take
    <3> QED
      BY <1>6, <2>1, <3>1, HeldOfJoin
  <2>3. h <= HeldCap /\ k <= h + Len(u) /\ HeldCap \in Nat /\ Chunk \in Nat
    BY <1>1, <1>3, <1>7, <2>1, FollowAssumption DEF Holding, Took
  <2>4. k <= HeldCap + Chunk
    BY <1>6, <2>2, <2>3
  <2>5. pc' = "drain" => k <= HeldCap
    BY <1>3, <2>1, <2>2, <2>3
  <2> QED
    BY <1>9, <2>1, <2>4, <2>5 DEF Holding
<1> QED
  BY <1>4, <1>10, <1>11, <1>12, <1>13 DEF TailInv

\* The path is opened again.
LEMMA ReopenKeeps ==
  ASSUME TailInv, ReopenPath
  PROVE  TailInv'
<1>1. FollowTyped /\ Apart /\ Standing /\ Draining /\ Holding
  BY DEF TailInv
<1>2. /\ pc = "reopen" /\ UNCHANGED <<environment, buffer, bases, ended>>
      /\ \/ path = NIL /\ pc' = "failed" /\ UNCHANGED <<fd, cursor, offset>>
         \/ path # NIL /\ fd' = path /\ cursor' = 0 /\ offset' = 0 /\ pc' = "rotated"
      /\ history' = [history EXCEPT !.due = IF Held(buffer) > HeldCap THEN <<>> ELSE @]
  BY DEF ReopenPath
<1>3. Apart' /\ BytesStay /\ UNCHANGED <<mode, files, path, writer, pending, written>> /\ EndedStays
  BY <1>1, <1>2, FilesStay, EndedKept
<1>4. PICK s, o, p, t, f, l, d :
        s \in Seq(Bytes) /\ d \in Seq(Bytes) /\ history = History(s, o, p, t, f, l, d)
  BY <1>1 DEF FollowTyped, IsRun
<1>5. PICK e : e = (IF Held(buffer) > HeldCap THEN <<>> ELSE d)
  OBVIOUS
<1>6. e \in Seq(Bytes) /\ history' = History(s, o, p, t, f, l, e)
  <2>1. <<>> \in Seq(Bytes)
    OBVIOUS
  <2> QED
    BY <1>2, <1>4, <1>5, <2>1 DEF History
<1>7. /\ IsRun(history') /\ history'.seen = s /\ history'.stale = l /\ history'.due = e
      /\ history.seen = s /\ history.stale = l /\ history.due = d
  BY <1>4, <1>6, HistoryIs
<1>8. mode = "file" /\ pc' \in {"failed", "rotated"}
  BY <1>1, <1>2 DEF Standing
<1>9. FollowTyped'
  <2>1. fd' \in Inodes /\ cursor' \in Nat /\ offset' \in Nat
    BY <1>1, <1>2 DEF FollowTyped
  <2> QED
    BY <1>1, <1>2, <1>3, <1>7, <1>8, <2>1 DEF FollowTyped, Places, EndedStays
<1>10. Standing'
  <2>1. ~history'.stale => Aligned(history)'
    BY <1>1, <1>3, <1>7, SameAligned DEF Standing
  <2> QED
    BY <1>2, <1>3, <1>8, <2>1 DEF Standing, EndedStays
<1>11. Draining'
  <2>1. ~history'.stale => StartOf(history'.due, history'.seen)
    <3>1. CASE Held(buffer) > HeldCap
      BY <1>4, <1>5, <1>7, <3>1, NothingIsFront
    <3>2. CASE ~(Held(buffer) > HeldCap)
      BY <1>1, <1>2, <1>5, <1>7, <3>2 DEF Draining
    <3> QED
      BY <3>1, <3>2
  <2> QED
    BY <1>3, <1>8, <2>1 DEF Draining, EndedStays
<1>12. Holding'
  BY <1>1, <1>2, <1>8 DEF Holding
<1> QED
  BY <1>3, <1>9, <1>10, <1>11, <1>12 DEF TailInv

\* The look at the size.
LEMMA SizeKeeps ==
  ASSUME TailInv, Size
  PROVE  TailInv'
<1>1. FollowTyped /\ Apart /\ Standing /\ Draining /\ Holding
  BY DEF TailInv
<1>2. pc = "size" /\ UNCHANGED <<environment, fd, ended>>
  BY DEF Size
<1>3. Apart' /\ BytesStay /\ UNCHANGED <<mode, files, path, writer, pending, written>> /\ EndedStays
  BY <1>1, <1>2, FilesStay, EndedKept
<1>4. mode = "file" /\ ~history.stale /\ Aligned(history) /\ offset = Len(history.seen)
  BY <1>1, <1>2 DEF Standing
<1>5. Held(buffer) <= HeldCap /\ LineFeeds(buffer) = {} /\ Len(buffer) <= HeldCap
  BY <1>1, <1>2, HeldAtRest
<1>6. ASSUME offset' = 0, buffer' = <<>>, history' = NewRun, pc' = "poll", UNCHANGED cursor
      PROVE  TailInv'
  <2>1. PICK e : e = <<>>
    OBVIOUS
  <2>2. IsRun(history') /\ history'.seen = e /\ ~history'.stale /\ Len(e) = 0
    BY <1>6, <2>1, NewRunIs, HeldOfNothing
  <2>3. buffer' \in Seq(Bytes) /\ Len(buffer') = 0 /\ LineFeeds(buffer') = {} /\ Held(buffer') = 0
    BY <1>6, HeldOfNothing
  <2>4. FollowTyped'
    BY <1>1, <1>2, <1>3, <1>6, <2>2, <2>3 DEF FollowTyped, Places, EndedStays
  <2>5. Standing'
    <3>1. Aligned(history)'
      BY <2>2 DEF Aligned
    <3> QED
      BY <1>3, <1>4, <1>6, <2>2, <3>1 DEF Standing, EndedStays
  <2>6. Draining'
    BY <1>3, <1>6 DEF Draining, EndedStays
  <2>7. Holding'
    BY <1>6, <2>3, FollowAssumption DEF Holding
  <2> QED
    BY <1>3, <2>4, <2>5, <2>6, <2>7 DEF TailInv
<1>7. ASSUME UNCHANGED <<offset, buffer, history>>, cursor' \in Nat,
             pc' = "cycle" \/ (pc' = "read" /\ cursor' = offset)
      PROVE  TailInv'
  <2>1. FollowTyped'
    BY <1>1, <1>2, <1>3, <1>7 DEF FollowTyped, Places
  <2>2. Standing'
    <3>1. Aligned(history)'
      BY <1>3, <1>4, <1>7, SameAligned
    <3> QED
      BY <1>2, <1>3, <1>4, <1>7, <3>1 DEF Standing, EndedStays
  <2>3. Draining'
    BY <1>3, <1>7 DEF Draining, EndedStays
  <2>4. Holding'
    BY <1>1, <1>5, <1>7 DEF Holding
  <2> QED
    BY <1>3, <2>1, <2>2, <2>3, <2>4 DEF TailInv
<1>8. cursor \in Nat /\ offset \in Nat
  BY <1>1 DEF FollowTyped
<1> QED
  BY <1>6, <1>7, <1>8 DEF Size

\* One read of the followed file.
LEMMA ReadKeeps ==
  ASSUME TailInv, Read
  PROVE  TailInv'
<1>1. FollowTyped /\ Apart /\ Standing /\ Draining /\ Holding
  BY DEF TailInv
<1>2. PICK u : u = NextRead
  OBVIOUS
<1>3. /\ pc = "read" /\ Take(u) /\ UNCHANGED <<environment, fd, bases, ended>>
      /\ \/ offset' = cursor' /\ pc' = "cycle"
         \/ ~(Held(buffer') > HeldCap) /\ UNCHANGED <<offset, pc>>
  BY <1>2 DEF Read
<1>4. Apart' /\ BytesStay /\ UNCHANGED <<mode, files, path, writer, pending, written>> /\ EndedStays
  BY <1>1, <1>3, FilesStay, EndedKept
<1>5. IsRead(u, Content(fd), cursor)
  BY <1>1, <1>2, NextReadIs
<1>6. u \in Seq(Bytes) /\ Len(u) \in Nat /\ Len(u) <= Chunk
  BY <1>5 DEF IsRead
<1>7. Took(u)
  BY <1>1, <1>3, <1>6, TakeIs
<1>8. mode = "file" /\ ~history.stale /\ Aligned(history) /\ cursor = Len(history.seen) /\ Held(buffer) <= HeldCap
  BY <1>1, <1>3 DEF Standing, Holding
<1>9. pc' \in {"read", "cycle"}
  BY <1>3
<1>10. FollowTyped'
  BY <1>1, <1>3, <1>4, <1>7, <1>9 DEF FollowTyped, Places, Took, EndedStays
<1>11. Standing'
  <2>1. Aligned(history)'
    BY <1>1, <1>4, <1>5, <1>7, <1>8, TakeAligned
  <2>2. cursor' = Len(history'.seen) /\ ~history'.stale
    BY <1>7, <1>8 DEF Took
  <2> QED
    BY <1>3, <1>4, <1>8, <1>9, <2>1, <2>2 DEF Standing, EndedStays
<1>12. Draining'
  BY <1>4, <1>9 DEF Draining, EndedStays
<1>13. Holding'
  <2>1. PICK h, k : h = Held(buffer) /\ k = Held(buffer')
    OBVIOUS
  <2>2. h \in Nat /\ k \in Nat
    <3>1. buffer \in Seq(Bytes) /\ buffer' = buffer \o u
      BY <1>1, <1>3 DEF FollowTyped, Take
    <3> QED
      BY <1>6, <2>1, <3>1, HeldOfJoin
  <2>3. h <= HeldCap /\ k <= h + Len(u) /\ HeldCap \in Nat /\ Chunk \in Nat
    BY <1>7, <1>8, <2>1, FollowAssumption DEF Took
  <2>4. k <= HeldCap + Chunk
    BY <1>6, <2>2, <2>3
  <2>5. pc' = "read" => k <= HeldCap
    BY <1>3, <2>1, <2>2, <2>3
  <2> QED
    BY <1>9, <2>1, <2>4, <2>5 DEF Holding
<1> QED
  BY <1>4, <1>10, <1>11, <1>12, <1>13 DEF TailInv

\* One read of a pipe.
LEMMA ReadPipeKeeps ==
  ASSUME TailInv, ReadPipe
  PROVE  TailInv'
<1>1. FollowTyped /\ Apart /\ Standing /\ Draining /\ Holding
  BY DEF TailInv
<1>2. pc = "poll" /\ mode # "file" /\ UNCHANGED <<environment, fd, offset, bases, ended>>
  BY DEF ReadPipe
<1>3. Apart' /\ BytesStay /\ UNCHANGED <<mode, files, path, writer, pending, written>> /\ EndedStays
  BY <1>1, <1>2, FilesStay, EndedKept
<1>4. ~history.stale /\ Aligned(history) /\ cursor = Len(history.seen) /\ Held(buffer) <= HeldCap
  BY <1>1, <1>2, HeldAtRest DEF Standing
<1>5. CASE \E n \in 1..Len(NextRead) : Take(SubSeq(NextRead, 1, n)) /\ pc' = "cycle"
  <2>1. PICK w : w = NextRead
    OBVIOUS
  <2>2. PICK n \in 1..Len(w) : Take(SubSeq(w, 1, n)) /\ pc' = "cycle"
    BY <1>5, <2>1
  <2>3. PICK u : u = SubSeq(w, 1, n)
    OBVIOUS
  <2>4. PICK t : t = Content(fd)
    OBVIOUS
  <2>5. IsRead(w, t, cursor) /\ cursor \in Nat
    BY <1>1, <2>1, <2>4, NextReadIs DEF FollowTyped
  <2>6. IsRead(u, t, cursor)
    BY <2>2, <2>3, <2>5, PartOfRead
  <2>7. u \in Seq(Bytes) /\ Len(u) \in Nat /\ Len(u) <= Chunk
    BY <2>6 DEF IsRead
  <2>8. Take(u)
    BY <2>2, <2>3
  <2>9. Took(u)
    BY <1>1, <2>7, <2>8, TakeIs
  <2>10. FollowTyped'
    BY <1>1, <1>2, <1>3, <2>2, <2>9 DEF FollowTyped, Places, Took, EndedStays
  <2>11. Standing'
    <3>1. Aligned(history)'
      BY <1>1, <1>3, <1>4, <2>4, <2>6, <2>9, TakeAligned
    <3>2. cursor' = Len(history'.seen) /\ ~history'.stale
      BY <1>4, <2>9 DEF Took
    <3> QED
      BY <1>2, <1>3, <2>2, <3>1, <3>2 DEF Standing, EndedStays
  <2>12. Draining'
    BY <1>3, <2>2 DEF Draining, EndedStays
  <2>13. Holding'
    <3>1. PICK h, k : h = Held(buffer) /\ k = Held(buffer')
      OBVIOUS
    <3>2. h \in Nat /\ k \in Nat
      <4>1. buffer \in Seq(Bytes) /\ buffer' = buffer \o u
        BY <1>1, <2>8 DEF FollowTyped, Take
      <4> QED
        BY <2>7, <3>1, <4>1, HeldOfJoin
    <3>3. h <= HeldCap /\ k <= h + Len(u) /\ HeldCap \in Nat /\ Chunk \in Nat
      BY <1>4, <2>9, <3>1, FollowAssumption DEF Took
    <3>4. k <= HeldCap + Chunk
      BY <2>7, <3>2, <3>3
    <3> QED
      BY <2>2, <3>1, <3>4 DEF Holding
  <2> QED
    BY <1>3, <2>10, <2>11, <2>12, <2>13 DEF TailInv
<1>6. CASE pc' = "eof" /\ UNCHANGED <<cursor, buffer, history>>
  <2>1. FollowTyped'
    BY <1>1, <1>2, <1>3, <1>6 DEF FollowTyped, Places
  <2>2. Standing'
    <3>1. Aligned(history)'
      BY <1>3, <1>4, <1>6, SameAligned
    <3> QED
      BY <1>2, <1>3, <1>4, <1>6, <3>1 DEF Standing, EndedStays
  <2>3. Draining'
    BY <1>3, <1>6 DEF Draining, EndedStays
  <2>4. Holding'
    BY <1>1, <1>6 DEF Holding
  <2> QED
    BY <1>3, <2>1, <2>2, <2>3, <2>4 DEF TailInv
<1> QED
  BY <1>5, <1>6 DEF ReadPipe

\* A drive changes nothing of what was read, nor where the loop stands.
LEMMA DriveStays ==
  ASSUME TailInv, UNCHANGED <<environment, fd, cursor, offset, ended>>, SameStream(history', history),
         buffer' \in Seq(Bytes), pc \in {"cycle", "eof"},
         pc' \in {"poll", "failed", "reported", "served"}, pc' = "poll" => pc = "cycle"
  PROVE  FollowTyped' /\ Apart' /\ Standing' /\ Draining'
<1>1. FollowTyped /\ Apart /\ Standing /\ Draining /\ Holding
  BY DEF TailInv
<1>2. Apart' /\ BytesStay /\ UNCHANGED <<mode, files, path, writer, pending, written>> /\ EndedStays
  BY <1>1, FilesStay, EndedKept
<1>3. IsRun(history') /\ history'.seen = history.seen /\ history'.stale = history.stale
  BY DEF SameStream
<1>4. FollowTyped'
  BY <1>1, <1>2, <1>3 DEF FollowTyped, Places, EndedStays
<1>5. Standing'
  <2>1. ~history'.stale => Aligned(history)'
    BY <1>1, <1>2, <1>3, SameAligned DEF Standing
  <2>2. mode # "file" => cursor = Len(history.seen)
    BY <1>1 DEF Standing
  <2>3. pc = "cycle" => ~history.stale /\ (mode = "file" => offset = Len(history.seen))
    BY <1>1 DEF Standing
  <2> QED
    BY <1>2, <1>3, <2>1, <2>2, <2>3 DEF Standing, EndedStays
<1>6. Draining'
  BY <1>2 DEF Draining, EndedStays
<1> QED
  BY <1>2, <1>4, <1>5, <1>6

\* A cycle keeps what follows its last record.
LEMMA CycleKeeps ==
  ASSUME TailInv, Cycle
  PROVE  TailInv'
<1>1. IsRun(history) /\ buffer \in Seq(Bytes)
  BY DEF TailInv, FollowTyped
<1>2. PICK u : u = SubSeq(buffer, CompleteSpan(buffer) + 1, Len(buffer))
  OBVIOUS
<1>3. /\ pc = "cycle" /\ Held(buffer) <= HeldCap /\ DrivePrefix(u) /\ pc' = "poll"
      /\ UNCHANGED <<environment, fd, cursor, offset, ended>>
  BY <1>2 DEF Cycle
<1>4. SameStream(history', history) /\ buffer' = u
  BY <1>1, <1>3, DrivePrefixSame
<1>5. u \in Seq(Bytes) /\ Len(u) = Held(buffer) /\ LineFeeds(u) = {} /\ Held(u) = Held(buffer)
  BY <1>1, <1>2, HeldOfRest
<1>6. FollowTyped' /\ Apart' /\ Standing' /\ Draining'
  BY <1>3, <1>4, <1>5, DriveStays
<1>7. Holding'
  <2>1. Held(buffer) <= HeldCap + Chunk
    BY DEF TailInv, Holding
  <2> QED
    BY <1>3, <1>4, <1>5, <2>1 DEF Holding
<1> QED
  BY <1>6, <1>7 DEF TailInv

\* A refused held record is dropped.
LEMMA RefuseHeldKeeps ==
  ASSUME TailInv, RefuseHeld
  PROVE  TailInv'
<1>1. IsRun(history)
  BY DEF TailInv, FollowTyped
<1>2. PICK u : u = <<>>
  OBVIOUS
<1>3. /\ pc = "cycle" /\ DrivePrefix(u) /\ pc' = "poll"
      /\ UNCHANGED <<environment, fd, cursor, offset, ended>>
  BY <1>2 DEF RefuseHeld
<1>4. SameStream(history', history) /\ buffer' = u
  BY <1>1, <1>3, DrivePrefixSame
<1>5. u \in Seq(Bytes) /\ Len(u) = 0 /\ LineFeeds(u) = {} /\ Held(u) = 0
  BY <1>2, HeldOfNothing
<1>6. FollowTyped' /\ Apart' /\ Standing' /\ Draining'
  BY <1>3, <1>4, <1>5, DriveStays
<1>7. Holding'
  BY <1>3, <1>4, <1>5, FollowAssumption DEF Holding
<1> QED
  BY <1>6, <1>7 DEF TailInv

\* Where the loop ends, nothing is asked of what it still holds.
LEMMA EndKeeps ==
  ASSUME TailInv, UNCHANGED <<environment, fd, cursor, offset, buffer, ended>>,
         SameStream(history', history), pc \in {"cycle", "eof"}, pc' \in {"failed", "reported", "served"}
  PROVE  TailInv'
<1>1. buffer' \in Seq(Bytes)
  BY DEF TailInv, FollowTyped
<1>2. FollowTyped' /\ Apart' /\ Standing' /\ Draining'
  BY <1>1, DriveStays
<1>3. Holding'
  BY DEF TailInv, Holding
<1> QED
  BY <1>2, <1>3 DEF TailInv

\* A piped stdin that is refused.
LEMMA StdinRefusedKeeps ==
  ASSUME TailInv, StdinRefused
  PROVE  TailInv'
<1>1. IsRun(history)
  BY DEF TailInv, FollowTyped
<1>2. /\ pc = "cycle" /\ pc' = "failed"
      /\ UNCHANGED <<environment, fd, cursor, offset, buffer, bases, ended>>
  BY DEF StdinRefused
<1>3. history' = history \/ \E d : history' = ShownBy(d)
  BY DEF StdinRefused
<1>4. SameStream(history', history)
  BY <1>1, <1>3, ShownIs, RunTyped
<1> QED
  BY <1>2, <1>4, EndKeeps

\* The end of a pipe.
LEMMA EofKeeps ==
  ASSUME TailInv, Eof
  PROVE  TailInv'
<1>1. IsRun(history)
  BY DEF TailInv, FollowTyped
<1>2. /\ pc = "eof" /\ UNCHANGED <<environment, fd, cursor, offset, buffer, bases, ended>>
      /\ pc' \in {"failed", "reported", "served"}
  BY DEF Eof
<1>3. \E d : history' = ShownBy(d)
  BY DEF Eof
<1>4. SameStream(history', history)
  BY <1>1, <1>3, ShownIs
<1> QED
  BY <1>2, <1>4, EndKeeps

\* The old stream ends, and the new one has nothing yet.
LEMMA RotatedKeeps ==
  ASSUME TailInv, Rotated
  PROVE  TailInv'
<1>1. FollowTyped /\ Apart /\ Standing /\ Draining /\ Holding
  BY DEF TailInv
<1>2. /\ pc = "rotated" /\ history' = NewRun /\ buffer' = <<>> /\ pc' = "poll"
      /\ UNCHANGED <<environment, fd, cursor, offset>>
      /\ \E d : ended' = ShownBy(d)
  BY DEF Rotated
<1>3. Apart' /\ BytesStay /\ UNCHANGED <<mode, files, path, writer, pending, written>>
  BY <1>1, <1>2, FilesStay
<1>4. /\ mode = "file" /\ offset = 0
      /\ ~history.stale => Aligned(history) /\ StartOf(history.due, history.seen)
  BY <1>1, <1>2 DEF Standing, Draining
<1>5. SameStream(ended', history)
  BY <1>1, <1>2, ShownIs DEF FollowTyped
<1>6. EndedStays
  <2>1. PICK r, q : r = history /\ q = ended'
    OBVIOUS
  <2>2. IsRun(q) /\ q.seen = r.seen /\ q.stale = r.stale /\ q.due = r.due
    BY <1>5, <2>1 DEF SameStream
  <2>3. ASSUME ~q.stale PROVE Aligned(ended)' /\ StartOf(q.due, q.seen)
    <3>1. Aligned(r) /\ StartOf(r.due, r.seen)
      BY <1>4, <2>1, <2>2, <2>3
    <3>2. \A k \in 1..Len(r.seen) : \E i, m : IsAt(r.seen[k], i, m, k)'
      BY <1>3, <3>1, AlignedStays
    <3>3. \A k \in 1..Len(q.seen) : \E i, m : IsAt(q.seen[k], i, m, k)'
      BY <2>2, <3>2
    <3> QED
      BY <2>1, <2>2, <3>1, <3>3 DEF Aligned
  <2> QED
    BY <2>1, <2>2, <2>3 DEF EndedStays
<1>7. PICK e : e = <<>>
  OBVIOUS
<1>8. IsRun(history') /\ history'.seen = e /\ ~history'.stale /\ Len(e) = 0
  BY <1>2, <1>7, NewRunIs, HeldOfNothing
<1>9. buffer' \in Seq(Bytes) /\ Len(buffer') = 0 /\ LineFeeds(buffer') = {} /\ Held(buffer') = 0
  BY <1>2, HeldOfNothing
<1>10. FollowTyped'
  BY <1>1, <1>2, <1>3, <1>6, <1>8, <1>9 DEF FollowTyped, Places, EndedStays
<1>11. Standing'
  <2>1. Aligned(history)'
    BY <1>8 DEF Aligned
  <2> QED
    BY <1>2, <1>3, <1>4, <1>6, <1>8, <2>1 DEF Standing, EndedStays
<1>12. Draining'
  BY <1>2, <1>6 DEF Draining, EndedStays
<1>13. Holding'
  BY <1>2, <1>9, FollowAssumption DEF Holding
<1> QED
  BY <1>3, <1>10, <1>11, <1>12, <1>13 DEF TailInv

-----------------------------------------------------------------------------
(* The theorems.                                                           *)

\* It holds at the start, with every file empty.
LEMMA TailInvAtFirst == FollowInit => TailInv
<1> SUFFICES ASSUME FollowInit PROVE TailInv
  OBVIOUS
<1>1. PICK e, f : e = <<>> /\ f = << <<>> >>
  OBVIOUS
<1>2. /\ e \in Seq(Bytes) /\ Len(e) = 0 /\ LineFeeds(e) = {} /\ Held(e) = 0
      /\ f \in Seq(Seq(Bytes)) /\ Len(f) = 1 /\ f[1] = e
  <2>1. <<>> \in Seq(Bytes) /\ Len(<<>>) = 0 /\ LineFeeds(<<>>) = {} /\ Held(<<>>) = 0
    BY HeldOfNothing
  <2> QED
    BY <1>1, <2>1
<1>3. /\ mode \in Modes /\ files = [i \in Inodes |-> f] /\ path \in Inodes /\ writer = path /\ fd = path
      /\ pending = e /\ written = 0 /\ cursor = 0 /\ offset = 0 /\ pc = "poll" /\ buffer = e
      /\ history = NewRun /\ ended = NIL
  BY <1>1, FollowAssumption DEF FollowInit
<1>4. IsRun(history) /\ history.seen = e /\ ~history.stale
  BY <1>1, <1>3, NewRunIs
<1>5. FollowTyped
  <2>1. files \in [Inodes -> Seq(Seq(Bytes))] /\ \A i \in Inodes : Len(files[i]) > 0
    BY <1>2, <1>3
  <2>2. pending \in Seq(Kinds)
    BY <1>1, <1>3
  <2> QED
    BY <1>2, <1>3, <1>4, <2>1, <2>2 DEF FollowTyped, Places
<1>6. \A b, i, m, k : ~IsAt(b, i, m, k)
  <2> SUFFICES ASSUME NEW b, NEW i, NEW m, NEW k, IsAt(b, i, m, k) PROVE FALSE
    OBVIOUS
  <2>1. m \in 1..1 /\ k \in 1..Len(f[m])
    BY <1>2, <1>3 DEF IsAt
  <2>2. m = 1
    BY <2>1
  <2>3. k \in 1..0
    BY <1>2, <2>1, <2>2
  <2> QED
    BY <2>3
<1>7. Apart
  BY <1>6 DEF Apart
<1>8. Standing
  <2>1. Aligned(history)
    BY <1>2, <1>4 DEF Aligned
  <2> QED
    BY <1>2, <1>3, <1>4, <2>1 DEF Standing
<1>9. Draining
  BY <1>3 DEF Draining
<1>10. Holding
  BY <1>2, <1>3, FollowAssumption DEF Holding
<1> QED
  BY <1>5, <1>7, <1>8, <1>9, <1>10 DEF TailInv

\* Every step of the writer, of the rotation and of the loop keeps it.
LEMMA TailInvKept == TailInv /\ [FollowNext]_followVars => TailInv'
<1> SUFFICES ASSUME TailInv, [FollowNext]_followVars PROVE TailInv'
  OBVIOUS
<1>1. CASE World
  BY <1>1, WorldKeeps
<1>2. CASE Follow
  <2>1. CASE PollPath
    BY <2>1, PollKeeps
  <2>2. CASE Drain
    BY <2>2, DrainKeeps
  <2>3. CASE ReopenPath
    BY <2>3, ReopenKeeps
  <2>4. CASE Size
    BY <2>4, SizeKeeps
  <2>5. CASE Read
    BY <2>5, ReadKeeps
  <2>6. CASE ReadPipe
    BY <2>6, ReadPipeKeeps
  <2>7. CASE Cycle
    BY <2>7, CycleKeeps
  <2>8. CASE RefuseHeld
    BY <2>8, RefuseHeldKeeps
  <2>9. CASE StdinRefused
    BY <2>9, StdinRefusedKeeps
  <2>10. CASE Rotated
    BY <2>10, RotatedKeeps
  <2>11. CASE Eof
    BY <2>11, EofKeeps
  <2> QED
    BY <1>2, <2>1, <2>2, <2>3, <2>4, <2>5, <2>6, <2>7, <2>8, <2>9, <2>10, <2>11 DEF Follow
<1>3. CASE UNCHANGED followVars
  <2>1. UNCHANGED <<mode, files, path, writer, pending, written, fd, cursor, offset, pc,
                    buffer, history, ended>>
    BY <1>3 DEF followVars, environment
  <2>2. \A b, i, m, k : IsAt(b, i, m, k)' <=> IsAt(b, i, m, k)
    BY <2>1 DEF IsAt
  <2>3. FollowTyped' /\ Apart' /\ Holding'
    BY <2>1, <2>2 DEF TailInv, FollowTyped, Apart, Holding
  <2>4. Standing'
    <3>1. (Aligned(history)' <=> Aligned(history)) /\ (Aligned(ended)' <=> Aligned(ended))
      BY <2>1, <2>2 DEF Aligned
    <3> QED
      BY <2>1, <3>1 DEF TailInv, Standing
  <2>5. Draining'
    <3>1. Content(fd)' = Content(fd)
      BY <2>1 DEF Content
    <3> QED
      BY <2>1, <3>1 DEF TailInv, Draining
  <2> QED
    BY <2>3, <2>4, <2>5 DEF TailInv
<1> QED
  BY <1>1, <1>2, <1>3 DEF FollowNext

\* The live routes keep their invariant.
THEOREM TailInvHolds == FollowSpec => []TailInv
<1> QED
  BY TailInvAtFirst, TailInvKept, PTL DEF FollowSpec

\* The memory of a live route: never more is held than the cap and one read, and
\* no whole record outlives its cycle, for every cap and every chunk.
THEOREM MemoryIsBounded == FollowSpec => []HeldIsBounded
<1>1. TailInv => HeldIsBounded
  BY DEF TailInv, Holding, HeldIsBounded
<1> QED
  BY <1>1, TailInvHolds, PTL

\* What agrees with t from the beginning is a prefix of it.
LEMMA FrontIsPrefix ==
  ASSUME NEW s \in Seq(Bytes), NEW t \in Seq(Bytes), StartOf(s, t)
  PROVE  IsPrefix(s, t)
<1>1. PICK n : n = Len(s)
  OBVIOUS
<1>2. n \in Nat /\ Len(t) \in Nat /\ n <= Len(t) /\ n = Len(s) /\ \A k \in 1..n : s[k] = t[k]
  BY <1>1 DEF StartOf
<1>3. n \in 0..Len(s) /\ n \in 0..Len(t) /\ 0 \in Nat
  BY <1>2
<1>4. PICK v : v = SubSeq(s, 0 + 1, n)
  OBVIOUS
<1>5. PICK w : w = SubSeq(t, 0 + 1, n)
  OBVIOUS
<1>6. /\ v \in Seq(Bytes) /\ Len(v) = IF 0 <= n THEN n - 0 ELSE 0
      /\ \A k \in 1..Len(v) : 0 + k <= n /\ v[k] = s[0 + k]
  BY <1>3, <1>4, PartIs
<1>7. /\ w \in Seq(Bytes) /\ Len(w) = IF 0 <= n THEN n - 0 ELSE 0
      /\ \A k \in 1..Len(w) : 0 + k <= n /\ w[k] = t[0 + k]
  BY <1>3, <1>5, PartIs
<1>8. Len(v) = n /\ Len(w) = n
  BY <1>2, <1>6, <1>7
<1>9. \A k \in 1..n : v[k] = w[k]
  <2> SUFFICES ASSUME NEW k \in 1..n PROVE v[k] = w[k]
    OBVIOUS
  <2>1. 0 + k = k
    BY <1>2
  <2> QED
    BY <1>2, <1>6, <1>7, <1>8, <2>1
<1>10. v = w
  BY <1>6, <1>7, <1>8, <1>9, SeqEqual
<1> QED
  BY <1>2, <1>4, <1>5, <1>10 DEF IsPrefix

\* Bytes that were read in their places, and that are all of one contents, begin it.
LEMMA AlignedIsFile ==
  ASSUME TailInv, NEW r, IsRun(r), Aligned(r), OneGeneration(r.seen)
  PROVE  \E g \in Generations : IsPrefix(r.seen, g)
<1>1. PICK s : s = r.seen
  OBVIOUS
<1>2. s \in Seq(Bytes) /\ Len(s) \in Nat /\ DOMAIN s = 1..Len(s)
  BY <1>1, RunTyped
<1>3. PICK g \in Generations : Range(s) \subseteq Range(g)
  BY <1>1 DEF OneGeneration
<1>4. PICK i \in Inodes : g \in Range(files[i])
  BY DEF Generations
<1>5. PICK m \in DOMAIN files[i] : g = files[i][m]
  BY <1>4 DEF Range
<1>6. m \in 1..Len(files[i]) /\ g \in Seq(Bytes) /\ Len(g) \in Nat /\ DOMAIN g = 1..Len(g)
  <2>1. files[i] \in Seq(Seq(Bytes))
    BY DEF TailInv, FollowTyped
  <2> QED
    BY <1>5, <2>1
<1>7. ASSUME NEW k \in 1..Len(s) PROVE k \in 1..Len(g) /\ s[k] = g[k]
  <2>1. PICK j, q : IsAt(s[k], j, q, k)
    BY <1>1 DEF Aligned
  <2>2. s[k] \in Range(g)
    BY <1>2, <1>3 DEF Range
  <2>3. PICK l \in 1..Len(g) : s[k] = g[l]
    BY <1>6, <2>2 DEF Range
  <2>4. IsAt(s[k], i, m, l)
    BY <1>5, <1>6, <2>3 DEF IsAt
  <2>5. l = k
    BY <2>1, <2>4 DEF TailInv, Apart
  <2> QED
    BY <2>3, <2>5
<1>8. StartOf(s, g)
  <2>1. CASE Len(s) = 0
    BY <1>2, <1>6, <2>1 DEF StartOf
  <2>2. CASE Len(s) # 0
    <3>1. Len(s) \in 1..Len(s)
      BY <1>2, <2>2
    <3>2. Len(s) <= Len(g)
      BY <1>2, <1>6, <1>7, <3>1
    <3> QED
      BY <1>7, <3>2 DEF StartOf
  <2> QED
    BY <2>1, <2>2
<1> QED
  BY <1>1, <1>2, <1>3, <1>6, <1>8, FrontIsPrefix

\* Through truncations that the loop notices and through rotations, what a stream
\* read is one contents of one file from its first byte: nothing skipped,
\* repeated, or of another file.
THEOREM NothingIsSkipped == FollowSpec => []SeenIsFile
<1>1. TailInv => SeenIsFile
  <2> SUFFICES ASSUME TailInv, NEW r \in {history} \cup (IF ended = NIL THEN {} ELSE {ended}),
                      OneGeneration(r.seen), ~r.stale
               PROVE  \E g \in Generations : IsPrefix(r.seen, g)
    BY DEF SeenIsFile
  <2>1. IsRun(r) /\ Aligned(r)
    BY DEF TailInv, FollowTyped, Standing
  <2> QED
    BY <2>1, AlignedIsFile
<1> QED
  BY <1>1, TailInvHolds, PTL

\* A rotation loses nothing of the old file: what was in it when the loop found it
\* renamed was read before the loop left it, unless a held record passed the cap.
THEOREM RotationLosesNothing == FollowSpec => []DrainIsWhole
<1>1. TailInv => DrainIsWhole
  <2> SUFFICES ASSUME TailInv, ended # NIL, ~ended.stale PROVE IsPrefix(ended.due, ended.seen)
    BY DEF DrainIsWhole
  <2>1. IsRun(ended) /\ StartOf(ended.due, ended.seen)
    BY DEF TailInv, FollowTyped, Draining
  <2>2. ended.due \in Seq(Bytes) /\ ended.seen \in Seq(Bytes)
    BY <2>1, RunTyped
  <2> QED
    BY <2>1, <2>2, FrontIsPrefix
<1> QED
  BY <1>1, TailInvHolds, PTL

-----------------------------------------------------------------------------
(* What one drive over the first bytes of a stream shows.                  *)

\* Under the recovering profile no fault stops a drive.
LEMMA NeverStops ==
  ASSUME NEW bytes \in Seq(Bytes), NEW cap \in Nat, Ample(bytes, cap), NEW run, run = Drive("recovering", bytes, cap)
  PROVE  run \in Runs /\ run.stop = "none"
<1>1. PICK p, f : p = "recovering" /\ f = After(p, bytes, cap)
  OBVIOUS
<1>2. p \in Kept
  BY <1>1 DEF Kept
<1>3. IsDrive(p, bytes, cap, f) /\ run = f[Len(bytes)]
  BY <1>1, <1>2, DriveIsDrive
<1>4. Len(bytes) \in Nat
  OBVIOUS
<1> DEFINE Goes(u) == u.profile = "recovering" /\ u.stop # "fault"
           P == {j \in 0..Len(bytes) : Goes(f[j])}
<1>5. 0 \in P
  <2>1. PICK u : u = Started(p, bytes)
    OBVIOUS
  <2>2. /\ u.profile = p
        /\ ~StartsWithMark(bytes) => u.stop = "none"
        /\ StartsWithMark(bytes) /\ p = "recovering" => u.stop = "none"
    BY <1>2, <2>1, StartedIs
  <2>3. Goes(u)
    BY <1>1, <2>2
  <2>4. f[0] = u /\ 0 \in 0..Len(bytes)
    BY <1>3, <1>4, <2>1 DEF IsDrive
  <2> QED
    BY <2>3, <2>4
<1>6. ASSUME NEW j \in 1..Len(bytes), j - 1 \in P PROVE j \in P
  <2>1. f[j] = Advance(bytes, f[j - 1], j, cap) /\ f[j - 1] \in Capped(cap) /\ j \in 0..Len(bytes)
    BY <1>3, <1>4, <1>6 DEF IsDrive
  <2>2. PICK u, v : u = f[j - 1] /\ v = f[j]
    OBVIOUS
  <2>3. Goes(u) /\ u \in Capped(cap) /\ v = Advance(bytes, u, j, cap)
    BY <1>6, <2>1, <2>2
  <2>4. CASE IsEnd(bytes, j) /\ u.stop = "none"
    <3>1. v.profile = u.profile /\ StepsOn(u, Framed(bytes, u, j), cap, v)
      BY <2>3, <2>4, AdvanceAdds
    <3>2. v.stop # "sink" => v.stop = Outcome(u.profile, Framed(bytes, u, j))
      BY <3>1 DEF StepsOn
    <3>3. Outcome(u.profile, Framed(bytes, u, j)) = "none"
      BY <2>3 DEF Outcome
    <3> QED
      BY <2>1, <2>2, <2>3, <3>1, <3>2, <3>3
  <2>5. CASE ~(IsEnd(bytes, j) /\ u.stop = "none")
    <3>1. v = u
      BY <2>3, <2>5 DEF Advance
    <3> QED
      BY <2>1, <2>2, <2>3, <3>1
  <2> QED
    BY <2>4, <2>5
<1>7. P = 0..Len(bytes)
  <2>1. P \in SUBSET (0..Len(bytes))
    OBVIOUS
  <2> HIDE DEF P
  <2> QED
    BY <1>4, <1>5, <1>6, <2>1, EachStage
<1>8. Len(bytes) \in 0..Len(bytes)
  BY <1>4
<1>9. f[Len(bytes)].stop # "fault" /\ f[Len(bytes)] \in Runs
  <2>1. Goes(f[Len(bytes)])
    BY <1>7, <1>8
  <2>2. f[Len(bytes)] \in Capped(cap)
    BY <1>3, <1>8 DEF IsDrive
  <2> QED
    BY <2>1, <2>2 DEF Capped
<1>10. f[Len(bytes)].stop # "sink"
  BY <1>2, <1>3, <1>8, DriveWithin DEF Within
<1> QED
  BY <1>3, <1>9, <1>10 DEF Runs

\* Nothing is told of the beginning otherwise than by itself.
LEMMA ToldAtFirst ==
  ASSUME NEW s \in Seq(Reports)
  PROVE  Told(s, 0, 0) = s
<1>1. PICK u : u = Told(s, 0, 0)
  OBVIOUS
<1>2. u \in Seq(Reports) /\ Len(u) = Len(s) /\ \A i \in 1..Len(s) : u[i] = RebasedBy(s[i], 0, 0)
  BY <1>1, ToldTyped
<1>3. ASSUME NEW r \in Reports PROVE RebasedBy(r, 0, 0) = r
  <2>1. r.ordinal + 0 = r.ordinal /\ r.offset + 0 = r.offset
    BY DEF Reports
  <2>2. [r EXCEPT !.ordinal = @ + 0, !.offset = @ + 0] = r
    BY <2>1 DEF Reports
  <2> QED
    BY <2>2 DEF RebasedBy
<1>4. \A i \in 1..Len(s) : u[i] = s[i]
  <2> SUFFICES ASSUME NEW i \in 1..Len(s) PROVE u[i] = s[i]
    OBVIOUS
  <2>1. s[i] \in Reports
    OBVIOUS
  <2> QED
    BY <1>2, <1>3, <2>1
<1> QED
  BY <1>1, <1>2, <1>4, SeqEqual

\* A drive's cap, when it is ample.
LEMMA AmpleCap ==
  ASSUME NEW s \in Seq(Bytes)
  PROVE  ItemsPerValue * Len(s) \in Nat /\ Ample(s, ItemsPerValue * Len(s))
<1>1. Len(s) \in Nat /\ ItemsPerValue \in Nat
  BY DriveAssumption
<1>2. ItemsPerValue * Len(s) \in Nat
  BY <1>1, MultiplesGrow
<1> QED
  BY <1>2 DEF Ample

\* What a drive shows.
Yields(run, out, told) == run.out = out /\ run.reports = told /\ out \in Seq(Nat) /\ told \in Seq(Reports)

\* A drive over bytes by themselves shows items and reports.
LEMMA WholeRunTyped ==
  ASSUME NEW s \in Seq(Bytes), NEW run, run = WholeRun(s)
  PROVE  run \in Runs /\ run.stop = "none" /\ Yields(run, run.out, run.reports)
<1>1. PICK cap : cap = ItemsPerValue * Len(s)
  OBVIOUS
<1>2. cap \in Nat /\ Ample(s, cap) /\ run = Drive("recovering", s, cap)
  BY <1>1, AmpleCap DEF WholeRun
<1>3. run \in Runs /\ run.stop = "none"
  BY <1>2, NeverStops
<1> QED
  BY <1>3 DEF Runs, Yields

\* Over nothing it shows nothing.
LEMMA NothingShown ==
  ASSUME NEW s \in Seq(Bytes), Len(s) = 0
  PROVE  Yields(WholeRun(s), <<>>, <<>>)
<1>1. PICK run : run = WholeRun(s)
  OBVIOUS
<1>2. PICK q : q = SubSeq(s, 1, 0)
  OBVIOUS
<1>3. q = s
  BY <1>2, SubSeqFull
<1>4. Drive("recovering", q, ItemsPerValue * Len(s)) = run
  BY <1>1, <1>3 DEF WholeRun
<1>5. run = Whole("recovering", s, 0) /\ "recovering" \in Kept
  BY <1>2, <1>4 DEF Whole, AllItems, Kept
<1>6. run.out = <<>> /\ run.reports = <<>>
  BY <1>5, WholeOfNothing
<1>7. <<>> \in Seq(Nat) /\ <<>> \in Seq(Reports)
  OBVIOUS
<1> QED
  BY <1>1, <1>6, <1>7 DEF Yields

\* The cap that is ample for the stream shows what the one for its first bytes does.
LEMMA CapDoesNotShow ==
  ASSUME NEW t \in Seq(Bytes), MarkedOnce(t), NEW e \in 0..Len(t), NEW run, run = Whole("recovering", t, e)
  PROVE  Yields(WholeRun(SubSeq(t, 1, e)), run.out, run.reports)
<1>1. PICK u, r : u = SubSeq(t, 1, e) /\ r = WholeRun(u)
  OBVIOUS
<1>2. u \in Seq(Bytes) /\ Len(u) = e /\ e \in Nat
  <2>1. IsFront(u, t, e)
    BY <1>1, FirstBytes
  <2> QED
    BY <2>1 DEF IsFront
<1>3. Yields(r, r.out, r.reports) /\ r.stop = "none"
  BY <1>1, <1>2, WholeRunTyped
<1>4. CASE e = 0
  <2>1. run = Whole("recovering", t, 0) /\ "recovering" \in Kept
    BY <1>4 DEF Kept
  <2>2. run.out = <<>> /\ run.reports = <<>>
    BY <2>1, WholeOfNothing
  <2> QED
    BY <1>1, <1>2, <1>4, <2>2, NothingShown
<1>5. CASE e # 0
  <2>1. PICK p, cap, before, o, batch :
          /\ p = "recovering" /\ cap = ItemsPerValue * Len(u) /\ before = Whole(p, t, 0)
          /\ o = Cardinality(Ends(SubSeq(t, 1, 0))) /\ batch = SubSeq(t, 0 + 1, e)
    OBVIOUS
  <2>2. p \in Kept /\ cap \in Nat
    BY <1>2, <2>1, AmpleCap DEF Kept
  <2>3. before.out = <<>> /\ before.reports = <<>> /\ before.stop = "none" /\ o = 0
    BY <2>1, <2>2, WholeOfNothing
  <2>4. e \in 1..Len(t) /\ 0 \in 0..(e - 1)
    BY <1>2, <1>5
  <2>5. \A i \in 2..Len(t) : t[i].kind # "bom"
    BY DEF MarkedOnce
  <2>6. Alike(Whole(p, t, e), Drive(p, batch, cap), before.out, before.reports, 0, o)
    BY <2>1, <2>2, <2>3, <2>4, <2>5, BatchIsAlike
  <2>7. batch = u /\ Drive(p, batch, cap) = r
    <3>1. 0 + 1 = 1
      OBVIOUS
    <3>2. batch = u
      BY <1>1, <2>1, <3>1
    <3> QED
      BY <1>1, <2>1, <3>2 DEF WholeRun
  <2>8. Alike(run, r, <<>>, <<>>, 0, 0)
    BY <2>1, <2>3, <2>6, <2>7
  <2>9. run.out = <<>> \o r.out /\ run.reports = <<>> \o Told(r.reports, 0, 0)
    BY <1>3, <2>8 DEF Alike
  <2>10. r.out \in Seq(Nat) /\ r.reports \in Seq(Reports)
    BY <1>3 DEF Yields
  <2>11. Told(r.reports, 0, 0) = r.reports
    BY <2>10, ToldAtFirst
  <2>12. <<>> \o r.out = r.out /\ <<>> \o r.reports = r.reports
    BY <2>10, ConcatEmptySeq
  <2> QED
    BY <1>1, <2>9, <2>10, <2>11, <2>12 DEF Yields
<1> QED
  BY <1>4, <1>5

\* What a drive over the first b bytes shows, and then one over those up to the e-th.
ShowsBoth(t, b, e) ==
  LET front == WholeRun(SubSeq(t, 1, b))
      part  == WholeRun(SubSeq(t, b + 1, e))
  IN  Yields(WholeRun(SubSeq(t, 1, e)), front.out \o part.out, front.reports \o Told(part.reports, b, EndsIn(t, b)))

\* A stream cut behind a line feed shows what its parts show.
LEMMA PartsShowWhole ==
  ASSUME NEW t \in Seq(Bytes), MarkedOnce(t), NEW e \in 0..Len(t), NEW b \in 0..e,
         b = 0 \/ t[b].kind = "lf"
  PROVE  ShowsBoth(t, b, e)
<1>1. PICK p, before, w, batch, part, o :
        /\ p = "recovering" /\ before = Whole(p, t, b) /\ w = Whole(p, t, e)
        /\ batch = SubSeq(t, b + 1, e) /\ part = WholeRun(batch) /\ o = EndsIn(t, b)
  OBVIOUS
<1>2. PICK front, all : front = WholeRun(SubSeq(t, 1, b)) /\ all = WholeRun(SubSeq(t, 1, e))
  OBVIOUS
<1>3. b \in 0..Len(t) /\ b \in Nat /\ e \in b..Len(t) /\ e \in Nat
  OBVIOUS
<1>4. Yields(front, before.out, before.reports) /\ Yields(all, w.out, w.reports)
  BY <1>1, <1>2, <1>3, CapDoesNotShow
<1>5. /\ front.out = before.out /\ front.reports = before.reports
      /\ all.out = w.out /\ all.reports = w.reports
      /\ w.out \in Seq(Nat) /\ w.reports \in Seq(Reports)
      /\ before.out \in Seq(Nat) /\ before.reports \in Seq(Reports)
  BY <1>4 DEF Yields
<1>6. batch \in Seq(Bytes) /\ Len(batch) = e - b
  <2>1. Stretch(batch, t, b) /\ Len(batch) = e - b
    BY <1>1, <1>3, SubSeqStretch
  <2> QED
    BY <2>1 DEF Stretch
<1>7. CASE e = b
  <2>0. Len(batch) = 0
    BY <1>3, <1>6, <1>7
  <2>1. Yields(part, <<>>, <<>>)
    BY <1>1, <1>6, <2>0, NothingShown
  <2>2. part.out = <<>> /\ part.reports = <<>> /\ w = before
    BY <1>1, <1>7, <2>1 DEF Yields
  <2>3. Told(part.reports, b, o) = <<>>
    BY <2>2 DEF Told
  <2>4. w.out = front.out \o part.out
    BY <1>5, <2>2, ConcatEmptySeq
  <2>5. w.reports = front.reports \o Told(part.reports, b, o)
    BY <1>5, <2>2, <2>3, ConcatEmptySeq
  <2> QED
    BY <1>1, <1>2, <1>4, <2>4, <2>5 DEF ShowsBoth
<1>8. CASE e # b
  <2>1. e \in 1..Len(t) /\ b \in 0..(e - 1)
    BY <1>3, <1>8
  <2>2. PICK cap : cap = ItemsPerValue * Len(batch)
    OBVIOUS
  <2>3. cap \in Nat /\ part = Drive(p, batch, cap) /\ p \in Kept
    BY <1>1, <1>6, <2>2, AmpleCap DEF WholeRun, Kept
  <2>4. before.stop = "none"
    <3>1. PICK q, all1 : q = SubSeq(t, 1, b) /\ all1 = AllItems(t)
      OBVIOUS
    <3>2. IsFront(q, t, b)
      BY <1>3, <3>1, FirstBytes
    <3>3. q \in Seq(Bytes) /\ all1 \in Nat /\ Ample(q, all1) /\ before = Drive("recovering", q, all1)
      BY <1>1, <3>1, <3>2 DEF IsFront, Whole
    <3> QED
      BY <3>3, NeverStops
  <2>5. \A i \in 2..Len(t) : t[i].kind # "bom"
    BY DEF MarkedOnce
  <2>6. Alike(w, part, before.out, before.reports, b, o)
    <3>1. o = Cardinality(Ends(SubSeq(t, 1, b)))
      BY <1>1 DEF EndsIn
    <3>2. Alike(Whole(p, t, e), Drive(p, batch, cap), before.out, before.reports, b, o)
      BY <1>1, <2>1, <2>3, <2>4, <2>5, <3>1, BatchIsAlike
    <3> QED
      BY <1>1, <2>3, <3>2
  <2>7. part.stop = "none"
    BY <1>1, <1>6, WholeRunTyped
  <2>8. w.out = before.out \o part.out /\ w.reports = before.reports \o Told(part.reports, b, o)
    BY <2>6, <2>7 DEF Alike
  <2> QED
    BY <1>1, <1>2, <1>4, <1>5, <2>8 DEF ShowsBoth
<1> QED
  BY <1>7, <1>8

\* More bytes only add to what is shown.
LEMMA MoreIsShown ==
  ASSUME NEW t \in Seq(Bytes), MarkedOnce(t), NEW e \in 0..Len(t), NEW b \in 0..e,
         b = 0 \/ t[b].kind = "lf" \/ b = e,
         NEW less, less = WholeRun(SubSeq(t, 1, b)), NEW more, more = WholeRun(SubSeq(t, 1, e))
  PROVE  Begins(Nat, less.out, more.out) /\ Begins(Reports, less.reports, more.reports)
<1>1. PICK p, v, w : p = "recovering" /\ v = Whole(p, t, b) /\ w = Whole(p, t, e)
  OBVIOUS
<1>2. p \in Kept /\ b \in 0..Len(t)
  BY <1>1 DEF Kept
<1>3. Yields(less, v.out, v.reports) /\ Yields(more, w.out, w.reports)
  BY <1>1, <1>2, CapDoesNotShow
<1>4. Adds(v, w)
  BY <1>1, <1>2, WholeGrows
<1> QED
  BY <1>3, <1>4 DEF Yields, Adds

-----------------------------------------------------------------------------
(* Some of what a drive shows.                                             *)

\* A sequence is some of itself.
LEMMA AllIsSome ==
  ASSUME NEW X, NEW s \in Seq(X)
  PROVE  SubsequenceOf(s, s)
<1>1. PICK at : at = [i \in DOMAIN s |-> i]
  OBVIOUS
<1>2. at \in [DOMAIN s -> DOMAIN s]
  BY <1>1
<1>3. \A i, j \in DOMAIN s : i < j => at[i] < at[j]
  BY <1>1
<1>4. \A i \in DOMAIN s : s[i] = s[at[i]]
  BY <1>1
<1> QED
  BY <1>2, <1>3, <1>4 DEF SubsequenceOf

\* Some of it and all of what comes next is some of the whole.
LEMMA SomeAndNext ==
  ASSUME NEW X, NEW s \in Seq(X), NEW t \in Seq(X), NEW x \in Seq(X), SubsequenceOf(s, t),
         NEW r, Begins(X, t \o x, r)
  PROVE  SubsequenceOf(s \o x, r)
<1>1. PICK w \in Seq(X) : r = (t \o x) \o w
  BY DEF Begins
<1>2. PICK u, v : u = s \o x /\ v = t \o x
  OBVIOUS
<1>3. PICK a, b, c, d : a = Len(s) /\ b = Len(t) /\ c = Len(x) /\ d = Len(w)
  OBVIOUS
<1>4. a \in Nat /\ b \in Nat /\ c \in Nat /\ d \in Nat
  BY <1>3
<1>5. u \in Seq(X) /\ Len(u) = a + c /\ \A i \in 1..(a + c) : u[i] = IF i <= a THEN s[i] ELSE x[i - a]
  BY <1>2, <1>3, JoinIs
<1>6. v \in Seq(X) /\ Len(v) = b + c /\ \A i \in 1..(b + c) : v[i] = IF i <= b THEN t[i] ELSE x[i - b]
  BY <1>2, <1>3, JoinIs
<1>7. r \in Seq(X) /\ Len(r) = Len(v) + d /\ \A i \in 1..(Len(v) + d) : r[i] = IF i <= Len(v) THEN v[i] ELSE w[i - Len(v)]
  BY <1>1, <1>2, <1>3, <1>6, JoinIs
<1>8. DOMAIN s = 1..a /\ DOMAIN t = 1..b /\ DOMAIN u = 1..(a + c) /\ DOMAIN r = 1..(b + c + d)
  BY <1>3, <1>4, <1>5, <1>6, <1>7, LenProperties
<1>9. PICK at \in [1..a -> 1..b] : /\ \A i, j \in 1..a : i < j => at[i] < at[j]
                                   /\ \A i \in 1..a : s[i] = t[at[i]]
  BY <1>8 DEF SubsequenceOf
<1>10. PICK to : to = [i \in 1..(a + c) |-> IF i <= a THEN at[i] ELSE b + (i - a)]
  OBVIOUS
<1>11. \A i \in 1..(a + c) : /\ i <= a => i \in 1..a /\ to[i] = at[i] /\ at[i] \in 1..b
                             /\ ~(i <= a) => to[i] = b + (i - a) /\ i - a \in 1..c
  BY <1>4, <1>9, <1>10
<1>12. to \in [1..(a + c) -> 1..(b + c + d)]
  <2>1. \A i \in 1..(a + c) : to[i] \in 1..(b + c + d)
    BY <1>4, <1>11
  <2> QED
    BY <1>10, <2>1
<1>13. ASSUME NEW i \in 1..(a + c), NEW j \in 1..(a + c), i < j PROVE to[i] < to[j]
  <2>1. CASE j <= a
    <3>1. i \in 1..a /\ j \in 1..a
      BY <1>4, <1>13, <2>1
    <3>2. at[i] < at[j]
      BY <1>9, <1>13, <3>1
    <3> QED
      BY <1>4, <1>11, <2>1, <3>1, <3>2
  <2>2. CASE ~(j <= a) /\ i <= a
    <3>1. to[i] \in 1..b /\ to[j] = b + (j - a) /\ j - a \in 1..c
      BY <1>11, <2>2
    <3> QED
      BY <1>4, <3>1
  <2>3. CASE ~(j <= a) /\ ~(i <= a)
    <3>1. to[i] = b + (i - a) /\ to[j] = b + (j - a)
      BY <1>11, <2>3
    <3> QED
      BY <1>4, <1>13, <3>1
  <2> QED
    BY <2>1, <2>2, <2>3
<1>14. ASSUME NEW i \in 1..(a + c) PROVE u[i] = r[to[i]]
  <2>1. CASE i <= a
    <3>1. i \in 1..a /\ to[i] = at[i] /\ at[i] \in 1..b
      BY <1>11, <2>1
    <3>2. PICK k : k = to[i]
      OBVIOUS
    <3>3. k \in 1..b /\ k \in 1..(b + c) /\ k \in 1..(Len(v) + d) /\ k <= b /\ k <= Len(v)
      BY <1>4, <1>6, <3>1, <3>2
    <3>4. r[k] = v[k] /\ v[k] = t[k]
      BY <1>6, <1>7, <3>3
    <3>5. u[i] = s[i] /\ s[i] = t[at[i]]
      BY <1>5, <1>9, <2>1, <3>1
    <3> QED
      BY <3>1, <3>2, <3>4, <3>5
  <2>2. CASE ~(i <= a)
    <3>1. to[i] = b + (i - a) /\ i - a \in 1..c
      BY <1>11, <2>2
    <3>2. PICK k, m : k = to[i] /\ m = i - a
      OBVIOUS
    <3>3. m \in 1..c /\ k = b + m
      BY <3>1, <3>2
    <3>4. k \in 1..(b + c) /\ k \in 1..(Len(v) + d) /\ ~(k <= b) /\ k <= Len(v) /\ k - b = m
      BY <1>4, <1>6, <3>3
    <3>5. r[k] = v[k] /\ v[k] = x[m]
      BY <1>6, <1>7, <3>4
    <3>6. u[i] = x[m]
      BY <1>5, <2>2, <3>2
    <3> QED
      BY <3>2, <3>5, <3>6
  <2> QED
    BY <2>1, <2>2
<1> QED
  BY <1>2, <1>8, <1>12, <1>13, <1>14 DEF SubsequenceOf

\* r has shown items and reports.
HasShown(r) == r.out \in Seq(Nat) /\ r.reports \in Seq(Reports)

\* What is shown next, of the first b bytes behind the first a, is shown of the
\* first e: all of it, unless it was refused.
LEMMA ShowsNext ==
  ASSUME NEW t \in Seq(Bytes), MarkedOnce(t), NEW e \in 0..Len(t), NEW b \in 0..e, NEW a \in 0..b,
         a = 0 \/ t[a].kind = "lf", b = 0 \/ t[b].kind = "lf" \/ b = e,
         NEW r, HasShown(r), Shows(r, SubSeq(t, 1, a)),
         NEW part, part = WholeRun(SubSeq(t, a + 1, b)),
         NEW told, told = Told(part.reports, a, EndsIn(t, a)),
         NEW q, q.out = r.out \o part.out, q.reports = r.reports \o told,
         r.refused => q.refused, q.refused \/ b = e
  PROVE  HasShown(q) /\ Shows(q, SubSeq(t, 1, e))
<1>1. PICK front, both, all : /\ front = WholeRun(SubSeq(t, 1, a)) /\ both = WholeRun(SubSeq(t, 1, b))
                              /\ all = WholeRun(SubSeq(t, 1, e))
  OBVIOUS
<1>2. a \in 0..Len(t) /\ b \in 0..Len(t) /\ a \in Nat /\ b \in a..Len(t)
  OBVIOUS
<1>3. front.out \in Seq(Nat) /\ front.reports \in Seq(Reports)
  <2>1. Yields(front, Whole("recovering", t, a).out, Whole("recovering", t, a).reports)
    BY <1>1, <1>2, CapDoesNotShow
  <2> QED
    BY <2>1 DEF Yields
<1>4. part.out \in Seq(Nat) /\ part.reports \in Seq(Reports)
  <2>1. PICK s : s = SubSeq(t, a + 1, b)
    OBVIOUS
  <2>2. s \in Seq(Bytes)
    BY <1>2, <2>1, SubSeqStretch DEF Stretch
  <2>3. Yields(part, part.out, part.reports)
    BY <2>1, <2>2, WholeRunTyped
  <2> QED
    BY <2>3 DEF Yields
<1>5. told \in Seq(Reports)
  <2>1. EndsIn(t, a) \in Nat
    <3>1. a \in 0..b /\ b \in 0..Len(t)
      BY <1>2
    <3> QED
      BY <3>1, MoreEnds
  <2> QED
    BY <1>2, <1>4, <2>1, ToldTyped
<1>6. /\ both.out = front.out \o part.out /\ both.reports = front.reports \o told
      /\ both.out \in Seq(Nat) /\ both.reports \in Seq(Reports)
  <2>1. ShowsBoth(t, a, b)
    BY <1>2, PartsShowWhole
  <2> QED
    BY <1>1, <2>1 DEF ShowsBoth, Yields
<1>7. Begins(Nat, both.out, all.out) /\ Begins(Reports, both.reports, all.reports)
  BY <1>1, MoreIsShown
<1>8. HasShown(q)
  <2>1. r.out \in Seq(Nat) /\ r.reports \in Seq(Reports)
    BY DEF HasShown
  <2>2. r.out \o part.out \in Seq(Nat) /\ r.reports \o told \in Seq(Reports)
    BY <1>4, <1>5, <2>1, ConcatProperties
  <2> QED
    BY <2>2 DEF HasShown
<1>9. r.out \in Seq(Nat) /\ r.reports \in Seq(Reports)
  BY DEF HasShown
<1>10. CASE q.refused
  <2>1. SubsequenceOf(r.out, front.out) /\ SubsequenceOf(r.reports, front.reports)
    <3>1. CASE r.refused
      BY <1>1, <3>1 DEF Shows
    <3>2. CASE ~r.refused
      <4>1. r.out = front.out /\ r.reports = front.reports
        BY <1>1, <3>2 DEF Shows
      <4> QED
        BY <1>9, <4>1, AllIsSome
    <3> QED
      BY <3>1, <3>2
  <2>2. SubsequenceOf(r.out \o part.out, all.out)
    BY <1>3, <1>4, <1>6, <1>7, <1>9, <2>1, SomeAndNext
  <2>3. SubsequenceOf(r.reports \o told, all.reports)
    BY <1>3, <1>5, <1>6, <1>7, <1>9, <2>1, SomeAndNext
  <2> QED
    BY <1>1, <1>8, <1>10, <2>2, <2>3 DEF Shows
<1>11. CASE ~q.refused
  <2>1. ~r.refused /\ b = e
    BY <1>11
  <2>2. r.out = front.out /\ r.reports = front.reports
    BY <1>1, <2>1 DEF Shows
  <2>3. all = both
    BY <1>1, <2>1
  <2>4. q.out = all.out /\ q.reports = all.reports
    BY <1>6, <2>2, <2>3
  <2> QED
    BY <1>1, <1>8, <1>11, <2>4 DEF Shows
<1> QED
  BY <1>10, <1>11

\* What was refused may stay missing.
LEMMA ShowsOfMore ==
  ASSUME NEW t \in Seq(Bytes), MarkedOnce(t), NEW a \in 0..Len(t), a = 0 \/ t[a].kind = "lf",
         NEW r, HasShown(r), Shows(r, SubSeq(t, 1, a)), r.refused
  PROVE  Shows(r, t)
<1>1. PICK e : e = Len(t)
  OBVIOUS
<1>2. e \in 0..Len(t) /\ a \in 0..e /\ a \in Nat
  BY <1>1
<1>3. PICK less, more : less = WholeRun(SubSeq(t, 1, a)) /\ more = WholeRun(SubSeq(t, 1, e))
  OBVIOUS
<1>4. Begins(Nat, less.out, more.out) /\ Begins(Reports, less.reports, more.reports)
  BY <1>2, <1>3, MoreIsShown
<1>5. less.out \in Seq(Nat) /\ less.reports \in Seq(Reports)
  BY <1>3, CapDoesNotShow DEF Yields
<1>6. SubsequenceOf(r.out, less.out) /\ SubsequenceOf(r.reports, less.reports)
  BY <1>3 DEF Shows
<1>7. r.out \in Seq(Nat) /\ r.reports \in Seq(Reports) /\ <<>> \in Seq(Nat) /\ <<>> \in Seq(Reports)
  BY DEF HasShown
<1>8. /\ r.out \o <<>> = r.out /\ r.reports \o <<>> = r.reports
      /\ less.out \o <<>> = less.out /\ less.reports \o <<>> = less.reports
  BY <1>5, <1>7, ConcatEmptySeq
<1>9. Begins(Nat, less.out \o <<>>, more.out) /\ Begins(Reports, less.reports \o <<>>, more.reports)
  BY <1>4, <1>8
<1>10. SubsequenceOf(r.out \o <<>>, more.out)
  BY <1>5, <1>6, <1>7, <1>9, SomeAndNext
<1>11. SubsequenceOf(r.reports \o <<>>, more.reports)
  BY <1>5, <1>6, <1>7, <1>9, SomeAndNext
<1>12. SubSeq(t, 1, e) = t
  BY <1>1, SubSeqFull
<1>13. more = WholeRun(t)
  BY <1>3, <1>12
<1> QED
  BY <1>8, <1>10, <1>11, <1>13 DEF Shows

-----------------------------------------------------------------------------
(* What a live route has shown.                                            *)

\* Of the stream h, what the loop has driven is shown, and what it has not is in
\* its buffer, behind `off` bytes and `rec` records.
IsShown(h, buf, off, rec) ==
  ~h.torn /\ MarkedOnce(h.seen) =>
    /\ Stretch(buf, h.seen, off) /\ off + Len(buf) = Len(h.seen)
    /\ off = 0 \/ h.seen[off].kind = "lf"
    /\ rec = EndsIn(h.seen, off)
    /\ HasShown(h) /\ Shows(h, SubSeq(h.seen, 1, off))
Showing == IsShown(history, buffer, baseOffset, baseRecord)

ShowInv == (~Over => Showing) /\ ShownIsWholeRun

\* What was shown, and of what.
SameShown(q, r) ==
  q.seen = r.seen /\ (q.torn <=> r.torn) /\ q.out = r.out /\ q.reports = r.reports /\ q.refused = r.refused

\* The rest of a history is no part of what it shows.
LEMMA MarksDoNotShow ==
  ASSUME NEW r, IsRun(r), NEW l, NEW d, NEW q,
         q = [r EXCEPT !.stale = l, !.due = d] \/ q = [r EXCEPT !.due = d]
  PROVE  SameShown(q, r)
<1>1. PICK s, o, p, t, f, m, e : r = History(s, o, p, t, f, m, e)
  BY DEF IsRun
<1> QED
  BY <1>1 DEF History, SameShown

\* What shows the same of the same is shown as well.
LEMMA ShownAlike ==
  ASSUME NEW q, NEW r, SameShown(q, r), NEW buf, NEW off, NEW rec, IsShown(r, buf, off, rec)
  PROVE  IsShown(q, buf, off, rec)
<1>1. ASSUME NEW bytes, Shows(r, bytes) PROVE Shows(q, bytes)
  BY <1>1 DEF Shows, SameShown
<1> QED
  BY <1>1 DEF IsShown, SameShown, HasShown

\* What a drive does to a history.
LEMMA ShownFields ==
  ASSUME IsRun(history), NEW d, NEW q, q = ShownBy(d)
  PROVE  /\ q.seen = history.seen /\ q.torn = history.torn
         /\ q.out = history.out \o d.did.out
         /\ q.reports = history.reports \o [i \in DOMAIN d.did.reports |-> Absolute(d.did.reports[i])]
         /\ q.refused = (history.refused \/ d.refused)
         /\ IsRun(q)
<1>1. PICK s, o, p, t, f, m, e : history = History(s, o, p, t, f, m, e)
  BY DEF IsRun
<1>2. IsRun(q)
  BY ShownIs DEF SameStream
<1> QED
  BY <1>1, <1>2 DEF History, ShownBy

\* What a dropped part does.
LEMMA TornFields ==
  ASSUME NEW r, IsRun(r), NEW t, NEW q, q = [r EXCEPT !.torn = t]
  PROVE  /\ q.seen = r.seen /\ q.out = r.out /\ q.reports = r.reports /\ q.refused = r.refused
         /\ q.torn = t
<1>1. PICK s, o, p, u, f, m, e : r = History(s, o, p, u, f, m, e)
  BY DEF IsRun
<1> QED
  BY <1>1 DEF History

\* What a read does.
LEMMA SeenFields ==
  ASSUME NEW r, IsRun(r), NEW s, NEW q, q = [r EXCEPT !.seen = s]
  PROVE  /\ q.seen = s /\ q.out = r.out /\ q.reports = r.reports /\ q.refused = r.refused
         /\ q.torn = r.torn
<1>1. PICK z, o, p, u, f, m, e : r = History(z, o, p, u, f, m, e)
  BY DEF IsRun
<1> QED
  BY <1>1 DEF History

\* A report is told of the stream as a stretch of it is.
LEMMA AbsoluteIs ==
  ASSUME NEW told \in Seq(Reports)
  PROVE  [i \in DOMAIN told |-> Absolute(told[i])] = Told(told, baseOffset, baseRecord)
<1>1. ASSUME NEW r \in Reports PROVE Absolute(r) = RebasedBy(r, baseOffset, baseRecord)
  BY DEF Absolute, RebasedBy, Reports
<1>2. \A i \in DOMAIN told : told[i] \in Reports
  OBVIOUS
<1> QED
  BY <1>1, <1>2 DEF Told

\* d drove the first m bytes of a range: all of them, unless it was refused.
Drove(d, range, m) ==
  /\ d.did = WholeRun(SubSeq(range, 1, m))
  /\ m = 0 \/ range[m].kind = "lf" \/ m = Len(range)
  /\ ~d.refused => m = Len(range)

\* That is what a drive does.
LEMMA DriveIsPart ==
  ASSUME NEW range \in Seq(Bytes), NEW d \in Drives(range)
  PROVE  \E m \in 0..Len(range) : Drove(d, range, m)
<1>1. PICK part \in Through(range) :
        d = [refused |-> part # range, did |-> Drive("recovering", part, ItemsPerValue * Len(part))]
  BY DEF Drives
<1>2. d.did = WholeRun(part) /\ d.refused = (part # range)
  BY <1>1 DEF WholeRun
<1>3. Len(range) \in Nat /\ DOMAIN range = 1..Len(range)
  BY LenProperties
<1>4. CASE part = range
  <2>1. PICK m : m = Len(range)
    OBVIOUS
  <2>2. m \in 0..Len(range) /\ SubSeq(range, 1, m) = range
    BY <1>3, <2>1, SubSeqFull
  <2>3. Drove(d, range, m)
    BY <1>2, <1>4, <2>1, <2>2 DEF Drove
  <2> QED
    BY <2>2, <2>3
<1>5. CASE part # range
  <2>1. PICK n \in {0} \cup LineFeeds(range) : part = SubSeq(range, 1, n)
    BY <1>5 DEF Through
  <2>2. n \in 0..Len(range) /\ (n = 0 \/ range[n].kind = "lf")
    BY <1>3, <2>1 DEF LineFeeds
  <2>3. Drove(d, range, n)
    BY <1>2, <1>5, <2>1, <2>2 DEF Drove
  <2> QED
    BY <2>2, <2>3
<1> QED
  BY <1>4, <1>5

\* A cut of the buffer.
IsSpan(n) == n \in 0..Len(buffer) /\ (n = 0 \/ buffer[n].kind = "lf" \/ n = Len(buffer))

\* A drive over the buffer, to a cut of it, shows what one drive shows to there.
LEMMA DriveShows ==
  ASSUME IsRun(history), Showing, ~history.torn, MarkedOnce(history.seen),
         NEW n, IsSpan(n), NEW d \in Drives(SubSeq(buffer, 1, n)), NEW q, q = ShownBy(d)
  PROVE  HasShown(q) /\ Shows(q, SubSeq(history.seen, 1, baseOffset + n))
<1>1. PICK t, a, e, range : t = history.seen /\ a = baseOffset /\ e = a + n /\ range = SubSeq(buffer, 1, n)
  OBVIOUS
<1>2. /\ Stretch(buffer, t, a) /\ a + Len(buffer) = Len(t) /\ (a = 0 \/ t[a].kind = "lf")
      /\ baseRecord = EndsIn(t, a) /\ HasShown(history) /\ Shows(history, SubSeq(t, 1, a))
  BY <1>1 DEF Showing, IsShown
<1>3. /\ t \in Seq(Bytes) /\ buffer \in Seq(Bytes) /\ a \in Nat /\ Len(t) \in Nat /\ Len(buffer) \in Nat
      /\ n \in Nat /\ n <= Len(buffer) /\ \A j \in 1..Len(buffer) : buffer[j] = t[a + j]
  BY <1>2 DEF Stretch, IsSpan
<1>4. range \in Seq(Bytes) /\ Len(range) = n /\ Stretch(range, buffer, 0)
  <2>1. n \in 0..Len(buffer)
    BY DEF IsSpan
  <2>2. IsFront(range, buffer, n)
    BY <1>1, <1>3, <2>1, FirstBytes
  <2> QED
    BY <2>2 DEF IsFront
<1>5. PICK m \in 0..n : Drove(d, range, m)
  <2>1. d \in Drives(range)
    BY <1>1
  <2>2. \E m \in 0..Len(range) : Drove(d, range, m)
    BY <1>4, <2>1, DriveIsPart
  <2> QED
    BY <1>4, <2>2
<1>6. PICK b : b = a + m
  OBVIOUS
<1>7. e \in 0..Len(t) /\ b \in 0..e /\ a \in 0..b /\ m \in Nat /\ m \in 0..Len(range) /\ m \in 0..Len(buffer)
  BY <1>1, <1>2, <1>3, <1>4, <1>6
<1>8. SubSeq(range, 1, m) = SubSeq(t, a + 1, b)
  <2>1. 0 \in Nat /\ m \in 0..Len(buffer) /\ a = a + 0 /\ b = a + m /\ 0 + 1 = 1
    BY <1>3, <1>6, <1>7
  <2>2. Behind(buffer, 0, m) = Behind(t, a, b)
    BY <1>2, <2>1, SameBytes
  <2>3. Behind(range, 0, m) = Behind(buffer, 0, m)
    BY <1>4, <1>7, SameFront
  <2> QED
    BY <2>1, <2>2, <2>3 DEF Behind
<1>9. b = 0 \/ t[b].kind = "lf" \/ b = e
  <2>1. CASE m = 0
    <3>1. b = a
      BY <1>3, <1>6, <2>1
    <3> QED
      BY <1>2, <3>1
  <2>2. CASE m = n
    BY <1>1, <1>6, <2>2
  <2>3. CASE m # 0 /\ m # n
    <3>1. range[m].kind = "lf"
      BY <1>4, <1>5, <2>3 DEF Drove
    <3>2. m \in 1..Len(range) /\ m \in 1..Len(buffer)
      BY <1>7, <2>3
    <3>3. range[m] = buffer[0 + m] /\ 0 + m = m
      BY <1>4, <3>2 DEF Stretch
    <3>4. buffer[m] = t[a + m]
      BY <1>3, <3>2
    <3> QED
      BY <1>6, <3>1, <3>3, <3>4
  <2> QED
    BY <2>1, <2>2, <2>3
<1>10. PICK part, told : part = WholeRun(SubSeq(t, a + 1, b)) /\ told = Told(part.reports, a, EndsIn(t, a))
  OBVIOUS
<1>11. d.did = part
  BY <1>5, <1>8, <1>10 DEF Drove
<1>12. part.reports \in Seq(Reports)
  <2>1. PICK s : s = SubSeq(t, a + 1, b)
    OBVIOUS
  <2>2. b \in a..Len(t)
    BY <1>7
  <2>3. s \in Seq(Bytes)
    BY <1>3, <2>1, <2>2, SubSeqStretch DEF Stretch
  <2>4. Yields(part, part.out, part.reports)
    BY <1>10, <2>1, <2>3, WholeRunTyped
  <2> QED
    BY <2>4 DEF Yields
<1>13. q.out = history.out \o part.out /\ q.reports = history.reports \o told
  <2>1. [i \in DOMAIN part.reports |-> Absolute(part.reports[i])] = Told(part.reports, baseOffset, baseRecord)
    BY <1>12, AbsoluteIs
  <2>2. Told(part.reports, baseOffset, baseRecord) = told
    BY <1>1, <1>2, <1>10
  <2>3. /\ q.out = history.out \o d.did.out
        /\ q.reports = history.reports \o [i \in DOMAIN d.did.reports |-> Absolute(d.did.reports[i])]
    BY ShownFields
  <2> QED
    BY <1>11, <2>1, <2>2, <2>3
<1>14. (history.refused => q.refused) /\ (q.refused \/ b = e)
  <2>1. q.refused = (history.refused \/ d.refused)
    BY ShownFields
  <2>2. d.refused \/ m = n
    BY <1>4, <1>5 DEF Drove
  <2>3. d.refused \/ b = e
    BY <1>1, <1>6, <2>2
  <2> QED
    BY <2>1, <2>3
<1>15. HasShown(q) /\ Shows(q, SubSeq(t, 1, e))
  <2>1. MarkedOnce(t)
    BY <1>1
  <2> QED
    BY <1>2, <1>3, <1>7, <1>9, <1>10, <1>13, <1>14, <2>1, ShowsNext
<1> QED
  BY <1>1, <1>15

-----------------------------------------------------------------------------
(* The steps of a live route, and what it has shown.                       *)

\* A new stream has shown what nothing shows.
LEMMA FreshShows == IsShown(NewRun, <<>>, 0, 0)
<1>1. PICK t, r, p : t = <<>> /\ r = NewRun /\ p = "recovering"
  OBVIOUS
<1>2. t \in Seq(Bytes) /\ Len(t) = 0
  BY <1>1
<1>3. /\ r.seen = t /\ r.out = <<>> /\ r.reports = <<>> /\ r.refused = FALSE
  BY <1>1 DEF NewRun
<1>4. Stretch(t, t, 0)
  BY <1>2 DEF Stretch
<1>5. EndsIn(t, 0) = 0
  <2>1. p \in Kept
    BY <1>1 DEF Kept
  <2> QED
    BY <1>2, <2>1, WholeOfNothing DEF EndsIn
<1>6. HasShown(r)
  BY <1>3 DEF HasShown
<1>7. Shows(r, SubSeq(t, 1, 0))
  <2>1. SubSeq(t, 1, 0) = t
    BY <1>2, SubSeqFull
  <2>2. Yields(WholeRun(t), <<>>, <<>>)
    BY <1>2, NothingShown
  <2> QED
    BY <1>3, <2>1, <2>2 DEF Shows, Yields
<1>8. 0 + Len(t) = Len(r.seen)
  BY <1>2, <1>3
<1>9. IsShown(r, t, 0, 0)
  BY <1>3, <1>4, <1>5, <1>6, <1>7, <1>8 DEF IsShown
<1> QED
  BY <1>1, <1>9

\* What is read is not shown yet.
LEMMA TakeShows ==
  ASSUME FollowTyped, Showing, NEW u \in Seq(Bytes), Take(u), UNCHANGED bases
  PROVE  Showing'
<1>1. PICK r, q, s, t, buf, next, a, rec :
        /\ r = history /\ q = history' /\ s = r.seen /\ t = s \o u
        /\ buf = buffer /\ next = buf \o u /\ a = baseOffset /\ rec = baseRecord
  OBVIOUS
<1>2. IsRun(r) /\ buf \in Seq(Bytes)
  BY <1>1 DEF FollowTyped
<1>4. /\ q.seen = t /\ q.out = r.out /\ q.reports = r.reports /\ q.refused = r.refused
      /\ q.torn = r.torn
  <2>1. q = [r EXCEPT !.seen = t]
    BY <1>1 DEF Take
  <2> QED
    BY <1>2, <2>1, SeenFields
<1>5. SUFFICES IsShown(q, next, a, rec)
  BY <1>1 DEF Take, bases, Showing
<1>6. SUFFICES ASSUME ~q.torn, MarkedOnce(t)
               PROVE  /\ Stretch(next, t, a) /\ a + Len(next) = Len(t)
                      /\ a = 0 \/ t[a].kind = "lf"
                      /\ rec = EndsIn(t, a)
                      /\ HasShown(q) /\ Shows(q, SubSeq(t, 1, a))
  BY <1>4 DEF IsShown
<1>7. s \in Seq(Bytes)
  BY <1>1, <1>2, RunTyped
<1>8. /\ t \in Seq(Bytes) /\ Len(t) = Len(s) + Len(u) /\ Len(s) \in Nat /\ Len(u) \in Nat
      /\ \A i \in 1..(Len(s) + Len(u)) : t[i] = IF i <= Len(s) THEN s[i] ELSE u[i - Len(s)]
  BY <1>1, <1>7, JoinIs
<1>9. MarkedOnce(s)
  <2>1. \A i \in 2..Len(s) : i \in 2..Len(t) /\ t[i] = s[i]
    BY <1>8
  <2> QED
    BY <1>6, <2>1 DEF MarkedOnce
<1>10. /\ Stretch(buf, s, a) /\ a + Len(buf) = Len(s)
       /\ a = 0 \/ s[a].kind = "lf"
       /\ rec = EndsIn(s, a)
       /\ HasShown(r) /\ Shows(r, SubSeq(s, 1, a))
  BY <1>1, <1>4, <1>6, <1>9 DEF Showing, IsShown
<1>11. /\ a \in Nat /\ Len(buf) \in Nat /\ a <= Len(s) /\ \A j \in 1..Len(buf) : buf[j] = s[a + j]
  BY <1>2, <1>8, <1>10 DEF Stretch
<1>12. /\ next \in Seq(Bytes) /\ Len(next) = Len(buf) + Len(u)
       /\ \A i \in 1..(Len(buf) + Len(u)) : next[i] = IF i <= Len(buf) THEN buf[i] ELSE u[i - Len(buf)]
  BY <1>1, <1>2, JoinIs
<1>3. PICK ls, lb, lu : ls = Len(s) /\ lb = Len(buf) /\ lu = Len(u)
  OBVIOUS
<1>20. ls \in Nat /\ lb \in Nat /\ lu \in Nat /\ a \in Nat /\ a + lb = ls
  BY <1>3, <1>8, <1>10, <1>11
<1>13. a + Len(next) = Len(t)
  <2>1. Len(next) = lb + lu /\ Len(t) = ls + lu
    BY <1>3, <1>8, <1>12
  <2> QED
    BY <1>20, <2>1
<1>14. \A j \in 1..Len(next) : next[j] = t[a + j]
  <2> SUFFICES ASSUME NEW j \in 1..Len(next) PROVE next[j] = t[a + j]
    OBVIOUS
  <2>1. PICK k : k = a + j
    OBVIOUS
  <2>2. k \in 1..(Len(s) + Len(u)) /\ j \in 1..(Len(buf) + Len(u))
    BY <1>8, <1>11, <1>12, <1>13, <2>1
  <2>3. CASE j <= Len(buf)
    <3>1. k <= Len(s) /\ j \in 1..Len(buf)
      BY <1>10, <1>11, <2>1, <2>2, <2>3
    <3>2. t[k] = s[k] /\ next[j] = buf[j] /\ buf[j] = s[a + j]
      BY <1>8, <1>11, <1>12, <2>2, <2>3, <3>1
    <3> QED
      BY <2>1, <3>2
  <2>4. CASE ~(j <= Len(buf))
    <3>1. ~(k <= Len(s)) /\ k - Len(s) = j - Len(buf)
      BY <1>3, <1>20, <2>1, <2>2, <2>4
    <3>2. t[k] = u[k - Len(s)] /\ next[j] = u[j - Len(buf)]
      BY <1>8, <1>12, <2>2, <2>4, <3>1
    <3> QED
      BY <2>1, <3>1, <3>2
  <2> QED
    BY <2>3, <2>4
<1>15. Stretch(next, t, a)
  <2>1. a + Len(next) <= Len(t)
    BY <1>8, <1>13
  <2> QED
    BY <1>8, <1>11, <1>12, <1>14, <2>1 DEF Stretch
<1>16. a = 0 \/ t[a].kind = "lf"
  <2>1. a # 0 => a \in 1..(Len(s) + Len(u)) /\ a <= Len(s)
    BY <1>8, <1>11
  <2>2. a # 0 => t[a] = s[a]
    BY <1>8, <2>1
  <2> QED
    BY <1>10, <2>2
<1>17. SubSeq(t, 1, a) = SubSeq(s, 1, a)
  <2>1. Stretch(s, t, 0)
    <3>1. \A j \in 1..Len(s) : j \in 1..(Len(s) + Len(u)) /\ j <= Len(s) /\ 0 + j = j
      BY <1>8
    <3>2. \A j \in 1..Len(s) : s[j] = t[0 + j]
      BY <1>8, <3>1
    <3>3. 0 + Len(s) <= Len(t) /\ 0 \in Nat
      BY <1>8
    <3> QED
      BY <1>7, <1>8, <3>2, <3>3 DEF Stretch
  <2>2. a \in 0..Len(s) /\ 0 + 1 = 1
    BY <1>8, <1>11
  <2>3. Behind(s, 0, a) = Behind(t, 0, a)
    BY <2>1, <2>2, SameFront
  <2> QED
    BY <2>2, <2>3 DEF Behind
<1>18. rec = EndsIn(t, a)
  BY <1>10, <1>17 DEF EndsIn
<1>19. HasShown(q) /\ Shows(q, SubSeq(t, 1, a))
  BY <1>4, <1>10, <1>17 DEF HasShown, Shows
<1> QED
  BY <1>13, <1>15, <1>16, <1>18, <1>19

\* A part of the records moves the count of records by its own.
LEMMA RecordsMove ==
  ASSUME NEW s, NEW t, NEW a, Stretch(s, t, a), a = 0 \/ t[a].kind = "lf",
         NEW n \in 1..Len(s), s[n].kind = "lf"
  PROVE  /\ EndsIn(t, a + n) = EndsIn(t, a) + RecordsIn(SubSeq(s, 1, n))
         /\ t[a + n].kind = "lf"
<1>1. PICK e : e = a + n
  OBVIOUS
<1>2. /\ s \in Seq(Bytes) /\ t \in Seq(Bytes) /\ a \in Nat /\ Len(s) \in Nat /\ Len(t) \in Nat
      /\ a + Len(s) <= Len(t) /\ \A j \in 1..Len(s) : s[j] = t[a + j]
  BY DEF Stretch
<1>3. t[e].kind = "lf" /\ e > 0 /\ e \in 0..Len(t) /\ a \in 0..e /\ n > 0 /\ n \in 0..Len(s) /\ 0 \in 0..n
  BY <1>1, <1>2
<1>4. EndsIn(t, e) = EndsIn(t, a) + Cardinality(Feeds(t, a, e))
  BY <1>2, <1>3, MoreEnds
<1>5. EndsIn(s, n) = EndsIn(s, 0) + Cardinality(Feeds(s, 0, n)) /\ EndsIn(s, 0) \in Nat
  BY <1>2, <1>3, MoreEnds
<1>6. EndsIn(s, 0) = 0
  <2>1. PICK p : p = "recovering"
    OBVIOUS
  <2>2. p \in Kept
    BY <2>1 DEF Kept
  <2> QED
    BY <1>2, <2>2, WholeOfNothing DEF EndsIn
<1>7. Cardinality(Feeds(t, a, e)) = Cardinality(Feeds(s, 0, n))
  <2>1. 0 \in Nat /\ a = a + 0
    BY <1>2
  <2> QED
    BY <1>1, <1>3, <2>1, FeedsOfStretch
<1>8. Cardinality(Feeds(s, 0, n)) \in Nat
  <2>1. 0 \in Nat /\ n \in Nat
    OBVIOUS
  <2> QED
    BY <2>1, FeedsFinite
<1>9. RecordsIn(SubSeq(s, 1, n)) = EndsIn(s, n)
  BY DEF RecordsIn, EndsIn
<1> QED
  BY <1>1, <1>3, <1>4, <1>5, <1>6, <1>7, <1>8, <1>9

\* A cycle shows its whole records, and keeps what is behind them.
LEMMA CycleShows ==
  ASSUME FollowTyped, Showing, NEW left, DrivePrefix(left),
         left = SubSeq(buffer, CompleteSpan(buffer) + 1, Len(buffer)) \/ left = <<>>
  PROVE  Showing'
<1>1. PICK c, t, a, rec, rest : /\ c = CompleteSpan(buffer) /\ t = history.seen /\ a = baseOffset
                                /\ rec = baseRecord /\ rest = SubSeq(buffer, c + 1, Len(buffer))
  OBVIOUS
<1>2. IsRun(history) /\ buffer \in Seq(Bytes)
  BY DEF FollowTyped
<1>3. /\ Len(buffer) \in Nat /\ c \in 0..Len(buffer) /\ c \in Nat /\ (c # 0 => buffer[c].kind = "lf")
  <2>1. Len(buffer) \in Nat /\ c \in 0..Len(buffer) /\ (c # 0 => buffer[c].kind = "lf")
    BY <1>1, <1>2, CompleteSpanIs
  <2> QED
    BY <2>1
<1>4. SameStream(history', history) /\ buffer' = left
  BY <1>2, DrivePrefixSame
<1>5. history'.seen = t
  BY <1>1, <1>4 DEF SameStream
<1>6. CASE c = 0
  <2>1. PICK x : x = (history.torn \/ left # buffer)
    OBVIOUS
  <2>2. history' = [history EXCEPT !.torn = x] /\ UNCHANGED bases
    BY <1>1, <1>6, <2>1 DEF DrivePrefix
  <2>3. /\ history'.out = history.out /\ history'.reports = history.reports
        /\ history'.refused = history.refused /\ history'.torn = x
    BY <1>2, <2>2, TornFields
  <2>4. CASE x
    BY <2>3, <2>4 DEF Showing, IsShown
  <2>5. CASE ~x
    <3>1. SameShown(history', history)
      BY <1>1, <1>5, <2>1, <2>3, <2>5 DEF SameShown
    <3>2. buffer' = buffer
      BY <1>4, <2>1, <2>5
    <3>3. IsShown(history', buffer, baseOffset, baseRecord)
      BY <3>1, ShownAlike DEF Showing
    <3> QED
      BY <2>2, <3>2, <3>3 DEF Showing, bases
  <2> QED
    BY <2>4, <2>5
<1>7. CASE c # 0
  <2>1. PICK d \in Drives(SubSeq(buffer, 1, c)) :
          /\ history' = [ShownBy(d) EXCEPT !.torn = @ \/ Len(left) < Held(buffer)]
          /\ baseOffset' = baseOffset + c
          /\ baseRecord' = baseRecord + RecordsIn(SubSeq(buffer, 1, c))
    BY <1>1, <1>7 DEF DrivePrefix
  <2>2. PICK q, r, lost : q = ShownBy(d) /\ r = history' /\ lost = (q.torn \/ Len(left) < Held(buffer))
    OBVIOUS
  <2>3. q.seen = t /\ q.torn = history.torn /\ IsRun(q)
    BY <1>1, <1>2, <2>2, ShownFields
  <2>4. r = [q EXCEPT !.torn = lost]
    BY <2>1, <2>2
  <2>5. /\ r.seen = t /\ r.out = q.out /\ r.reports = q.reports /\ r.refused = q.refused
        /\ r.torn = lost
    BY <2>3, <2>4, TornFields
  <2>6. PICK b, recs : b = a + c /\ recs = rec + RecordsIn(SubSeq(buffer, 1, c))
    OBVIOUS
  <2>7. SUFFICES IsShown(r, left, b, recs)
    BY <1>1, <1>4, <2>1, <2>2, <2>6 DEF Showing
  <2>8. SUFFICES ASSUME ~lost, MarkedOnce(t)
                 PROVE  /\ Stretch(left, t, b) /\ b + Len(left) = Len(t)
                        /\ b = 0 \/ t[b].kind = "lf"
                        /\ recs = EndsIn(t, b)
                        /\ HasShown(r) /\ Shows(r, SubSeq(t, 1, b))
    BY <2>5 DEF IsShown
  <2>9. ~history.torn /\ ~(Len(left) < Held(buffer))
    BY <2>2, <2>3, <2>8
  <2>10. /\ Stretch(buffer, t, a) /\ a + Len(buffer) = Len(t) /\ (a = 0 \/ t[a].kind = "lf")
         /\ rec = EndsIn(t, a)
    BY <1>1, <2>8, <2>9 DEF Showing, IsShown
  <2>11. /\ t \in Seq(Bytes) /\ a \in Nat /\ Len(t) \in Nat
         /\ \A j \in 1..Len(buffer) : buffer[j] = t[a + j]
    BY <2>10 DEF Stretch
  <2>12. /\ rest \in Seq(Bytes) /\ Len(rest) = Len(buffer) - c
         /\ \A k \in 1..Len(rest) : c + k <= Len(buffer) /\ rest[k] = buffer[c + k]
    <3>1. Len(buffer) \in 0..Len(buffer) /\ c <= Len(buffer)
      BY <1>3
    <3> QED
      BY <1>1, <1>2, <1>3, <3>1, PartIs
  <2>13. left = rest
    <3>1. CASE left = <<>>
      <4>1. Len(left) = 0
        BY <3>1
      <4>2. Held(buffer) = Len(buffer) - c
        BY <1>1 DEF Held
      <4>3. Len(rest) = 0
        BY <1>3, <2>9, <2>12, <4>1, <4>2
      <4> QED
        BY <2>12, <3>1, <4>3
    <3> QED
      BY <1>1, <3>1
  <2>14. b \in Nat /\ b + Len(rest) = Len(t)
    BY <1>3, <2>6, <2>10, <2>11, <2>12
  <2>15. \A k \in 1..Len(rest) : rest[k] = t[b + k]
    <3> SUFFICES ASSUME NEW k \in 1..Len(rest) PROVE rest[k] = t[b + k]
      OBVIOUS
    <3>1. PICK j : j = c + k
      OBVIOUS
    <3>2. j \in 1..Len(buffer) /\ a + j = b + k
      BY <1>3, <2>6, <2>11, <2>12, <3>1
    <3>3. rest[k] = buffer[j] /\ buffer[j] = t[a + j]
      BY <2>11, <2>12, <3>1, <3>2
    <3> QED
      BY <3>2, <3>3
  <2>16. Stretch(rest, t, b)
    <3>1. b + Len(rest) <= Len(t)
      BY <2>11, <2>14
    <3> QED
      BY <2>11, <2>12, <2>14, <2>15, <3>1 DEF Stretch
  <2>17. recs = EndsIn(t, b) /\ t[b].kind = "lf"
    <3>1. c \in 1..Len(buffer) /\ buffer[c].kind = "lf"
      BY <1>3, <1>7
    <3> QED
      BY <2>6, <2>10, <3>1, RecordsMove
  <2>18. HasShown(q) /\ Shows(q, SubSeq(t, 1, b))
    <3>1. IsSpan(c)
      BY <1>3 DEF IsSpan
    <3>2. HasShown(q) /\ Shows(q, SubSeq(history.seen, 1, baseOffset + c))
      <4>1. MarkedOnce(history.seen) /\ ~history.torn
        BY <1>1, <2>8, <2>9
      <4> QED
        BY <1>2, <2>2, <3>1, <4>1, DriveShows
    <3> QED
      BY <1>1, <2>6, <3>2
  <2>19. HasShown(r) /\ Shows(r, SubSeq(t, 1, b))
    BY <2>5, <2>18 DEF HasShown, Shows
  <2> QED
    BY <2>13, <2>14, <2>16, <2>17, <2>19
<1> QED
  BY <1>6, <1>7

\* A drive over all of the buffer shows the stream.
LEMMA LastDriveShows ==
  ASSUME FollowTyped, Showing, NEW d \in Drives(buffer), NEW q, q = ShownBy(d)
  PROVE  ShowsWhole(q, q.seen)
<1>1. IsRun(history) /\ buffer \in Seq(Bytes)
  BY DEF FollowTyped
<1>2. q.seen = history.seen /\ q.torn = history.torn
  BY <1>1, ShownFields
<1>3. SUFFICES ASSUME ~history.torn, MarkedOnce(history.seen) PROVE Shows(q, history.seen)
  BY <1>2 DEF ShowsWhole
<1>4. PICK n : n = Len(buffer)
  OBVIOUS
<1>5. IsSpan(n) /\ SubSeq(buffer, 1, n) = buffer
  <2>1. n \in Nat /\ n \in 0..n
    BY <1>1, <1>4
  <2> QED
    BY <1>1, <1>4, <2>1, SubSeqFull DEF IsSpan
<1>6. d \in Drives(SubSeq(buffer, 1, n))
  BY <1>5
<1>7. Shows(q, SubSeq(history.seen, 1, baseOffset + n))
  BY <1>1, <1>3, <1>5, <1>6, DriveShows
<1>8. baseOffset + n = Len(history.seen) /\ history.seen \in Seq(Bytes)
  BY <1>3, <1>4 DEF Showing, IsShown, Stretch
<1>9. SubSeq(history.seen, 1, Len(history.seen)) = history.seen
  BY <1>8, SubSeqFull
<1> QED
  BY <1>7, <1>8, <1>9

\* What was refused may be missing, whatever was read since.
LEMMA RefusedShows ==
  ASSUME Showing, history.refused
  PROVE  ShowsWhole(history, history.seen)
<1>1. SUFFICES ASSUME ~history.torn, MarkedOnce(history.seen) PROVE Shows(history, history.seen)
  BY DEF ShowsWhole
<1>2. PICK t, a : t = history.seen /\ a = baseOffset
  OBVIOUS
<1>3. /\ Stretch(buffer, t, a) /\ (a = 0 \/ t[a].kind = "lf")
      /\ HasShown(history) /\ Shows(history, SubSeq(t, 1, a))
  BY <1>1, <1>2 DEF Showing, IsShown
<1>4. t \in Seq(Bytes) /\ a \in 0..Len(t)
  <2>1. t \in Seq(Bytes) /\ buffer \in Seq(Bytes) /\ a \in Nat /\ a + Len(buffer) <= Len(t)
    BY <1>3 DEF Stretch
  <2>2. Len(buffer) \in Nat /\ Len(t) \in Nat
    BY <2>1
  <2> QED
    BY <2>1, <2>2
<1>5. Shows(history, t)
  <2>1. MarkedOnce(t)
    BY <1>1, <1>2
  <2> QED
    BY <1>3, <1>4, <2>1, ShowsOfMore
<1> QED
  BY <1>2, <1>5

\* A step of a loop that goes on, on the same ended stream.
LEMMA GoesOn ==
  ASSUME ShowInv, Showing', ~Over', ended' = ended
  PROVE  ShowInv'
<1>1. ended # NIL => ShowsWhole(ended, ended.seen)
  BY DEF ShowInv, ShownIsWholeRun
<1>2. (ended # NIL => ShowsWhole(ended, ended.seen))'
  BY <1>1
<1>3. ~(pc' \in {"failed", "reported", "served"})
  BY DEF Over
<1>4. ShowsWhole(history', SubSeq(history'.seen, 1, baseOffset'))
  BY DEF Showing, IsShown, ShowsWhole
<1>5. ShownIsWholeRun'
  BY <1>2, <1>3, <1>4 DEF ShownIsWholeRun
<1> QED
  BY <1>5 DEF ShowInv

\* A step that shows nothing: the system calls, and those of the writer.
LEMMA ShownStays ==
  ASSUME ShowInv, UNCHANGED <<history, buffer, bases, ended>>, pc' = pc \/ (~Over /\ ~Over')
  PROVE  ShowInv'
<1>1. UNCHANGED <<history, buffer, baseOffset, baseRecord, ended>>
  BY DEF bases
<1>2. CASE pc' = pc
  BY <1>1, <1>2 DEF ShowInv, Showing, ShownIsWholeRun, Over
<1>3. CASE ~Over /\ ~Over'
  <2>1. Showing'
    BY <1>1, <1>3 DEF ShowInv, Showing
  <2> QED
    BY <1>1, <1>3, <2>1, GoesOn
<1> QED
  BY <1>2, <1>3

\* A step that marks the history with the rotation it sees.
LEMMA PollShows ==
  ASSUME TailInv, ShowInv, PollPath
  PROVE  ShowInv'
<1>1. /\ pc = "poll" /\ pc' \in {"drain", "size"} /\ UNCHANGED <<buffer, bases, ended>>
      /\ UNCHANGED history \/ (\E l, d : history' = [history EXCEPT !.stale = l, !.due = d])
  BY DEF PollPath
<1>2. ~Over /\ ~Over'
  BY <1>1 DEF Over
<1>3. IsRun(history) /\ Showing
  BY <1>2 DEF TailInv, FollowTyped, ShowInv
<1>4. Showing'
  <2>1. CASE UNCHANGED history
    BY <1>1, <1>3, <2>1 DEF Showing, bases
  <2>2. CASE \E l, d : history' = [history EXCEPT !.stale = l, !.due = d]
    <3>1. SameShown(history', history)
      BY <1>3, <2>2, MarksDoNotShow
    <3>2. IsShown(history', buffer, baseOffset, baseRecord)
      BY <1>3, <3>1, ShownAlike DEF Showing
    <3> QED
      BY <1>1, <3>2 DEF Showing, bases
  <2> QED
    BY <1>1, <2>1, <2>2
<1> QED
  BY <1>1, <1>2, <1>4, GoesOn

\* A read, wherever it is made.
LEMMA ReadShows ==
  ASSUME TailInv, ShowInv, Drain \/ Read \/ ReadPipe
  PROVE  ShowInv'
<1>1. FollowTyped
  BY DEF TailInv
<1>2. PICK w, t : w = NextRead /\ t = Content(fd)
  OBVIOUS
<1>3. IsRead(w, t, cursor) /\ cursor \in Nat
  BY <1>1, <1>2, NextReadIs DEF FollowTyped
<1>4. w \in Seq(Bytes)
  BY <1>3 DEF IsRead
<1>5. pc \in {"drain", "read", "poll"} /\ UNCHANGED <<bases, ended>>
  BY DEF Drain, Read, ReadPipe
<1>6. pc' \in {"drain", "reopen", "read", "cycle", "eof"}
  <2>1. CASE Drain
    BY <2>1 DEF Drain
  <2>2. CASE Read
    <3>1. pc = "read" /\ (pc' = "cycle" \/ pc' = pc)
      BY <2>2 DEF Read
    <3> QED
      BY <3>1
  <2>3. CASE ReadPipe
    BY <2>3 DEF ReadPipe
  <2> QED
    BY <2>1, <2>2, <2>3
<1>7. ~Over /\ ~Over'
  BY <1>5, <1>6 DEF Over
<1>8. Showing
  BY <1>7 DEF ShowInv
<1>9. Take(w) \/ (\E n \in 1..Len(w) : Take(SubSeq(w, 1, n))) \/ UNCHANGED <<buffer, history>>
  BY <1>2 DEF Drain, Read, ReadPipe
<1>10. CASE \E u \in Seq(Bytes) : Take(u)
  <2>1. Showing'
    BY <1>1, <1>5, <1>8, <1>10, TakeShows
  <2> QED
    BY <1>5, <1>7, <2>1, GoesOn
<1>11. CASE UNCHANGED <<buffer, history>>
  BY <1>5, <1>7, <1>11, ShownStays
<1>12. CASE \E n \in 1..Len(w) : Take(SubSeq(w, 1, n))
  <2>1. PICK n \in 1..Len(w) : Take(SubSeq(w, 1, n))
    BY <1>12
  <2>2. PICK u : u = SubSeq(w, 1, n)
    OBVIOUS
  <2>3. IsRead(u, t, cursor)
    BY <1>3, <2>2, PartOfRead
  <2>4. u \in Seq(Bytes) /\ Take(u)
    BY <2>1, <2>2, <2>3 DEF IsRead
  <2> QED
    BY <1>10, <2>4
<1> QED
  BY <1>4, <1>9, <1>10, <1>11, <1>12

\* A rotation whose path is gone ends the loop: what was refused may be missing.
LEMMA ReopenShows ==
  ASSUME TailInv, ShowInv, ReopenPath
  PROVE  ShowInv'
<1>1. /\ pc = "reopen" /\ pc' \in {"failed", "rotated"} /\ UNCHANGED <<buffer, bases, ended>>
      /\ \E d : history' = [history EXCEPT !.due = d]
  BY DEF ReopenPath
<1>2. ~Over
  BY <1>1 DEF Over
<1>3. IsRun(history) /\ Showing
  BY <1>2 DEF TailInv, FollowTyped, ShowInv
<1>4. SameShown(history', history)
  BY <1>1, <1>3, MarksDoNotShow
<1>5. Showing'
  <2>1. IsShown(history', buffer, baseOffset, baseRecord)
    BY <1>3, <1>4, ShownAlike DEF Showing
  <2> QED
    BY <1>1, <2>1 DEF Showing, bases
<1>6. CASE pc' = "rotated"
  <2>1. ~Over'
    BY <1>6 DEF Over
  <2> QED
    BY <1>1, <1>5, <2>1, GoesOn
<1>7. CASE pc' = "failed"
  <2>1. Over'
    BY <1>7 DEF Over
  <2>2. ended' = ended /\ (ended # NIL => ShowsWhole(ended, ended.seen))
    BY <1>1 DEF ShowInv, ShownIsWholeRun
  <2>3. history'.refused => ShowsWhole(history', history'.seen)
    <3>1. history.refused => ShowsWhole(history, history.seen)
      BY <1>3, RefusedShows
    <3>2. ASSUME NEW bytes, Shows(history, bytes) PROVE Shows(history', bytes)
      BY <1>4, <3>2 DEF SameShown, Shows
    <3> QED
      BY <1>4, <3>1, <3>2 DEF SameShown, ShowsWhole
  <2>4. ShowsWhole(history', SubSeq(history'.seen, 1, baseOffset'))
    BY <1>5 DEF Showing, IsShown, ShowsWhole
  <2>5. ShownIsWholeRun'
    BY <1>7, <2>2, <2>3, <2>4 DEF ShownIsWholeRun
  <2> QED
    BY <2>1, <2>5 DEF ShowInv
<1> QED
  BY <1>1, <1>6, <1>7

\* A file that was cut begins again.
LEMMA SizeShows ==
  ASSUME TailInv, ShowInv, Size
  PROVE  ShowInv'
<1>1. /\ pc = "size" /\ pc' \in {"poll", "cycle", "read"} /\ ended' = ended
      /\ \/ UNCHANGED <<history, buffer, bases>>
         \/ history' = NewRun /\ buffer' = <<>> /\ baseOffset' = 0 /\ baseRecord' = 0
  BY DEF Size
<1>2. ~Over /\ ~Over'
  BY <1>1 DEF Over
<1>3. CASE UNCHANGED <<history, buffer, bases>>
  BY <1>1, <1>2, <1>3, ShownStays
<1>4. CASE history' = NewRun /\ buffer' = <<>> /\ baseOffset' = 0 /\ baseRecord' = 0
  <2>1. Showing'
    BY <1>4, FreshShows DEF Showing
  <2> QED
    BY <1>1, <1>2, <2>1, GoesOn
<1> QED
  BY <1>1, <1>3, <1>4

\* A cycle, whether it keeps its held record or drops it.
LEMMA CyclesShow ==
  ASSUME TailInv, ShowInv, Cycle \/ RefuseHeld
  PROVE  ShowInv'
<1>1. /\ pc = "cycle" /\ pc' = "poll" /\ ended' = ended
      /\ \E left \in {SubSeq(buffer, CompleteSpan(buffer) + 1, Len(buffer)), <<>>} : DrivePrefix(left)
  BY DEF Cycle, RefuseHeld
<1>2. ~Over /\ ~Over'
  BY <1>1 DEF Over
<1>3. FollowTyped /\ Showing
  BY <1>2 DEF TailInv, ShowInv
<1>4. Showing'
  BY <1>1, <1>3, CycleShows
<1> QED
  BY <1>1, <1>2, <1>4, GoesOn

\* The refusal a piped stdin ends at.
LEMMA StdinRefusedShows ==
  ASSUME TailInv, ShowInv, StdinRefused
  PROVE  ShowInv'
<1>1. /\ pc = "cycle" /\ pc' = "failed" /\ UNCHANGED <<buffer, bases, ended>>
      /\ \/ UNCHANGED history
         \/ \E d \in Drives(SubSeq(buffer, 1, CompleteSpan(buffer))) : d.refused /\ history' = ShownBy(d)
  BY DEF StdinRefused
<1>2. ~Over /\ Over'
  BY <1>1 DEF Over
<1>3. FollowTyped /\ IsRun(history) /\ buffer \in Seq(Bytes) /\ Showing
  BY <1>2 DEF TailInv, FollowTyped, ShowInv
<1>4. ended' = ended /\ (ended # NIL => ShowsWhole(ended, ended.seen)) /\ baseOffset' = baseOffset
  BY <1>1 DEF ShowInv, ShownIsWholeRun, bases
<1>5. SUFFICES /\ history'.refused => ShowsWhole(history', history'.seen)
               /\ ~history'.refused => ShowsWhole(history', SubSeq(history'.seen, 1, baseOffset))
  <2>1. ShownIsWholeRun'
    BY <1>1, <1>4, <1>5 DEF ShownIsWholeRun
  <2> QED
    BY <1>2, <2>1 DEF ShowInv
<1>6. CASE UNCHANGED history
  <2>1. history.refused => ShowsWhole(history, history.seen)
    BY <1>3, RefusedShows
  <2>2. ShowsWhole(history, SubSeq(history.seen, 1, baseOffset))
    BY <1>3 DEF Showing, IsShown, ShowsWhole
  <2> QED
    BY <1>6, <2>1, <2>2
<1>7. CASE \E d \in Drives(SubSeq(buffer, 1, CompleteSpan(buffer))) : d.refused /\ history' = ShownBy(d)
  <2>1. PICK c : c = CompleteSpan(buffer)
    OBVIOUS
  <2>2. PICK d \in Drives(SubSeq(buffer, 1, c)) : d.refused /\ history' = ShownBy(d)
    BY <1>7, <2>1
  <2>3. PICK q : q = ShownBy(d)
    OBVIOUS
  <2>4. q.seen = history.seen /\ q.torn = history.torn /\ q.refused
    BY <1>3, <2>2, <2>3, ShownFields
  <2>5. ShowsWhole(q, q.seen)
    <3>1. SUFFICES ASSUME ~history.torn, MarkedOnce(history.seen) PROVE Shows(q, history.seen)
      BY <2>4 DEF ShowsWhole
    <3>2. c \in 0..Len(buffer) /\ (c # 0 => buffer[c].kind = "lf")
      BY <1>3, <2>1, CompleteSpanIs
    <3>3. IsSpan(c)
      BY <3>2 DEF IsSpan
    <3>4. PICK t, b : t = history.seen /\ b = baseOffset + c
      OBVIOUS
    <3>5. HasShown(q) /\ Shows(q, SubSeq(t, 1, b))
      BY <1>3, <2>2, <2>3, <3>1, <3>3, <3>4, DriveShows
    <3>6. /\ Stretch(buffer, t, baseOffset) /\ (baseOffset = 0 \/ t[baseOffset].kind = "lf")
          /\ baseRecord = EndsIn(t, baseOffset)
      BY <1>3, <3>1, <3>4 DEF Showing, IsShown
    <3>7. /\ t \in Seq(Bytes) /\ baseOffset \in Nat /\ baseOffset + Len(buffer) <= Len(t)
          /\ Len(t) \in Nat /\ Len(buffer) \in Nat
          /\ \A j \in 1..Len(buffer) : buffer[j] = t[baseOffset + j]
      BY <3>6 DEF Stretch
    <3>8. b \in 0..Len(t) /\ c \in Nat
      BY <3>2, <3>4, <3>7
    <3>9. b = 0 \/ t[b].kind = "lf"
      <4>1. CASE c = 0
        <5>1. b = baseOffset
          BY <3>4, <3>7, <4>1
        <5> QED
          BY <3>6, <5>1
      <4>2. CASE c # 0
        <5>1. c \in 1..Len(buffer) /\ buffer[c].kind = "lf"
          BY <3>2, <4>2
        <5> QED
          BY <3>4, <3>7, <5>1
      <4> QED
        BY <4>1, <4>2
    <3>10. MarkedOnce(t)
      BY <3>1, <3>4
    <3>11. Shows(q, t)
      BY <2>4, <3>5, <3>7, <3>8, <3>9, <3>10, ShowsOfMore
    <3> QED
      BY <3>4, <3>11
  <2> QED
    BY <2>2, <2>3, <2>4, <2>5
<1> QED
  BY <1>1, <1>6, <1>7

\* The old stream's last drive, and the new stream.
LEMMA RotatedShows ==
  ASSUME TailInv, ShowInv, Rotated
  PROVE  ShowInv'
<1>1. /\ pc = "rotated" /\ pc' = "poll"
      /\ history' = NewRun /\ buffer' = <<>> /\ baseOffset' = 0 /\ baseRecord' = 0
      /\ \E d \in Drives(buffer) : ended' = ShownBy(d)
  BY DEF Rotated
<1>2. ~Over /\ ~Over'
  BY <1>1 DEF Over
<1>3. FollowTyped /\ Showing
  BY <1>2 DEF TailInv, ShowInv
<1>4. Showing'
  BY <1>1, FreshShows DEF Showing
<1>5. ShowsWhole(ended', ended'.seen)
  BY <1>1, <1>3, LastDriveShows
<1>6. ShowsWhole(history', SubSeq(history'.seen, 1, baseOffset'))
  BY <1>4 DEF Showing, IsShown, ShowsWhole
<1>7. ShownIsWholeRun'
  BY <1>1, <1>5, <1>6 DEF ShownIsWholeRun
<1> QED
  BY <1>4, <1>7 DEF ShowInv

\* The end of a pipe.
LEMMA EofShows ==
  ASSUME TailInv, ShowInv, Eof
  PROVE  ShowInv'
<1>1. /\ pc = "eof" /\ UNCHANGED <<buffer, bases, ended>>
      /\ \E d \in Drives(buffer) : /\ history' = ShownBy(d)
                                   /\ pc' \in {"reported", "served"} \/ (pc' = "failed" /\ d.refused)
  BY DEF Eof
<1>2. PICK d \in Drives(buffer) : /\ history' = ShownBy(d)
                                  /\ pc' \in {"reported", "served"} \/ (pc' = "failed" /\ d.refused)
  BY <1>1
<1>3. ~Over /\ Over'
  BY <1>1, <1>2 DEF Over
<1>4. FollowTyped /\ IsRun(history) /\ Showing
  BY <1>3 DEF TailInv, FollowTyped, ShowInv
<1>5. ShowsWhole(history', history'.seen)
  BY <1>2, <1>4, LastDriveShows
<1>6. d.refused => history'.refused
  BY <1>2, <1>4, ShownFields
<1>7. ended' = ended /\ (ended # NIL => ShowsWhole(ended, ended.seen))
  BY <1>1 DEF ShowInv, ShownIsWholeRun
<1>8. ShownIsWholeRun'
  BY <1>2, <1>5, <1>6, <1>7 DEF ShownIsWholeRun
<1> QED
  BY <1>3, <1>8 DEF ShowInv

\* Nothing was shown of nothing.
LEMMA ShowInvAtFirst == FollowInit => ShowInv
<1> SUFFICES ASSUME FollowInit PROVE ShowInv
  OBVIOUS
<1>1. /\ history = NewRun /\ buffer = <<>> /\ baseOffset = 0 /\ baseRecord = 0 /\ ended = NIL
      /\ pc = "poll"
  BY DEF FollowInit
<1>2. Showing
  BY <1>1, FreshShows DEF Showing
<1>3. ShowsWhole(history, SubSeq(history.seen, 1, baseOffset))
  BY <1>2 DEF Showing, IsShown, ShowsWhole
<1>4. ShownIsWholeRun
  BY <1>1, <1>3 DEF ShownIsWholeRun
<1> QED
  BY <1>2, <1>4 DEF ShowInv

\* Every step keeps it.
LEMMA ShowInvKept == TailInv /\ ShowInv /\ [FollowNext]_followVars => ShowInv'
<1> SUFFICES ASSUME TailInv, ShowInv, [FollowNext]_followVars PROVE ShowInv'
  OBVIOUS
<1>1. CASE World
  <2>1. UNCHANGED follower
    BY <1>1 DEF World, Write, Truncate, Rename, Create, Reopen, Close
  <2>2. UNCHANGED <<history, buffer, bases, ended>> /\ pc' = pc
    BY <2>1 DEF follower
  <2> QED
    BY <2>2, ShownStays
<1>2. CASE Follow
  <2>1. CASE PollPath
    BY <2>1, PollShows
  <2>2. CASE Drain \/ Read \/ ReadPipe
    BY <2>2, ReadShows
  <2>3. CASE ReopenPath
    BY <2>3, ReopenShows
  <2>4. CASE Size
    BY <2>4, SizeShows
  <2>5. CASE Cycle \/ RefuseHeld
    BY <2>5, CyclesShow
  <2>6. CASE StdinRefused
    BY <2>6, StdinRefusedShows
  <2>7. CASE Rotated
    BY <2>7, RotatedShows
  <2>8. CASE Eof
    BY <2>8, EofShows
  <2> QED
    BY <1>2, <2>1, <2>2, <2>3, <2>4, <2>5, <2>6, <2>7, <2>8 DEF Follow
<1>3. CASE UNCHANGED followVars
  <2>1. UNCHANGED <<history, buffer, bases, ended>> /\ pc' = pc
    BY <1>3 DEF followVars
  <2> QED
    BY <2>1, ShownStays
<1> QED
  BY <1>1, <1>2, <1>3 DEF FollowNext

\* --follow is an input-path change and no other: however the bytes of a stream came
\* in, what the live routes (run in follow.rs, drive_range and CycleTranslateSink in
\* record.rs) have shown of it is what one drive over it shows, values, codes and
\* absolute positions alike, and of a stream with a refused cycle some of that in order;
\* for every writer, rotation, truncation, chunk and cap.
THEOREM ShownIsTheWholeRun == FollowSpec => []ShownIsWholeRun
<1>1. ShowInv => ShownIsWholeRun
  BY DEF ShowInv
<1> QED
  BY <1>1, TailInvHolds, ShowInvAtFirst, ShowInvKept, PTL DEF FollowSpec

=============================================================================
