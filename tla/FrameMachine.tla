----------------------------- MODULE FrameMachine ----------------------------
(***************************************************************************)
(* The engine's frame machine (jqf-engine/src/exec): one pending task and  *)
(* a stack of continuation frames run a filter over one input.  A value is *)
(* routed through frames[1..cont] to the topmost consumer; a raise walks   *)
(* down to a barrier whose out-continuation encloses it; a countdown cuts  *)
(* its source out of the middle of the stack.                              *)
(*                                                                         *)
(* A frame's `at` is the node whose graph it serves, `in` the dot it       *)
(* retains, `out` its out-continuation and `x` what else it holds (an      *)
(* array, a count, an operand, a state, a flag, the index of its source).  *)
(* Positions count from 1, so frames[0..cont] of the code is 1..cont.      *)
(***************************************************************************)
EXTENDS FilterNodes

CONSTANTS
  Filters,    \* the filters a run may be given
  Inputs      \* the input values a filter is run over

VARIABLES filter, input, m

vars == <<filter, input, m>>

Idle == [task |-> "none"]
Frame(kind, at, in, out, x) == [kind |-> kind, at |-> at, in |-> in, out |-> out, x |-> x]

Seed == [frames |-> <<>>, pending |-> [task |-> "eval", at |-> <<>>, in |-> input, cont |-> 0],
         env |-> <<>>, error |-> Fine, raiseCont |-> 0, depth |-> 0,
         told |-> <<>>, noted |-> {}, outcome |-> "running"]

Init == /\ filter \in Filters
        /\ input \in Inputs
        /\ m = Seed

-----------------------------------------------------------------------------
(* The stack.                                                              *)
Depth(g) == Len(g.frames)
Top(g) == Last(g.frames)
Push(g, f) == [g EXCEPT !.frames = Append(@, f)]
Hold(g, i, x) == [g EXCEPT !.frames[i].x = x]
Eval(g, at, in, cont) == [g EXCEPT !.pending = [task |-> "eval", at |-> at, in |-> in, cont |-> cont]]
Later(g, v, cont) == [g EXCEPT !.pending = [task |-> "route", in |-> v, cont |-> cont]]
Fail(g, v, cont) == [g EXCEPT !.error = v, !.raiseCont = cont]

(* Evaluates a graph into the frame just pushed.                           *)
Into(g, f, at, in) == Eval(Push(g, f), at, in, Depth(g) + 1)

(* pop_frame_releasing, down to n frames: a try or an alternative leaves   *)
(* the suppression region it entered, which stays at zero.                 *)
Regions(s) == Cardinality({i \in DOMAIN s : s[i].kind \in {"Try", "AlternativeLeft"}})
PopToOnlyTry(g, n) ==
  [g EXCEPT !.frames = SubSeq(@, 1, n),
            !.depth = Max({0, @ - Cardinality({i \in (n + 1)..Depth(g) : g.frames[i].kind = "Try"})})]
PopTo(g, n) ==
  [g EXCEPT !.frames = SubSeq(@, 1, n),
            !.depth = Max({0, @ - Regions(SubSeq(g.frames, n + 1, Depth(g)))})]

(* The frames that only pop when they reach the top.                       *)
Spent == {"FlatMapBody", "SelectBody", "BinaryRight", "BinaryLeft", "ConditionalBody",
          "LogicalLeft", "LogicalRight", "Try", "Label", "ErrorArg", "BindBody", "ReduceInit",
          "ForeachInit", "ForeachSource", "ReduceUpdate", "ForeachUpdate", "Counted"}

TrimSpent(g, floor) ==
  PopTo(g, Max({Min({floor, Depth(g)})} \union {i \in 1..Depth(g) : g.frames[i].kind \notin Spent}))

(* No frame above this one can produce: its retained dot may be moved out. *)
ProducerSpentAbove(g, i) == \A j \in (i + 1)..Depth(g) : g.frames[j].kind = "FlatMapBody"
Retained(g, i) == IF ProducerSpentAbove(g, i) THEN [g EXCEPT !.frames[i].in = Null] ELSE g

-----------------------------------------------------------------------------
(* Routing a produced value.                                               *)
Consumers == (Spent \ {"Try", "Label"}) \union {"Collect", "AlternativeLeft", "ReduceSource"}

(* One operator pair: its mismatch cell is noted outside every suppression *)
(* region, and a pair the operator refuses fails at the operator's place.  *)
Pair(g, at, l, r, out) ==
  LET op == Node(filter, at).op
      noted == IF Mismatched(op, l, r) /\ g.depth = 0 THEN [g EXCEPT !.noted = @ \union {at}] ELSE g
  IN IF Apply(op, l, r) = Fine THEN Fail(noted, Text, out) ELSE noted

(* The countdown pays one unit for the item, and answers what to do.       *)
Paid(g, i) ==
  LET kind == Node(filter, g.frames[i].at).kind
      left == g.frames[i].x.n
      less == IF left > 0 THEN left - 1 ELSE 0
  IN [state |-> Hold(g, i, Num(less)),
      verdict |-> CASE kind = "limit" -> IF less = 0 THEN "cut" ELSE "publish"
                    [] left > 0 -> "withhold"
                    [] kind = "skip" -> "publish"
                    [] kind = "nth" -> "cut"]

(* Drops the countdown and its source, keeping the frames its consumer     *)
(* pushed, and reconciles the task the consumer left pending.              *)
CutWithoutClamp(g, i, end) ==
  LET parked == SubSeq(g.frames, end + 1, Depth(g))
      base == PopTo([g EXCEPT !.frames = SubSeq(@, 1, Min({end, Depth(g)}))], Min({i - 1, end, Depth(g)}))
  IN [base EXCEPT !.frames = @ \o parked]
CutCountedSource(g, i, end) ==
  LET parked == SubSeq(g.frames, end + 1, Depth(g))
      base == PopTo([g EXCEPT !.frames = SubSeq(@, 1, Min({end, Depth(g)}))], Min({i - 1, end, Depth(g)}))
      kept == [base EXCEPT !.frames = @ \o parked]
  IN IF kept.pending = Idle THEN kept ELSE [kept EXCEPT !.pending.cont = Min({@, Depth(kept)})]

(* A value on its way down the stack: the machine and the value, how far   *)
(* down it already is, the countdowns it spent (and where their sources    *)
(* ended), and whether it is still under way.  The spent frames at or      *)
(* above its continuation go before a consumer pushes on top of them.      *)
Sent(g, v, cont) == [g |-> TrimSpent(g, cont), v |-> v, cont |-> cont, cuts |-> <<>>, open |-> TRUE]
Pass(w, g, v, cont) == [w EXCEPT !.g = TrimSpent(g, cont), !.v = v, !.cont = cont]
Stop(w, g) == [w EXCEPT !.g = g, !.open = FALSE]
Spend(cuts, i, end) == [c \in DOMAIN cuts \union {i} |-> IF c = i THEN end ELSE cuts[c]]

ConsumeCounted(w, i) ==
  LET g == w.g
      f == g.frames[i]
      paid == Paid(g, i)
      on == Pass(w, paid.state, w.v, f.out)
  IN CASE f.x.kind # "num" -> Stop(w, Fail(g, Text, f.out))
       [] f.x.kind = "num" /\ paid.verdict = "withhold" -> Stop(w, paid.state)
       [] f.x.kind = "num" /\ paid.verdict = "publish" -> on
       [] OTHER -> [on EXCEPT !.cuts = Spend(@, i, Depth(g))]

(* What the consumer at i does with the value.                             *)
Consume(w, i) ==
  LET g == w.g
      v == w.v
      f == g.frames[i]
      n == Node(filter, f.at)
      kid(child) == f.at \o <<child>>
  IN CASE f.kind = "FlatMapBody" -> Stop(w, Eval(g, kid("right"), v, f.out))
       [] f.kind = "Collect" -> Stop(w, Hold(g, i, Append(f.x, v)))
       [] f.kind = "SelectBody" -> IF Truthy(v) THEN Pass(w, g, f.in, f.out) ELSE Stop(w, g)
       [] f.kind = "Counted" -> ConsumeCounted(w, i)
       [] f.kind = "BinaryRight" -> Stop(w, Into(Retained(g, i), Frame("BinaryLeft", f.at, Null, f.out, v),
                                                 kid("left"), f.in))
       [] f.kind = "BinaryLeft" -> LET done == Pair(g, f.at, v, f.x, f.out) IN
            IF done.error # Fine THEN Stop(w, done) ELSE Pass(w, done, Apply(n.op, v, f.x), f.out)
       [] f.kind = "ConditionalBody" ->
            Stop(w, Eval(g, kid(IF Truthy(v) THEN "then" ELSE "else"), f.in, f.out))
       [] f.kind = "AlternativeLeft" -> IF Truthy(v)
            THEN Pass(w, [Hold(g, i, TRUE) EXCEPT !.depth = Max({0, @ - 1})], v, f.out)
            ELSE Stop(w, g)
       [] f.kind = "LogicalLeft" -> IF Truthy(v) = (n.op = "or")
            THEN Pass(w, g, Bool(Truthy(v)), f.out)
            ELSE Stop(w, Into(g, Frame("LogicalRight", f.at, Null, f.out, Null), kid("right"), f.in))
       [] f.kind = "LogicalRight" -> Pass(w, g, Bool(Truthy(v)), f.out)
       [] f.kind = "ErrorArg" -> Stop(w, Fail(g, v, f.out))
       [] f.kind = "BindBody" -> Stop(w, Eval([Retained(g, i) EXCEPT !.env = (f.at :> v) @@ @],
                                              kid("body"), f.in, f.out))
       [] f.kind \in {"ReduceInit", "ForeachInit"} ->
            Stop(w, Into(Retained(g, i),
                         Frame(IF n.op = "reduce" THEN "ReduceSource" ELSE "ForeachSource",
                               f.at, Null, f.out, v), kid("source"), f.in))
       [] f.kind \in {"ReduceSource", "ForeachSource"} ->
            Stop(w, Into([Hold(g, i, Null) EXCEPT !.env = (f.at :> v) @@ @],
                         Frame(IF n.op = "reduce" THEN "ReduceUpdate" ELSE "ForeachUpdate",
                               f.at, Null, f.out, i), kid("update"), f.x))
       [] f.kind = "ReduceUpdate" -> Stop(w, Hold(g, f.x, v))
       [] f.kind = "ForeachUpdate" -> IF "extract" \in DOMAIN n
            THEN Stop(w, Eval(Hold(g, f.x, v), kid("extract"), v, f.out))
            ELSE Pass(w, Hold(g, f.x, v), v, f.out)

(* The walk comes to the frame at i.  A consumer that routes on continues  *)
(* the walk below itself.                                                  *)
Visit(w, i) ==
  IF w.open /\ i <= w.cont /\ i <= Depth(w.g) /\ w.g.frames[i].kind \in Consumers
  THEN Consume(w, i)
  ELSE w

(* Down the stack, from the top to the bottom.                             *)
Walk(g, v, cont) ==
  LET way[i \in 0..Depth(g)] == IF i = Depth(g) THEN Sent(g, v, cont) ELSE Visit(way[i + 1], i + 1)
  IN way[0]

(* A value no consumer took is an output.                                  *)
Arrived(w) == IF w.open THEN [w.g EXCEPT !.told = Append(@, w.v)] ELSE w.g

(* The countdowns it spent are cut, the innermost first, unless it raised. *)
Cut(g, cuts, i) == IF i \in DOMAIN cuts THEN CutCountedSource(g, i, cuts[i]) ELSE g

CutAll(g, cuts, top) ==
  LET back[i \in 0..top] == IF i = 0 THEN g ELSE Cut(back[i - 1], cuts, i)
  IN back[top]

Route(g, v, cont) ==
  LET w == Walk(g, v, cont)
  IN IF Arrived(w).error # Fine THEN Arrived(w) ELSE CutAll(Arrived(w), w.cuts, Depth(g))

-----------------------------------------------------------------------------
(* Raises.                                                                 *)

(* Where the operator that owns a frame routes: a raise that leaves the    *)
(* region above it is a failure of the whole operator.                     *)
Unclamped(g, i) == g.raiseCont
RaiseClamp(g, i) ==
  Min({g.raiseCont} \union {g.frames[j].out : j \in {k \in i..Depth(g) :
        g.frames[k].kind \notin {"Choice", "Each", "Try", "Label"}}})

Barriers(g) ==
  {i \in 1..Depth(g) : LET f == g.frames[i] IN
     \/ f.kind = "Label" /\ g.error = Marker(f.at)
     \/ f.kind = "Try" /\ f.out <= RaiseClamp(g, i)}

(* The barrier and all above it are popped before its handler is seeded.   *)
HandleRaise(g) ==
  IF g.error = Fine THEN g
  ELSE IF Barriers(g) = {} THEN [PopTo(g, 0) EXCEPT !.pending = Idle, !.outcome = "raised"]
  ELSE LET i == Max(Barriers(g))
           f == g.frames[i]
           n == Node(filter, f.at)
           caught == [PopTo(g, i - 1) EXCEPT !.pending = Idle, !.error = Fine]
       IN IF f.kind = "Try" /\ "handler" \in DOMAIN n
          THEN Eval(caught, f.at \o <<"handler">>, g.error, f.out)
          ELSE caught

-----------------------------------------------------------------------------
(* Tasks: one evaluator per node family.                                   *)
Evaluating(ops) == /\ m.outcome = "running"
                   /\ m.pending.task = "eval"
                   /\ Node(filter, m.pending.at).op \in ops

here == m.pending.at
node == Node(filter, here)
dot == m.pending.in
cont == m.pending.cont
taken == [m EXCEPT !.pending = Idle]
child(name) == here \o <<name>>

Step(g) == /\ m' = HandleRaise(g)
           /\ UNCHANGED <<filter, input>>

Opens(kind, x, name) == Step(Into(taken, Frame(kind, here, dot, cont, x), child(name), dot))

EvalStage == /\ Evaluating({"dot", "lit", "var"})
             /\ Step(Route(taken, CASE node.op = "dot" -> dot
                                    [] node.op = "lit" -> node.value
                                    [] node.op = "var" -> m.env[SlotOf(filter, here)], cont))

EvalEach == /\ Evaluating({"each"})
            /\ Step(IF dot.kind = "array" THEN Push(taken, Frame("Each", here, Null, cont, dot.of))
                    ELSE Fail(taken, Text, cont))

EvalEmpty == Evaluating({"empty"}) /\ Step(taken)
EvalErrorZero == Evaluating({"error"}) /\ Step(Fail(taken, dot, cont))
EvalBreak == Evaluating({"break"}) /\ Step(Fail(taken, Marker(LabelOf(filter, here)), cont))

EvalChoice == /\ Evaluating({"comma"})
              /\ Step(Eval(Push(taken, Frame("Choice", here, dot, cont, Null)), child("left"), dot, cont))

EvalFlatMap == Evaluating({"pipe"}) /\ Opens("FlatMapBody", Null, "left")
EvalCollect == Evaluating({"collect"}) /\ Opens("Collect", <<>>, "body")
EvalSelect == Evaluating({"select"}) /\ Opens("SelectBody", Null, "body")
EvalErrorArg == Evaluating({"raise"}) /\ Opens("ErrorArg", Null, "body")
EvalConditional == Evaluating({"if"}) /\ Opens("ConditionalBody", Null, "cond")
EvalLogical == Evaluating({"and", "or"}) /\ Opens("LogicalLeft", Null, "left")
EvalBind == Evaluating({"bind"}) /\ Opens("BindBody", Null, "source")
EvalReduce == Evaluating({"reduce"}) /\ Opens("ReduceInit", Null, "init")
EvalForeach == Evaluating({"foreach"}) /\ Opens("ForeachInit", Null, "init")
EvalCounted == Evaluating({"counted"}) /\ Opens("Counted", m.env[SlotOf(filter, here)], "source")

(* A try body and a label body route with the barrier's own continuation.  *)
EvalTry == /\ Evaluating({"try"})
           /\ Step(Eval([Push(taken, Frame("Try", here, Null, cont, Null)) EXCEPT !.depth = @ + 1],
                        child("body"), dot, cont))

EvalLabel == /\ Evaluating({"label"})
             /\ Step(Eval(Push(taken, Frame("Label", here, Null, cont, Null)), child("body"), dot, cont))

EvalAlternative ==
  /\ Evaluating({"alt"})
  /\ Step([Into(taken, Frame("AlternativeLeft", here, dot, cont, FALSE), child("left"), dot)
           EXCEPT !.depth = @ + 1])

(* A literal or variable right operand is paired at once: with the dot     *)
(* when that is the left operand, else by a BinaryLeft of its own.         *)
EvalBinary ==
  /\ Evaluating(Binaries)
  /\ LET right == Node(filter, child("right"))
         ready == right.op \in {"lit", "var"}
         r == IF right.op = "lit" THEN right.value ELSE m.env[SlotOf(filter, child("right"))]
     IN \/ /\ ready /\ Node(filter, child("left")).op = "dot"
           /\ LET done == Pair(taken, here, dot, r, cont)
              IN Step(IF done.error # Fine THEN done ELSE Route(done, Apply(node.op, dot, r), cont))
        \/ /\ ready /\ Node(filter, child("left")).op # "dot"
           /\ Opens("BinaryLeft", r, "left")
        \/ ~ready /\ Opens("BinaryRight", Null, "right")

RouteTask == /\ m.outcome = "running"
             /\ m.pending.task = "route"
             /\ Step(Route(taken, m.pending.in, m.pending.cont))

-----------------------------------------------------------------------------
(* With nothing pending the top frame moves: a producer emits or fires, an *)
(* accumulator publishes, a spent frame pops.                              *)
Topmost(kinds) == /\ m.outcome = "running"
                  /\ m.pending = Idle
                  /\ m.frames # <<>>
                  /\ Top(m).kind \in kinds

popped == PopTo(m, Depth(m) - 1)

Complete == /\ m.outcome = "running" /\ m.pending = Idle /\ m.frames = <<>>
            /\ Step([m EXCEPT !.outcome = "complete"])

FireChoice == /\ Topmost({"Choice"})
              /\ Step(Eval(popped, Top(m).at \o <<"right">>, Top(m).in, Top(m).out))

NextChild == /\ Topmost({"Each"})
             /\ Step(IF Top(m).x = <<>> THEN popped
                     ELSE Later(Hold(m, Depth(m), Tail(Top(m).x)), Head(Top(m).x), Top(m).out))

(* The alternative's fallback runs only if no truthy output passed.        *)
FinishAlternative ==
  /\ Topmost({"AlternativeLeft"})
  /\ Step(IF Top(m).x THEN popped ELSE Eval(popped, Top(m).at \o <<"right">>, Top(m).in, Top(m).out))

Publish == /\ Topmost({"Collect", "ReduceSource"})
           /\ Step(Later(popped, IF Top(m).kind = "Collect" THEN Array(Top(m).x) ELSE Top(m).x,
                         Top(m).out))

PopSpent == Topmost(Spent) /\ Step(popped)

-----------------------------------------------------------------------------
Next == \/ EvalStage \/ EvalEach \/ EvalEmpty \/ EvalErrorZero \/ EvalBreak
        \/ EvalChoice \/ EvalFlatMap \/ EvalCollect \/ EvalSelect \/ EvalErrorArg
        \/ EvalConditional \/ EvalLogical \/ EvalBind \/ EvalReduce \/ EvalForeach
        \/ EvalCounted \/ EvalTry \/ EvalLabel \/ EvalAlternative \/ EvalBinary \/ RouteTask
        \/ Complete \/ FireChoice \/ NextChild \/ FinishAlternative \/ Publish \/ PopSpent

Spec == Init /\ [][Next]_vars

-----------------------------------------------------------------------------
(* The stack stays addressable through trims, cuts and unwinds: the        *)
(* pending task and every frame route to frames below themselves, and a    *)
(* loop's update frame still names the frame that holds its state.         *)
StackIsSound ==
  /\ m.pending # Idle => m.pending.cont <= Depth(m)
  /\ \A i \in 1..Depth(m) :
       LET f == m.frames[i] IN
       /\ f.out < i
       /\ f.kind \in {"ReduceUpdate", "ForeachUpdate"} =>
            /\ f.x < i
            /\ m.frames[f.x].kind \in {"ReduceSource", "ForeachSource"}
            /\ m.frames[f.x].at = f.at

(* Every suppression region a run entered is left when the run ends, by    *)
(* whichever path its frame went, so that the next input of the request    *)
(* starts outside every region.                                            *)
RegionsClose == m.outcome # "running" => m.depth = 0

(* "A cell inside an Alternative operand or a try body ... fires no event  *)
(* under any position" (jqf-builtins/src/error/mismatch.rs:16-17), of try  *)
(* bodies.                                                                 *)
TryIsQuiet ==
  \A at \in m.noted : \A i \in 0..(Len(at) - 1) :
     ~(Node(filter, SubSeq(at, 1, i)).op = "try" /\ at[i + 1] = "body")
=============================================================================
