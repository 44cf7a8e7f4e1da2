---------------------------- MODULE FilterMeaning ----------------------------
(***************************************************************************)
(* What a jq filter means, independently of how the engine runs it: Answer *)
(* gives the ordered outputs of a filter and how it ends, as the documents *)
(* of the node families say, with no frame, continuation or barrier in     *)
(* sight.  It is recursive over the filter, so only TLC evaluates it.      *)
(***************************************************************************)
EXTENDS FilterNodes

-----------------------------------------------------------------------------
(* Answers: the outputs in order, then Fine or the value raised.           *)
Nothing == [outs |-> <<>>, end |-> Fine]
Just(v) == [outs |-> <<v>>, end |-> Fine]
Raise(v) == [outs |-> <<>>, end |-> v]

(* What a does, with each of its outputs replaced by what F makes of it.   *)
Then(a, F(_)) ==
  LET step(acc, v) == IF acc.end # Fine THEN acc
                      ELSE LET more == F(v) IN [outs |-> acc.outs \o more.outs, end |-> more.end]
      all == FoldLeft(step, Nothing, a.outs)
  IN IF all.end # Fine THEN all ELSE [all EXCEPT !.end = a.end]

Counted(kind, count, a) ==
  IF count.kind # "num" THEN IF a.outs = <<>> THEN a ELSE Raise(Text)
  ELSE LET n == count.n IN
       CASE kind = "limit" -> IF Len(a.outs) < n THEN a
                              ELSE [outs |-> SubSeq(a.outs, 1, n), end |-> Fine]
         [] kind = "skip"  -> [a EXCEPT !.outs = SubSeq(@, n + 1, Len(@))]
         [] kind = "nth"   -> IF Len(a.outs) > n THEN Just(a.outs[n + 1]) ELSE Raise(a.end)

RECURSIVE Answer(_, _, _, _)

(* One fold of reduce or foreach from one initial state: an update that    *)
(* emits nothing leaves null, and the last output is the next state.       *)
Folded(filter, at, init, source, env, n) ==
  LET item(acc, x) ==
        IF acc.end # Fine THEN acc ELSE
        LET bound == (at :> x) @@ env
            new == Answer(filter, at \o <<"update">>, acc.state, bound)
            shown == IF "extract" \in DOMAIN n
                     THEN Then(new, LAMBDA s : Answer(filter, at \o <<"extract">>, s, bound))
                     ELSE new
            told == IF n.op = "foreach" THEN shown ELSE [new EXCEPT !.outs = <<>>]
        IN [outs |-> acc.outs \o told.outs, end |-> told.end,
            state |-> IF new.outs = <<>> THEN Null ELSE Last(new.outs)]
      all == FoldLeft(item, [outs |-> <<>>, end |-> Fine, state |-> init], source.outs)
      end == IF all.end = Fine THEN source.end ELSE all.end
  IN IF n.op = "reduce" /\ end = Fine THEN Just(all.state)
     ELSE [outs |-> all.outs, end |-> end]

Answer(filter, at, v, env) ==
  LET n == Node(filter, at)
      kid(child, w) == Answer(filter, at \o <<child>>, w, env)
      logical(short) ==
        Then(kid("left", v), LAMBDA l :
             IF Truthy(l) = short THEN Just(Bool(short))
             ELSE Then(kid("right", v), LAMBDA r : Just(Bool(Truthy(r)))))
  IN CASE n.op = "dot" -> Just(v)
       [] n.op = "lit" -> Just(n.value)
       [] n.op = "var" -> Just(env[SlotOf(filter, at)])
       [] n.op = "empty" -> Nothing
       [] n.op = "each" -> IF v.kind = "array" THEN [outs |-> v.of, end |-> Fine] ELSE Raise(Text)
       [] n.op = "error" -> Raise(v)
       [] n.op = "break" -> Raise(Marker(LabelOf(filter, at)))
       [] n.op = "raise" -> LET a == kid("body", v) IN IF a.outs = <<>> THEN a ELSE Raise(Head(a.outs))
       [] n.op = "comma" -> Then([Nothing EXCEPT !.outs = <<"left", "right">>],
                                 LAMBDA side : kid(side, v))
       [] n.op = "pipe" -> Then(kid("left", v), LAMBDA w : kid("right", w))
       [] n.op = "collect" -> LET a == kid("body", v) IN IF a.end = Fine THEN Just(Array(a.outs)) ELSE Raise(a.end)
       [] n.op = "try" -> LET a == kid("body", v) IN
            CASE a.end = Fine -> a
              [] "handler" \in DOMAIN n -> LET h == kid("handler", a.end)
                                           IN [outs |-> a.outs \o h.outs, end |-> h.end]
              [] OTHER -> [a EXCEPT !.end = Fine]
       [] n.op = "label" -> LET a == kid("body", v) IN
            IF a.end = Marker(at) THEN [a EXCEPT !.end = Fine] ELSE a
       [] n.op = "if" -> Then(kid("cond", v), LAMBDA c : kid(IF Truthy(c) THEN "then" ELSE "else", v))
       [] n.op = "select" -> Then(kid("body", v), LAMBDA c : IF Truthy(c) THEN Just(v) ELSE Nothing)
       [] n.op = "alt" -> LET a == kid("left", v)
                              kept == [a EXCEPT !.outs = SelectSeq(@, Truthy)]
                          IN IF kept = Nothing THEN kid("right", v) ELSE kept
       [] n.op = "and" -> logical(FALSE)
       [] n.op = "or" -> logical(TRUE)
       [] n.op \in Binaries ->
            Then(kid("right", v), LAMBDA r : Then(kid("left", v), LAMBDA l :
                 IF Apply(n.op, l, r) = Fine THEN Raise(Text) ELSE Just(Apply(n.op, l, r))))
       [] n.op = "bind" -> Then(kid("source", v), LAMBDA x :
                                Answer(filter, at \o <<"body">>, v, (at :> x) @@ env))
       [] n.op \in {"reduce", "foreach"} ->
            Then(kid("init", v), LAMBDA s : Folded(filter, at, s, kid("source", v), env, n))
       [] n.op = "counted" -> Counted(n.kind, env[SlotOf(filter, at)], kid("source", v))

(* The whole meaning of a filter over an input.                            *)
Meaning(filter, input) == Answer(filter, <<>>, input, <<>>)
=============================================================================
