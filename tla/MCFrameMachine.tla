--------------------------- MODULE MCFrameMachine ---------------------------
(***************************************************************************)
(* Filters for FrameMachine: every node family over every small operand,   *)
(* and every node family over every one of those in each operand position, *)
(* with the values kept so few that the runs stay short.                   *)
(***************************************************************************)
EXTENDS MachineMeaning

Lit(v) == [op |-> "lit", value |-> v]
Op0(op) == [op |-> op]
Op1(op, f) == [op |-> op, body |-> f]
Op2(op, f, g) == [op |-> op, left |-> f, right |-> g]
If(c, f, g) == [op |-> "if", cond |-> c, then |-> f, else |-> g]
Bind(f, g) == [op |-> "bind", source |-> f, body |-> g]
Reduce(f, s, u) == [op |-> "reduce", source |-> f, init |-> s, update |-> u]
Foreach(f, s, u) == [op |-> "foreach", source |-> f, init |-> s, update |-> u]
ForeachInto(f, s, u, e) == [op |-> "foreach", source |-> f, init |-> s, update |-> u, extract |-> e]
Catch(f, h) == [op |-> "try", body |-> f, handler |-> h]

(* limit, skip and nth lower to a binder of the count around the countdown *)
(* (compile/lower/call.rs); first and its like to a break after one.       *)
Count(kind, f) == [op |-> "counted", kind |-> kind, source |-> f]
Var == Op0("var")
Bad == Op1("raise", Lit(Text))
Limit(n, f) == Bind(n, If(Op2("gt", Var, Lit(Num(0))), Count("limit", f),
                          If(Op2("eq", Var, Lit(Num(0))), Op0("empty"), Bad)))
Past(kind, n, f) == Bind(n, If(Op2("lt", Var, Lit(Num(0))), Bad, Count(kind, f)))
First(f) == Op1("label", Op2("pipe", f, Op2("comma", Op0("dot"), Op0("break"))))

Dot == Op0("dot")
One == Lit(Num(1))
Two == Lit(Num(2))
Nil == Lit(Null)
Gen == Op2("comma", One, Two)                   \* more than one output
Falls == Op2("comma", One, Op0("error"))        \* an output, then a raise

(* Each family with f in one of its operand positions and g in the others. *)
Around(f, g) ==
  << Op1("collect", f), Op1("select", f), Op1("raise", f), Op1("try", f), Op1("label", f), First(f),
     Op2("comma", f, g), Op2("pipe", f, g), Op2("alt", f, g), Op2("and", f, g), Op2("plus", f, g),
     Op2("comma", g, f), Op2("pipe", g, f), Op2("alt", g, f), Op2("or", g, f), Op2("plus", g, f),
     Op2("gt", g, f), If(f, g, Nil), If(g, f, Dot), If(Nil, g, f), Catch(f, g), Catch(g, f),
     Bind(f, g), Bind(g, f), Bind(f, Op2("plus", Var, g)), Bind(g, Op2("plus", f, Var)),
     Reduce(f, g, Op2("plus", Dot, Var)), Reduce(g, f, Op2("plus", Var, Dot)), Reduce(Gen, g, f),
     Foreach(f, g, Op2("plus", Var, Dot)), Foreach(g, f, Dot), Foreach(Gen, g, f),
     ForeachInto(Gen, g, f, Dot), ForeachInto(Gen, Dot, g, f),
     Limit(f, g), Limit(g, f), Past("skip", g, f), Past("nth", g, f), Past("skip", f, g) >>
Shapes == DOMAIN Around(Dot, Dot)

Atoms == {Dot, One, Nil, Op0("empty"), Op0("error"), Op0("each"), Gen}
Tiny == {One, Gen, Falls}
Small == Atoms \union {Around(f, g)[k] : f \in Atoms, g \in Tiny, k \in Shapes}
MCFilters == {Around(f, g)[k] : f \in Small, g \in Tiny, k \in Shapes}
MCInputs == {Array(<<Num(1), Null>>)}

Handled == {Op1("try", Op2("comma", Op2("alt", One, Two), Op2("plus", Nil, One)))}
=============================================================================
