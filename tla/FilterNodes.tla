----------------------------- MODULE FilterNodes -----------------------------
(***************************************************************************)
(* What the engine and the meaning of a jq filter share: its values, its   *)
(* operators, and the tree of its nodes.  A node is named by its path from *)
(* the root (a sequence of child names), which stands for the arena index  *)
(* and, for a binder or a label, for the slot its occurrence owns.         *)
(***************************************************************************)
EXTENDS Integers, Sequences, FiniteSets, SequencesExt, FiniteSetsExt, TLC

-----------------------------------------------------------------------------
(* Values, told apart as far as truth, `+` and the order by kind need.     *)
Null == [kind |-> "null"]
Bool(b) == [kind |-> "bool", b |-> b]
Num(n) == [kind |-> "num", n |-> n]
Text == [kind |-> "text"]                     \* every message the engine words
Array(s) == [kind |-> "array", of |-> s]
Marker(label) == [kind |-> "marker", label |-> label]   \* {"__jq": slot}
Fine == [kind |-> "fine"]                     \* not a value: no error

Truthy(v) == v # Null /\ v # Bool(FALSE)

(* null < false < true < numbers < strings < arrays < objects *)
Band(v) == CASE v.kind = "null" -> 0 [] v.kind = "bool" -> 1 [] v.kind = "num" -> 2
             [] v.kind = "text" -> 3 [] v.kind = "array" -> 4 [] OTHER -> 5

Above(v, w) == \/ Band(v) > Band(w)
               \/ v.kind = "num" /\ w.kind = "num" /\ v.n > w.n
               \/ v.kind = "bool" /\ w.kind = "bool" /\ v.b /\ ~w.b

(* One pair at the operator: the value, or Fine where the pair raises.     *)
Apply(op, l, r) ==
  CASE op = "gt" -> Bool(Above(l, r))
    [] op = "lt" -> Bool(Above(r, l))
    [] op = "eq" -> Bool(l = r)
    [] op = "plus" /\ r = Null -> l
    [] op = "plus" /\ l = Null -> r
    [] op = "plus" /\ l.kind = "num" /\ r.kind = "num" -> Num(l.n + r.n)
    [] op = "plus" /\ l.kind = "array" /\ r.kind = "array" -> Array(l.of \o r.of)
    [] op = "plus" /\ l.kind = "text" /\ r.kind = "text" -> Text
    [] OTHER -> Fine

(* The pairs the reference answers with a value a query rarely means: the  *)
(* mismatch dial's additive-identity and cross-kind cells.                 *)
Mismatched(op, l, r) == \/ op = "plus" /\ (l = Null \/ r = Null)
                        \/ op \in {"gt", "lt"} /\ Band(l) # Band(r)

-----------------------------------------------------------------------------
(* Nodes.                                                                  *)
Binaries == {"plus", "gt", "lt", "eq"}
Node(filter, at) == FoldLeft(LAMBDA n, child : n[child], filter, at)

(* The innermost enclosing node of a kind that has this one in one of the  *)
(* given children: the slot a variable, a count or a break resolves to.    *)
Enclosing(filter, at, ops, children) ==
  SubSeq(at, 1, Max({i \in 0..(Len(at) - 1) :
                       /\ Node(filter, SubSeq(at, 1, i)).op \in ops
                       /\ at[i + 1] \in children}))

SlotOf(filter, at) == Enclosing(filter, at, {"bind", "reduce", "foreach"},
                                {"body", "update", "extract"})
LabelOf(filter, at) == Enclosing(filter, at, {"label"}, {"body"})
=============================================================================
