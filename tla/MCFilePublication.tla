-------------------------- MODULE MCFilePublication --------------------------
(***************************************************************************)
(* Two processes over two destinations, one of which exists.               *)
(***************************************************************************)
EXTENDS FilePublication, TLC

CONSTANTS jqf1, jqf2, conf, data, inode1, inode2

Plan(route, atomic, items) == [route |-> route, atomic |-> atomic, items |-> items]

Output == Plan("whole", TRUE, <<conf>>)
InPlace == Plan("whole", TRUE, <<conf, data>>)
Edit == Plan("edit", TRUE, <<conf>>)
Split == Plan("split", TRUE, <<data, conf>>)
Twice == Plan("split", TRUE, <<data, data>>)
Direct == Plan("whole", FALSE, <<data>>)
Nothing == Plan("whole", TRUE, <<>>)
DirectEdit == Plan("edit", FALSE, <<data>>)

Pair(x, y) == (jqf1 :> x) @@ (jqf2 :> y)
MCPlans == {Pair(Output, Edit), Pair(InPlace, Nothing), Pair(Direct, DirectEdit),
            Pair(Split, Nothing), Pair(Twice, Nothing)}
MCFresh == {inode1, inode2}

Symmetry == Permutations(MCFresh)
=============================================================================
