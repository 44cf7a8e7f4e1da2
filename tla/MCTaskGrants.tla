---------------------------- MODULE MCTaskGrants ----------------------------
(* Two envelopes of five bytes, one of them for the worker's own ledger and *)
(* two for its result, under a ceiling that fits both and little else.    *)
EXTENDS TaskGrants, TLC

MCEnvelope == [retained |-> 2, working |-> 1, pendingIo |-> 0, output |-> 2]

\* Bound: frees of storage that was never charged come while at most one envelope
\* is out.
Out(g) == worker[g] # "none" \/ hold[g] # NONE \/ result[g] # NONE
ForeignBound == (\E a \in Accounts : foreign[a]) => Cardinality({g \in Grants : Out(g)}) <= 1

Symmetry == Permutations(Grants)
=============================================================================
