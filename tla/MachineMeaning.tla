--------------------------- MODULE MachineMeaning ----------------------------
(***************************************************************************)
(* The frame machine against the meaning of the filter it runs.            *)
(***************************************************************************)
EXTENDS FrameMachine, FilterMeaning

(* A run that ended published exactly the outputs the filter means, in     *)
(* order, and ended as it means to: no output lost or doubled by a trim or *)
(* a cut, no dot moved while it was still owed, no raise caught by the     *)
(* barrier of an operand that had already run or missed by its own.        *)
AnswersTheFilter ==
  m.outcome # "running" =>
    LET meant == Meaning(filter, input)
    IN /\ m.told = meant.outs
       /\ m.error = meant.end
=============================================================================
