---------------------------- MODULE MCFollowTail -----------------------------
(* A value; one behind a mark; a record the program raises on; a malformed   *)
(* one; one longer than the cap.                                             *)
EXTENDS FollowTail

Value == <<"open", "close", "lf">>
Marked == <<"bom", "open", "close", "lf">>
Raise == <<"raise", "lf">>
Broken == <<"close", "lf">>
Long == <<"open", "open", "open", "lf">>

MCTexts == [file |-> {Value, Broken, Long}, pipe |-> {Value, Marked, Raise, Broken, Long},
            stdin |-> {Value, Marked, Raise, Broken, Long}]
=============================================================================
