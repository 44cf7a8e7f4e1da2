---------------------------- MODULE MCValueShards ----------------------------
(* The adjacent-value scan for TLC: every input made of up to four pieces,   *)
(* and every input of up to four bytes.  The pieces hold what a cut could    *)
(* mistake: brackets and quotes inside strings, escapes, bare words, nesting *)
(* and text no value can hold.                                               *)
EXTENDS ValueShards

Pieces == { <<"open", "close">>,
            <<"open", "open", "digit", "close", "close">>,
            <<"open", "quote", "close", "quote", "close">>,
            <<"open", "quote", "escape", "quote", "close", "quote", "close">>,
            <<"quote", "open", "escape", "escape", "quote">>,
            <<"digit">>,
            <<"space">>,
            <<"open">>,
            <<"close">>,
            <<"quote">> }

MCInputs ==
  {FlattenSeq(p) : p \in UNION {[1..n -> Pieces] : n \in 0..4}}
  \cup UNION {[1..n -> Bytes] : n \in 1..4}

=============================================================================
