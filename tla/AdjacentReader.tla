--------------------------- MODULE AdjacentReader ---------------------------
(***************************************************************************)
(* Serial's reading of a stream of adjacent JSON texts                     *)
(* (jqf-sdk/src/drive/sequence.rs, with the token rules of                 *)
(* jqf-codec/json), over an alphabet of one byte per role.  Without commas *)
(* and colons a container is empty or holds one value.                     *)
(***************************************************************************)
EXTENDS Naturals, Sequences, SequencesExt

\* "feed" is the form feed: ASCII whitespace, but not JSON's.
Bytes == {"open", "close", "quote", "escape", "digit", "space", "feed"}

\* The reader's place: between tokens, in a bare word, in a string, after a
\* backslash in one, or stopped on a byte no value can hold.
Reader0 == [mode |-> "gap", stack |-> <<>>, from |-> 0, values |-> <<>>]

\* The value that ends before offset `end` is one of the stream's own, or fills
\* the innermost open container.
Complete(r, end) ==
  IF r.stack = <<>>
  THEN [r EXCEPT !.mode = "gap", !.values = Append(@, <<r.from, end>>)]
  ELSE [r EXCEPT !.mode = "gap", !.stack[Len(r.stack)] = "full"]

Dead(r) == [r EXCEPT !.mode = "dead"]

\* A value starts at offset `at`, unless its container already holds one.
Begin(r, at, mode) ==
  IF r.stack = <<>> THEN [r EXCEPT !.mode = mode, !.from = at]
  ELSE IF r.stack[Len(r.stack)] = "full" THEN Dead(r)
  ELSE [r EXCEPT !.mode = mode]

Between(r, byte, at) ==
  CASE byte = "space" -> r
    [] byte = "digit" -> Begin(r, at, "word")
    [] byte = "quote" -> Begin(r, at, "string")
    [] byte = "open"  -> LET b == Begin(r, at, "gap")
                         IN IF b.mode = "dead" THEN b
                            ELSE [b EXCEPT !.stack = Append(@, "empty")]
    [] byte = "close" -> IF r.stack = <<>> THEN Dead(r)
                         ELSE Complete([r EXCEPT !.stack = Front(@)], at + 1)
    [] OTHER -> Dead(r)

\* A bare word ends where another value or a delimiter begins.
InWord(r, byte, at) ==
  CASE byte = "digit" -> r
    [] byte \in {"space", "quote", "open", "close"} -> Between(Complete(r, at), byte, at)
    [] OTHER -> Dead(r)

InString(r, byte, at) ==
  CASE byte = "quote"  -> Complete(r, at + 1)
    [] byte = "escape" -> [r EXCEPT !.mode = "escape"]
    [] byte = "feed"   -> Dead(r)
    [] OTHER -> r

AfterEscape(r, byte) ==
  IF byte \in {"quote", "escape"} THEN [r EXCEPT !.mode = "string"] ELSE Dead(r)

Step(r, byte, at) ==
  CASE r.mode = "gap"    -> Between(r, byte, at)
    [] r.mode = "word"   -> InWord(r, byte, at)
    [] r.mode = "string" -> InString(r, byte, at)
    [] r.mode = "escape" -> AfterEscape(r, byte)
    [] OTHER -> r

ReadAll(bytes) ==
  LET r == FoldLeftDomain(LAMBDA acc, i : Step(acc, bytes[i], i - 1), Reader0, bytes)
  IN IF r.mode = "word" THEN Complete(r, Len(bytes)) ELSE r

\* The drive reads the range to its end, or fails in it.
Accepts(bytes) == LET r == ReadAll(bytes) IN r.mode = "gap" /\ r.stack = <<>>

\* The spans of the values it reads, as offsets from `base`.
ValuesFrom(bytes, base) ==
  LET vs == ReadAll(bytes).values
  IN [i \in DOMAIN vs |-> <<base + vs[i][1], base + vs[i][2]>>]

=============================================================================
