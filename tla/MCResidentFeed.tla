--------------------------- MODULE MCResidentFeed ---------------------------
(* Streams of a few bytes, short enough to be cut in every way.            *)
EXTENDS ResidentFeed

StreamsOver(kinds, n) == UNION {[1..i -> kinds] : i \in 1..n}

Value == <<"open", "close", "lf">>

\* What follows a value that is published; two values in one batch and more bytes
\* than the feed holds; a mark, which only ever begins the stream.
MCStreams ==
  StreamsOver(Kinds \ {"bom"}, 4)
  \cup {Value \o s : s \in StreamsOver({"open", "close", "lf"}, 3)}
  \cup {Value \o Value \o <<"raise", "lf">>, <<"raise", "lf", "lf">> \o Value \o <<"open", "close">>}
  \cup {<<"bom">> \o s : s \in StreamsOver({"open", "close", "lf"}, 3)}

=============================================================================
