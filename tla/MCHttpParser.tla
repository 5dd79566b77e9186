---------------------------- MODULE MCHttpParser ----------------------------
(* A small instance of HttpParser for TLC: status line, up to two headers, a body that may *)
(* be shorter or longer than announced, or hold an empty line.                             *)
EXTENDS HttpParser

HeaderLines == {"len0", "len1", "len2", "lenbad", "close", "keep", "other", "nocolon"}
Bodies      == {<<>>, <<"x">>, <<"x", "y">>, <<"x", "y", "z">>, CrLf \o CrLf \o <<"x">>}

MCMessages ==
  {<<status>> \o CrLf \o FoldLeft(LAMBDA text, line : text \o <<line>> \o CrLf, <<>>, headers)
       \o CrLf \o body :
     status \in {"s200", "s500", "sbad"}, headers \in BoundedSeq(HeaderLines, 2), body \in Bodies}
=============================================================================
