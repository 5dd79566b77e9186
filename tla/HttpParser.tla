----------------------------- MODULE HttpParser -----------------------------
(***************************************************************************)
(* ResponseParser (protocol/http.cpp): an HTTP response is fed to it in    *)
(* chunks, cut wherever recv happened to return, and it must find the same *)
(* response in them however they are cut.                                  *)
(*                                                                         *)
(* The input is a sequence of tokens: "cr" and "lf", so that a chunk can   *)
(* end between the two, and one token for the text of a line or a piece of *)
(* body.                                                                   *)
(***************************************************************************)
EXTENDS Integers, Sequences, SequencesExt, FiniteSetsExt

CONSTANTS
  Messages  \* what a server may send in answer to a request, as tokens

Codes    == [s200 |-> 200, s500 |-> 500]     \* status lines that are accepted
Lengths  == [len0 |-> 0, len1 |-> 1, len2 |-> 2]  \* content-length headers that are accepted
Rejected == {"sbad", "lenbad", "nocolon"}  \* a status line, a content-length and a header that are not

ASSUME MessagesAssumption == \A m \in Messages : m # <<>>

NoLength == -1  \* content_length when has_content_length is false

VARIABLES
  parser,   \* the ResponseParser
  message,  \* what the server sends, <<>> while it sends nothing
  fed,      \* how much of it has been fed to the parser
  eof       \* MarkEof has been called

vars == <<parser, message, fed, eof>>

NewParser == [state |-> "kStatusLine", status_code |-> 0, content_length |-> NoLength,
              keep_alive |-> TRUE, message_complete |-> FALSE, pending |-> <<>>, body |-> <<>>]

Init ==
  /\ parser = NewParser
  /\ message = <<>>
  /\ fed = 0
  /\ eof = FALSE

-----------------------------------------------------------------------------
(* The parsing functions *)

CrLf == <<"cr", "lf">>

\* Where pattern begins in s, from index on.
Occurrences(s, pattern, from) ==
  {i \in from..(Len(s) - Len(pattern) + 1) : SubSeq(s, i, i + Len(pattern) - 1) = pattern}

From(s, i) == SubSeq(s, i, Len(s))

SetError(p) == [p EXCEPT !.state = "kError"]

ParseStatusLine(p) ==
  LET ends == Occurrences(p.pending, CrLf, 1)
      line == SubSeq(p.pending, 1, Min(ends) - 1)
  IN  IF ends = {} THEN p
      ELSE IF Len(line) # 1 \/ line[1] \notin DOMAIN Codes THEN SetError(p)
      ELSE [p EXCEPT !.status_code = Codes[line[1]],
                     !.pending = From(@, Min(ends) + 2),
                     !.state = "kHeaders"]

\* (The case of a body larger than its content-length cannot arise: no more is ever taken.)
ParseBody(p) ==
  IF p.content_length = NoLength THEN [p EXCEPT !.body = @ \o p.pending, !.pending = <<>>]
  ELSE LET missing == p.content_length - Len(p.body)
           take    == IF missing < Len(p.pending) THEN missing ELSE Len(p.pending)
           b == [p EXCEPT !.body = @ \o SubSeq(p.pending, 1, take),
                          !.pending = From(@, take + 1)]
       IN  IF take = missing THEN [b EXCEPT !.message_complete = TRUE, !.state = "kDone"] ELSE b

\* One header line; an empty line is malformed like any other without a colon.
ParseHeaderLine(p, line) ==
  IF p.state = "kError" \/ Len(line) # 1 \/ line[1] \in Rejected THEN SetError(p)
  ELSE [p EXCEPT !.content_length = IF line[1] \in DOMAIN Lengths THEN Lengths[line[1]] ELSE @,
                 !.keep_alive = (line[1] = "keep" \/ (@ /\ line[1] # "close"))]

ParseHeaders(p) ==
  LET pos == Occurrences(p.pending, CrLf \o CrLf, 1)
      starts == {1} \cup {i + 2 : i \in Occurrences(p.pending, CrLf, 1) \cap 1..(Min(pos) - 1)}
      Line(b) == SubSeq(p.pending, b, Min(Occurrences(p.pending, CrLf, b)) - 1)
      lines == IF Min(pos) = 1 THEN <<>>
               ELSE [i \in 1..Cardinality(starts) |-> Line(SetToSortSeq(starts, <)[i])]
      q == FoldLeft(ParseHeaderLine, p, lines)
  IN  IF pos = {} THEN p
      ELSE IF q.state = "kError" THEN q
      ELSE ParseBody([q EXCEPT !.pending = From(@, Min(pos) + 4), !.state = "kBody"])

\* Mutant: what was pending is overwritten.
AppendOverwrites(pending, chunk) == chunk

AppendPending(pending, chunk) == pending \o chunk

\* Feed returns whether the state it leaves is not kError.
Feed(p, chunk) ==
  IF p.state \in {"kError", "kDone"} THEN p
  ELSE LET a == [p EXCEPT !.pending = AppendPending(@, chunk)]
           b == IF a.state = "kStatusLine" THEN ParseStatusLine(a) ELSE a
           c == IF b.state = "kHeaders" THEN ParseHeaders(b) ELSE b
       IN  IF c.state = "kBody" THEN ParseBody(c) ELSE c

MarkEof(p) ==
  IF p.state = "kBody" /\ p.content_length = NoLength
  THEN [p EXCEPT !.body = @ \o p.pending, !.pending = <<>>,
                 !.message_complete = TRUE, !.state = "kDone"]
  ELSE p

-----------------------------------------------------------------------------
(* What its callers do with it *)

\* The server answers the request of a parser that is new or reset.
Respond(m) ==
  /\ message = <<>>
  /\ message' = m
  /\ UNCHANGED <<parser, fed, eof>>

Receive(n) ==
  /\ ~eof
  /\ n <= Len(message) - fed
  /\ parser' = Feed(parser, SubSeq(message, fed + 1, fed + n))
  /\ fed' = fed + n
  /\ UNCHANGED <<message, eof>>

\* The server closes the connection, perhaps in the middle of the message; PerformHttpGet
\* marks the end if the response is not complete.
ReceiveEof ==
  /\ message # <<>> /\ ~eof
  /\ ~parser.message_complete /\ parser.state # "kError"
  /\ parser' = MarkEof(parser)
  /\ eof' = TRUE
  /\ UNCHANGED <<message, fed>>

\* After a complete response, and for every new connection (so at any time).
Reset ==
  /\ message # <<>>
  /\ parser' = NewParser
  /\ message' = <<>>
  /\ fed' = 0
  /\ eof' = FALSE

Next ==
  \/ \E m \in Messages : Respond(m)
  \/ \E n \in 1..Len(message) : Receive(n)
  \/ ReceiveEof
  \/ Reset

Spec == Init /\ [][Next]_vars

-----------------------------------------------------------------------------
(* Properties *)

\* What a reader of the response is told of input s: the status line ends at the first CRLF,
\* the headers at the first CRLFCRLF after it, each header is accepted, the last of a kind
\* counts, and the body is what content-length says or, without one, all up to the end.
Reference(s, ended) ==
  LET line_ends   == Occurrences(s, CrLf, 1)
      header_from == Min(line_ends) + 2
      header_ends == Occurrences(s, CrLf \o CrLf, header_from)
      header      == SubSeq(s, header_from, Min(header_ends) - 1)
      texts       == SelectSeq(header, LAMBDA t : t \notin {"cr", "lf"})
      empty_line  == Len(header) > 0 /\ header[1] = "cr"
      rest        == From(s, Min(header_ends) + 4)
      LastOf(set) == Max({i \in DOMAIN texts : texts[i] \in set})
      Has(set)    == \E i \in DOMAIN texts : texts[i] \in set
      need        == Lengths[texts[LastOf(DOMAIN Lengths)]]
      alive       == Has({"keep", "close"}) => texts[LastOf({"keep", "close"})] = "keep"
  IN  IF line_ends = {} THEN [state |-> "kStatusLine"]
      ELSE IF s[1] \notin DOMAIN Codes THEN [state |-> "kError"]
      ELSE IF header_ends = {} THEN [state |-> "kHeaders"]
      ELSE IF empty_line \/ Has(Rejected) THEN [state |-> "kError"]
      ELSE IF Has(DOMAIN Lengths)
      THEN [state |-> IF Len(rest) < need THEN "kBody" ELSE "kDone", code |-> Codes[s[1]],
            keep_alive |-> alive, body |-> SubSeq(rest, 1, IF Len(rest) < need THEN Len(rest) ELSE need)]
      ELSE [state |-> IF ended THEN "kDone" ELSE "kBody", code |-> Codes[s[1]],
            keep_alive |-> alive, body |-> rest]

Told(p) ==
  IF p.state \in {"kBody", "kDone"}
  THEN [state |-> p.state, code |-> p.status_code, keep_alive |-> p.keep_alive, body |-> p.body]
  ELSE [state |-> p.state]

\* However the input is cut into chunks, and whatever the parser was used for before, it tells
\* what the input as a whole says (http.cpp:100-272): no CRLF is missed because a chunk ended
\* inside it, no piece of body is lost or taken twice, and a response is over as soon as it can
\* be and not before.
ParsesResponse ==
  /\ Told(parser) = Reference(SubSeq(message, 1, fed), eof)
  /\ parser.message_complete = (parser.state = "kDone")
=============================================================================
