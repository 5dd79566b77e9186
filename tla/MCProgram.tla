----------------------------- MODULE MCProgram ------------------------------
(* A small instance of Program for TLC: command lines made from good ones by leaving out one *)
(* option at most and putting in one, or two of those that settle a command line or of those *)
(* that need not be given.                                                                   *)
EXTENDS Program

Opt(name, values) == {[name |-> name, value |-> v] : v \in values}

Settling == Opt("?", {NoValue}) \cup Opt("help", {NoValue}) \cup Opt("version", {NoValue})
              \cup Opt("positional", {"x"}) \cup Opt("time", {0})

Options ==
  Settling
    \cup Opt("concurrency", {0, MaxInt, MaxInt + 1}) \cup Opt("requests", {0, 1, MaxInt + 1})
    \cup Opt("time", {1, MaxInt, MaxInt + 1}) \cup Opt("threads", {0, 2})
    \cup Opt("protocol", {"https", "tcp", "ftp"}) \cup Opt("host", {"", "b"})
    \cup Opt("port", {0, 1, MaxPort + 1}) \cup Opt("path", {"", "/x", "x"})

Good ==
  {<<[name |-> "concurrency", value |-> 1], mode, [name |-> "host", value |-> "a"],
     [name |-> "port", value |-> MaxPort]>> : mode \in Opt("requests", {1}) \cup Opt("time", {2})}

With(lines, options) ==
  {InsertAt(line, i, o) : <<line, i, o>> \in
     UNION {{line} \X (1..(Len(line) + 1)) \X options : line \in lines}}

Shortened == Good \cup UNION {{RemoveAt(line, i) : i \in DOMAIN line} : line \in Good}

Optional == Opt("protocol", {"https", "tcp"}) \cup Opt("path", {"", "x"})

MCCommandLines ==
  Shortened \cup With(Shortened, Options)
    \cup With(With(Good, Settling), Settling) \cup With(With(Good, Optional), Optional)
=============================================================================
