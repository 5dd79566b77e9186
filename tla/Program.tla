------------------------------ MODULE Program -------------------------------
(***************************************************************************)
(* main (app/main.cpp) with ParseArgs and ValidateConfig (cli/args.cpp):   *)
(* the main thread reads the command line, starts the guard thread, calls  *)
(* Run, joins the guard and prints the report; the guard thread sleeps,    *)
(* and ends the process if Run has not returned by then.                   *)
(*                                                                         *)
(* Run is taken by the promise of BenchmarkRun, which Engine implements;   *)
(* that it ends at all is not part of it.  The command line is a sequence  *)
(* of options as getopt_long splits it, with their values: a number, 0 for *)
(* every text that is not a positive decimal, a text, or NoValue.          *)
(***************************************************************************)
EXTENDS Integers, Sequences, SequencesExt

CONSTANTS
  CommandLines,  \* what the program may be started with
  MaxInt,        \* std::numeric_limits<int>::max()
  MaxPort,       \* 65535
  GuardBuffer,   \* the 60 s the guard adds to the duration
  GuardHour,     \* the 3600 s it allows a run of -n requests
  MaxCompleted,  \* bound: see BenchmarkRun
  NoValue

ASSUME ProgramAssumption ==
  /\ MaxInt \in Nat /\ MaxPort \in 1..MaxInt
  /\ GuardBuffer \in 1..MaxInt /\ GuardHour \in 1..MaxInt
  /\ MaxCompleted \in Nat

Protocols == {"http", "https", "tcp", "udp"}

NewConfig ==
  [concurrency |-> 0, requests |-> 0, duration_seconds |-> 0, threads |-> 1, protocol |-> "http",
   host |-> "", port |-> 0, path |-> "/", has_requests |-> FALSE, has_duration |-> FALSE]

VARIABLES
  argv,             \* the command line, until it has been read
  config,           \* the Config
  mpc,              \* where the main thread is
  gpc,              \* where the guard thread is
  left,             \* the seconds it has still to sleep
  engine_finished,
  phase, report,    \* what Run does, see BenchmarkRun
  ran,              \* the seconds Run has run, up to its duration
  exit,             \* "none" while the process lives, then how it ended
  \* history
  slept,            \* the seconds the guard has slept
  finishedAt        \* slept when engine_finished was stored

vars == <<argv, config, mpc, gpc, left, engine_finished, phase, report, ran, exit, slept, finishedAt>>

-----------------------------------------------------------------------------
(* The command line *)

\* Mutant: zero is a number like any other.
IsPositiveIntOrZero(n) == n \in 0..MaxInt

IsPositiveInt(n)   == n \in 1..MaxInt
IsPositiveInt64(n) == n > 0
IsPort(n)          == IsPositiveInt(n) /\ n <= MaxPort

\* Whether the value of an option is one it takes.  "?" is an unknown option or one whose
\* value is missing.
Accepts(o) ==
  CASE o.name \in {"concurrency", "time", "threads"} -> IsPositiveInt(o.value)
    [] o.name = "requests" -> IsPositiveInt64(o.value)
    [] o.name = "port"     -> IsPort(o.value)
    [] o.name = "protocol" -> o.value \in Protocols
    [] OTHER               -> o.name # "?"

\* One round of the loop over getopt_long; ends is "no" until it returns.
ParseOption(p, o) ==
  IF p.ends # "no" THEN p
  ELSE IF ~Accepts(o) THEN [p EXCEPT !.ends = "error"]
  ELSE IF o.name \in {"help", "version"} THEN [p EXCEPT !.ends = o.name]
  ELSE IF o.name = "requests"
  THEN [p EXCEPT !.config.requests = o.value, !.config.has_requests = TRUE]
  ELSE IF o.name = "time"
  THEN [p EXCEPT !.config.duration_seconds = o.value, !.config.has_duration = TRUE]
  ELSE [p EXCEPT !.config[o.name] = o.value]

\* getopt_long moves what is not an option to the end.
ParseArgs(args) ==
  LET IsOption(o) == o.name # "positional"
      p == FoldLeft(ParseOption, [config |-> NewConfig, ends |-> "no"], SelectSeq(args, IsOption))
  IN  IF p.ends = "no" /\ (\E i \in DOMAIN args : ~IsOption(args[i])) THEN [p EXCEPT !.ends = "error"]
      ELSE p

Valid(c) ==
  c.concurrency > 0 /\ c.host # "" /\ c.port > 0 /\ c.has_requests # c.has_duration

\* A path is "", "/x" or "x".
Absolute(c) ==
  [c EXCEPT !.path = IF @ = "" THEN "/"
                     ELSE IF @ = "x" /\ c.protocol \in {"http", "https"} THEN "/x" ELSE @]

-----------------------------------------------------------------------------
Run == INSTANCE BenchmarkRun WITH
  requests <- config.requests,
  timeUp <- ran >= config.duration_seconds

Init ==
  /\ argv \in CommandLines
  /\ config = NewConfig
  /\ mpc = "parse" /\ gpc = "none"
  /\ left = 0
  /\ engine_finished = FALSE
  /\ phase = "running" /\ report = Run!EmptyReport /\ ran = 0
  /\ exit = "none"
  /\ slept = 0 /\ finishedAt = -1

guardVars == <<gpc, left, slept>>
runVars   == <<phase, report>>

\* ParseArgs, help and version, ValidateConfig, PrintConfig.
ParseAndValidate ==
  /\ mpc = "parse"
  /\ LET p == ParseArgs(argv)
     IN  IF p.ends \in {"help", "version"}
         THEN exit' = p.ends /\ UNCHANGED <<config, mpc, argv>>
         ELSE IF p.ends = "error" \/ ~Valid(p.config)
         THEN exit' = "usage" /\ UNCHANGED <<config, mpc, argv>>
         ELSE mpc' = "start" /\ config' = Absolute(p.config) /\ UNCHANGED <<exit, argv>>
  /\ UNCHANGED <<guardVars, runVars, engine_finished, ran, finishedAt>>

StartGuard ==
  /\ mpc = "start"
  /\ mpc' = "enter"
  /\ gpc' = "begin"
  /\ argv' = NoValue
  /\ UNCHANGED <<config, left, slept, runVars, engine_finished, ran, exit, finishedAt>>

EnterRun ==
  /\ mpc = "enter"
  /\ mpc' = "run"
  /\ UNCHANGED <<argv, config, guardVars, runVars, engine_finished, ran, exit, finishedAt>>

RunReturns ==
  /\ mpc = "run"
  /\ Run!End
  /\ mpc' = "finish"
  /\ UNCHANGED <<argv, config, guardVars, engine_finished, ran, exit, finishedAt>>

Finish ==
  /\ mpc = "finish"
  /\ mpc' = "join"
  /\ engine_finished' = TRUE
  /\ finishedAt' = slept
  /\ UNCHANGED <<argv, config, guardVars, runVars, ran, exit>>

JoinGuard ==
  /\ mpc = "join"
  /\ gpc = "done"
  /\ mpc' = "print"
  /\ UNCHANGED <<argv, config, guardVars, runVars, engine_finished, ran, exit, finishedAt>>

\* PrintFinal and EXIT_SUCCESS, or the error of Run and EXIT_FAILURE.
PrintFinal ==
  /\ mpc = "print"
  /\ exit' = IF Run!Returned THEN "report" ELSE "engine error"
  /\ UNCHANGED <<argv, config, mpc, guardVars, runVars, engine_finished, ran, finishedAt>>

-----------------------------------------------------------------------------
(* The guard thread *)

\* Mutant: the buffer is forgotten.
GuardSecondsUnbuffered(c) == {IF c.has_duration THEN c.duration_seconds ELSE GuardHour}

\* duration_seconds + 60 is an addition of ints: beyond MaxInt it is undefined, and a build
\* wraps around or computes in more bits.
GuardSeconds(c) ==
  LET sum == c.duration_seconds + GuardBuffer
  IN  IF ~c.has_duration THEN {GuardHour}
      ELSE IF sum <= MaxInt THEN {sum} ELSE {sum, sum - 2 * (MaxInt + 1)}

\* A negative time is not slept at all.
GuardSleeps ==
  /\ gpc = "begin"
  /\ gpc' = "asleep"
  /\ \E seconds \in GuardSeconds(config) : left' = IF seconds > 0 THEN seconds ELSE 0
  /\ UNCHANGED <<argv, config, mpc, slept, runVars, engine_finished, ran, exit, finishedAt>>

\* Mutant: the guard ends only runs of a duration.
LateDuration == config.has_duration /\ ~engine_finished

Late == ~engine_finished

GuardWakes ==
  /\ gpc = "asleep"
  /\ left = 0
  /\ gpc' = IF Late THEN "kill" ELSE "done"
  /\ UNCHANGED <<argv, config, mpc, left, slept, runVars, engine_finished, ran, exit, finishedAt>>

GuardExits ==
  /\ gpc = "kill"
  /\ exit' = "guard"
  /\ UNCHANGED <<argv, config, mpc, guardVars, runVars, engine_finished, ran, finishedAt>>

-----------------------------------------------------------------------------
(* The clock and the signals *)

Tick ==
  /\ gpc = "asleep" /\ left > 0
  /\ left' = left - 1
  /\ slept' = slept + 1
  /\ ran' = IF mpc = "run" /\ ran < config.duration_seconds THEN ran + 1 ELSE ran
  /\ UNCHANGED <<argv, config, mpc, gpc, runVars, engine_finished, exit, finishedAt>>

\* SIGSEGV, SIGABRT, SIGFPE, SIGILL, SIGTERM, or an exception nobody catches.
FatalSignal ==
  /\ exit' = "signal"
  /\ UNCHANGED <<argv, config, mpc, guardVars, runVars, engine_finished, ran, finishedAt>>

MainNext  == ParseAndValidate \/ StartGuard \/ EnterRun \/ Finish \/ JoinGuard \/ PrintFinal
GuardNext == GuardSleeps \/ GuardWakes \/ GuardExits

Next ==
  \/ exit = "none" /\ (MainNext \/ RunReturns \/ GuardNext \/ Tick \/ FatalSignal)
  \/ exit # "none" /\ UNCHANGED vars

Spec == Init /\ [][Next]_vars

\* The threads and the clock go on while the process lives; Run may hang.
FairSpec ==
  /\ Spec
  /\ WF_vars(exit = "none" /\ MainNext)
  /\ WF_vars(exit = "none" /\ GuardNext)
  /\ WF_vars(exit = "none" /\ Tick)

-----------------------------------------------------------------------------
(* Properties *)

Given(name) == {i \in DOMAIN argv : argv[i].name = name}
LastValue(name) == argv[CHOOSE i \in Given(name) : \A j \in Given(name) : j <= i].value

\* What the command line asks for, read as a whole.  The first option that is wrong or asks
\* for help or the version settles it; otherwise the last of a kind counts, the required ones
\* must be there, and exactly one of -n and -t.
Reading ==
  LET Settles(i) == argv[i].name \in {"help", "version"} \/ ~Accepts(argv[i])
      first == CHOOSE i \in DOMAIN argv : Settles(i) /\ \A j \in 1..(i - 1) : ~Settles(j)
  IN  IF \E i \in DOMAIN argv : Settles(i)
      THEN IF Accepts(argv[first]) THEN argv[first].name ELSE "usage"
      ELSE IF /\ Given("positional") = {}
              /\ \A name \in {"concurrency", "host", "port"} : Given(name) # {}
              /\ LastValue("host") # ""
              /\ (Given("requests") = {}) # (Given("time") = {})
      THEN "run" ELSE "usage"

\* A run is started exactly for the command lines the help text describes, whatever the order
\* of the options and however often one is given; it starts with the last value given of each,
\* every number in range and the path of a request absolute (args.cpp:129-270, main.cpp:68-92).
AcceptsExactly ==
  argv # NoValue /\ (mpc = "start" \/ exit \notin {"none", "signal"}) =>
    /\ Reading = IF mpc = "start" THEN "run" ELSE exit
    /\ mpc = "start" =>
         /\ \A name \in {"concurrency", "threads", "protocol", "host", "port"} :
              Given(name) # {} => config[name] = LastValue(name)
         /\ Given("requests") # {} => config.requests = LastValue("requests")
         /\ Given("time") # {} => config.duration_seconds = LastValue("time")
         /\ Given("path") # {} =>
              config.path = Absolute([config EXCEPT !.path = LastValue("path")]).path
         /\ config.concurrency \in 1..MaxInt /\ config.threads \in 1..MaxInt
         /\ config.port \in 1..MaxPort /\ (config.requests > 0) # (config.duration_seconds > 0)
         /\ config.protocol \in {"http", "https"} => config.path \in {"/", "/x"}

\* The seconds a run may take before the guard ends it.
Allowance == IF config.has_duration THEN config.duration_seconds + GuardBuffer ELSE GuardHour

\* Run has returned in time, and the buffer could be added to the duration.
Representable == config.duration_seconds + GuardBuffer <= MaxInt
InTime        == Representable /\ finishedAt \in 0..(Allowance - 1)

\* The guard never ends a run early, nor one that had returned in time, unless the duration
\* is so long that adding the buffer overflows an int (main.cpp:95-101).
GuardOnlyEndsLateRuns ==
  exit = "guard" /\ Representable => slept >= Allowance /\ ~InTime

\* The process ends even if Run never returns, and once Run has returned in time main prints
\* the report or the error of Run before it ends, unless a signal or an exception comes first:
\* neither thread keeps the other waiting for good (main.cpp:93-120).
ProcessEnds ==
  /\ <>(exit # "none")
  /\ InTime ~> exit \in {"report", "engine error", "signal"}

\* The guard is an upper bound: a process whose Run has returned in time does not last until
\* the guard's time is over (main.cpp:96).
GuardIsUpperBound ==
  exit \in {"report", "engine error"} /\ finishedAt < Allowance => left > 0
=============================================================================
