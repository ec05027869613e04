---------------------------- MODULE GatewaySetup ----------------------------
(***************************************************************************)
(* The gateway with the options its setup reads and the log it keeps: the  *)
(* steps of Gateway, each with what it parses and logs.                    *)
(***************************************************************************)
EXTENDS Gateway, ProgramOptions, Logger

CONSTANT Inputs \* command lines, environments and files the process may be started with

VARIABLES
  input, \* the one it is started with
  given  \* vm: the options that were given explicitly, with their values

setupVars == <<vars, logVars, input, given>>

SetupInit ==
  /\ Init /\ LogInit
  /\ input \in Inputs /\ given = <<>>
  /\ help = (~ParseThrows(input) /\ "help" \in DOMAIN Parsed(input))

Asked == LogSinks(given)
Level == GetOption(given, "log-level")

Progress == {<<"info", "progress">>}

ParseOptions ==
  /\ Parse
  /\ ~ParseThrows(input)
  /\ given' = Parsed(input)
  /\ UNCHANGED <<logVars, input>>

MakeLogger ==
  /\ Register("logger", "epics")
  /\ Construct(Asked, Level)
  /\ UNCHANGED <<input, given>>

\* Each step of setup() announces itself before it begins.
Announced(texts) == LogMessages(texts) /\ UNCHANGED <<input, given>>
Silent == UNCHANGED <<logVars, input, given>>

Starts ==
  \/ Register("epics", "publisher") \/ Register("subscriber", "node") \/ MakeNode \/ MakeCommand
  \/ ~KVThrows(given) /\ Register("publisher", "subscriber")

SetupStep ==
  \/ ParseOptions \/ MakeLogger
  \/ (Starts \/ StopCommand \/ StopNode) /\ Announced(Progress)
  \/ Finish /\ Announced({<<"info", "completed">>})
  \/ (Lock \/ Check \/ Relock \/ JoinCommand \/ Return) /\ Silent

\* The exception is logged if logger was assigned.
Fails ==
  /\ SetupFails
  /\ pc = "parse" => ParseThrows(input)
  /\ \/ pc = "parse" /\ UNCHANGED logVars
     \/ pc = "logger" /\ ConstructThrows(Asked)
     \/ "logger" \in services /\ LogMessages(Progress \cup {<<"fatal", "error">>})
  /\ UNCHANGED <<input, given>>

\* The command thread logs what it receives and cannot parse.
Commands ==
  \/ Consume /\ Announced({})
  \/ Handled /\ Announced({<<"debug", "received">>, <<"error", "malformed">>})

Ends ==
  /\ ProcessEnds
  /\ IF "logger" \in services THEN Destruct(Asked) ELSE UNCHANGED logVars
  /\ UNCHANGED <<input, given>>

StopSteps ==
  \/ \E c \in Callers : Call(c) \/ StopCall(c) \/ StopReturns(c)
  \/ Wake \/ Signal \/ HandlerStops \/ HandlerReturns

SetupNext ==
  \/ SetupStep \/ Fails \/ Commands \/ Ends
  \/ (JoinPool \/ StopSteps) /\ Silent

\* Gateway's, of the steps with their options and log: a step that throws
\* is a step of run() as well, and nothing is assumed of JoinPool.
SetupFairness ==
  /\ SF_setupVars(SetupStep \/ Fails)
  /\ WF_setupVars(Commands)
  /\ \A c \in Callers : SF_setupVars(StopCall(c) /\ Silent) /\ WF_setupVars(StopReturns(c) /\ Silent)
  /\ SF_setupVars(HandlerStops /\ Silent)
  /\ WF_setupVars(HandlerReturns /\ Silent)

SetupSpec == SetupInit /\ [][SetupNext]_setupVars /\ SetupFairness

-----------------------------------------------------------------------------
(* Properties *)

Sources == <<Registered(input.line), input.env>> \o
           (IF FromFile(input) THEN <<input.files[FileName(input)]>> ELSE <<>>)

\* The value an option should have: of the command line before the environment
\* before the file, or the default.
Wanted(o) ==
  LET giving == {k \in DOMAIN Sources : o \in DOMAIN Sources[k]} IN
  IF giving = {} THEN Defaults[o] ELSE Sources[CHOOSE k \in giving : \A n \in giving : k <= n][o]

\* What the configured sinks hold when setup() is over: the end of a clean
\* shutdown, if their level admits it, or the error that ended it, if there is a
\* logger.  When parse() or the logger's own constructor is what fails there is
\* none, and nobody is told anything.  Nothing is ever written to a sink nobody
\* asked for, or below the level.  It holds only if parse() lets the first
\* source of an option win.
LogTellsTheEnd ==
  LET asked == {s \in DOMAIN SinkFlag : Wanted(SinkFlag[s]) = "true"}
      admits(s) == Severity[s] >= LevelOf(Wanted("log-level"))
  IN /\ (terminated /\ admits("info")) => \A s \in asked : <<s, "info", "completed">> \in written
     /\ (exit = "failure" /\ "logger" \in services) => \A s \in asked : <<s, "fatal", "error">> \in written
     /\ (exit = "failure" /\ "logger" \notin services /\ pc # "gone") => written = {}
     /\ \A w \in written : w[1] \in asked /\ admits(w[2])

=============================================================================
