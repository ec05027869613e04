------------------------------- MODULE Logger -------------------------------
(***************************************************************************)
(* BoostLogger over the logging core of Boost.Log, which is one per        *)
(* process: the sinks added to it, its filter and its switch.              *)
(***************************************************************************)
EXTENDS Naturals, Sequences

VARIABLES
  sinks,   \* sinks in the core
  filter,  \* the least severity it lets through
  enabled, \* set_logging_enabled
  written  \* history: <<sink, severity, what was logged to it>>

logVars == <<sinks, filter, enabled, written>>

\* boost::log::trivial::severity_level
Severity == [debug |-> 1, info |-> 2, error |-> 4, fatal |-> 5]

\* Without sinks the core writes to a default one.
LogInit == sinks = {} /\ filter = 0 /\ enabled = TRUE /\ written = {}

\* string_to_log_level and getLevel
LevelOf(token) == IF token \in DOMAIN Severity THEN Severity[token] ELSE Severity["info"]

\* BoostLogger::BoostLogger
Construct(asked, level) ==
  /\ sinks' = sinks \cup asked
  /\ filter' = LevelOf(level)
  /\ enabled' = (asked # {})
  /\ UNCHANGED written

\* The constructor throws while it makes the file sink or the one for syslog:
\* what was added before stays in the core.
ConstructThrows(asked) ==
  /\ \/ UNCHANGED sinks
     \/ sinks' = sinks \cup (asked \cap {"console"})
     \/ sinks' = sinks \cup (asked \cap {"console", "file"})
  /\ UNCHANGED <<filter, enabled, written>>

\* Mutant: the level itself is filtered out.
PassesAbove(severity) == Severity[severity] > filter
Passes(severity) == Severity[severity] >= filter

Targets == IF ~enabled THEN {} ELSE IF sinks = {} THEN {"default"} ELSE sinks

\* logMessage of each of the texts, pairs of a severity and what is said.
LogMessages(texts) ==
  /\ written' = written \cup {<<k, t[1], t[2]>> : k \in Targets, t \in {u \in texts : Passes(u[1])}}
  /\ UNCHANGED <<sinks, filter, enabled>>

\* ~BoostLogger
Destruct(asked) == sinks' = sinks \ asked /\ UNCHANGED <<filter, enabled, written>>

=============================================================================
