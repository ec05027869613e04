------------------------------ MODULE Gateway ------------------------------
(***************************************************************************)
(* EKGateway: run() builds the services and controllers one after the      *)
(* other, sleeps until stop() and takes the controllers down again, all of *)
(* it with the mutex m but for the sleep.  stop() is called by another     *)
(* thread, as the test does, or by main.cpp's signal handler, which runs   *)
(* on the thread of run() and holds it up.  The command thread calls       *)
(* commandReceived, which uses the node controller.                        *)
(***************************************************************************)
EXTENDS Naturals, FiniteSets

CONSTANTS
  Callers,   \* threads that call stop()
  MaxSignals \* bound: signals in one behaviour

ASSUME GatewayAssumption == MaxSignals \in Nat /\ {"free", "run", "handler"} \cap Callers = {}

Services == {"logger", "epics", "publisher", "subscriber"}

VARIABLES
  pc,         \* where run() is
  m,          \* who holds m: "free", "run", "handler" or a caller
  quit,
  terminated,
  exit,       \* what run() returns: "none", "success" or "failure"
  help,       \* the option HELP is given
  services,   \* services with a registered instance
  node,       \* node_controller: "none", "alive" or "gone"
  command,    \* cmd_controller, likewise
  consumer,   \* the command thread: "none", "loop", "handling" or "ended"
  consuming,  \* its flag, CMDController::run
  calls,      \* where each caller is in stop()
  handler,    \* the signal handler: "none", "entered" or "locked"
  signals     \* signals so far

nodeVars == <<services, node, command, consumer, consuming>>
stopVars == <<calls, handler, signals>>
vars == <<pc, m, quit, terminated, exit, help, nodeVars, stopVars>>

Setup == {"parse", "logger", "epics", "publisher", "subscriber", "node", "command"}

TypeOK ==
  /\ pc \in Setup \cup {"lock", "check", "asleep", "relock", "stopCommand", "joinCommand",
                        "stopNode", "joinPool", "finish", "return", "exited", "gone"}
  /\ m \in {"free", "run", "handler"} \cup Callers
  /\ {quit, terminated, help, consuming} \subseteq BOOLEAN
  /\ exit \in {"none", "success", "failure"}
  /\ services \subseteq Services
  /\ {node, command} \subseteq {"none", "alive", "gone"}
  /\ consumer \in {"none", "loop", "handling", "ended"}
  /\ calls \in [Callers -> {"outside", "wants", "locked", "done"}]
  /\ handler \in {"none", "entered", "locked"}
  /\ signals \in 0..MaxSignals
  /\ m = "run" <=> pc \notin {"lock", "asleep", "relock", "exited", "gone"}

Init ==
  /\ pc = "lock" /\ m = "free"
  /\ quit = FALSE /\ terminated = FALSE /\ exit = "none" /\ help \in BOOLEAN
  /\ services = {} /\ node = "none" /\ command = "none"
  /\ consumer = "none" /\ consuming = FALSE
  /\ calls = [c \in Callers |-> "outside"] /\ handler = "none" /\ signals = 0

\* A step of run() from one place to the next; a signal handler on its thread
\* holds it up.
Goes(from, to) == handler = "none" /\ pc = from /\ pc' = to

-----------------------------------------------------------------------------
(* setup() *)

Lock ==
  /\ Goes("lock", "parse")
  /\ m = "free" /\ m' = "run"
  /\ UNCHANGED <<quit, terminated, exit, help, nodeVars, stopVars>>

\* With the option HELP setup returns at once.
Parse ==
  /\ Goes("parse", IF help THEN "return" ELSE "logger")
  /\ exit' = IF help THEN "success" ELSE exit
  /\ UNCHANGED <<m, quit, terminated, help, nodeVars, stopVars>>

Register(service, next) ==
  /\ Goes(service, next)
  /\ services' = services \cup {service}
  /\ UNCHANGED <<m, quit, terminated, exit, help, node, command, consumer, consuming, stopVars>>

MakeNode ==
  /\ Goes("node", "command")
  /\ node' = "alive"
  /\ UNCHANGED <<m, quit, terminated, exit, help, services, command, consumer, consuming, stopVars>>

\* The constructor of CMDController starts its thread.
MakeCommand ==
  /\ Goes("command", "check")
  /\ command' = "alive" /\ consumer' = "loop" /\ consuming' = TRUE
  /\ UNCHANGED <<m, quit, terminated, exit, help, services, node, stopVars>>

\* Mutant: an exception is caught and setup returns as if it were done.
Swallowed == "success"
Caught == "failure"
\* Each step of the setup may throw: the unwinding leaves what was made.
SetupFails ==
  /\ pc \in Setup /\ Goes(pc, "return")
  /\ exit' = Caught
  /\ UNCHANGED <<m, quit, terminated, help, nodeVars, stopVars>>

SleepsWithout == IF quit THEN m ELSE "free"
\* cv.wait: the predicate, and sleep without the mutex.
Check ==
  /\ Goes("check", IF quit THEN "stopCommand" ELSE "asleep")
  /\ m' = SleepsWithout
  /\ UNCHANGED <<quit, terminated, exit, help, nodeVars, stopVars>>

\* A spurious wakeup.
Wake ==
  /\ Goes("asleep", "relock")
  /\ UNCHANGED <<m, quit, terminated, exit, help, nodeVars, stopVars>>

Relock ==
  /\ Goes("relock", "check")
  /\ m = "free" /\ m' = "run"
  /\ UNCHANGED <<quit, terminated, exit, help, nodeVars, stopVars>>

-----------------------------------------------------------------------------
(* The deallocation at the end of setup() *)

\* ~CMDController: the flag, then the join.
StopCommand ==
  /\ Goes("stopCommand", "joinCommand")
  /\ consuming' = FALSE
  /\ UNCHANGED <<m, quit, terminated, exit, help, services, node, command, consumer, stopVars>>

\* Mutant: the thread is not waited for.
Detached == TRUE
Joinable == consumer = "ended"
JoinCommand ==
  /\ Goes("joinCommand", "stopNode")
  /\ Joinable
  /\ command' = "gone"
  /\ UNCHANGED <<m, quit, terminated, exit, help, services, node, consumer, consuming, stopVars>>

StopNode ==
  /\ Goes("stopNode", "joinPool")
  /\ UNCHANGED <<m, quit, terminated, exit, help, nodeVars, stopVars>>

\* ~NodeController waits for the pool's tasks, and the pool's destructor joins
\* its threads.  The join may never return: see DestructorReturns of
\* ThreadPoolLoops.
JoinPool ==
  /\ Goes("joinPool", "finish")
  /\ node' = "gone"
  /\ UNCHANGED <<m, quit, terminated, exit, help, services, command, consumer, consuming, stopVars>>

\* resolve() returns a copy of the shared pointer, and reset() clears the copy:
\* every service stays registered.
Finish ==
  /\ Goes("finish", "return")
  /\ terminated' = TRUE /\ exit' = "success"
  /\ UNCHANGED <<m, quit, help, nodeVars, stopVars>>

Return ==
  /\ Goes("return", "exited")
  /\ m' = "free"
  /\ UNCHANGED <<quit, terminated, exit, help, nodeVars, stopVars>>

\* main returns, and the global gateway and the registered instances go.
ProcessEnds ==
  /\ Goes("exited", "gone")
  /\ node' = IF node = "alive" THEN "gone" ELSE node
  /\ services' = {}
  /\ UNCHANGED <<m, quit, terminated, exit, help, command, consumer, consuming, stopVars>>

-----------------------------------------------------------------------------
(* The command thread *)

Consume ==
  /\ consumer = "loop"
  /\ consumer' \in IF consuming THEN {"loop", "handling"} ELSE {"ended"}
  /\ UNCHANGED <<pc, m, quit, terminated, exit, help, services, node, command, consuming, stopVars>>

\* commandReceived returns or throws into consume()'s catch.
Handled ==
  /\ consumer = "handling" /\ consumer' = "loop"
  /\ UNCHANGED <<pc, m, quit, terminated, exit, help, services, node, command, consuming, stopVars>>

-----------------------------------------------------------------------------
(* stop() *)

Call(c) ==
  /\ calls[c] = "outside" /\ pc # "gone"
  /\ calls' = [calls EXCEPT ![c] = "wants"]
  /\ UNCHANGED <<pc, m, quit, terminated, exit, help, nodeVars, handler, signals>>

\* Mutant: the waiting thread is not notified.
Unheard == pc
Notified == IF pc = "asleep" THEN "relock" ELSE pc

\* quit = true and notify_one, under the mutex.
StopLocked(who) ==
  /\ m = "free" /\ m' = who
  /\ quit' = TRUE
  /\ pc' = Notified
  /\ UNCHANGED <<terminated, exit, help, nodeVars, signals>>

StopCall(c) ==
  /\ calls[c] = "wants"
  /\ StopLocked(c)
  /\ calls' = [calls EXCEPT ![c] = "locked"]
  /\ UNCHANGED handler

StopReturns(c) ==
  /\ calls[c] = "locked"
  /\ calls' = [calls EXCEPT ![c] = "done"]
  /\ m' = "free"
  /\ UNCHANGED <<pc, quit, terminated, exit, help, nodeVars, handler, signals>>

\* SIGINT or SIGTERM: event_handler runs on the thread of run().
Signal ==
  /\ handler = "none" /\ pc \notin {"exited", "gone"} /\ signals < MaxSignals
  /\ handler' = "entered" /\ signals' = signals + 1
  /\ UNCHANGED <<pc, m, quit, terminated, exit, help, nodeVars, calls>>

\* If the interrupted thread itself has m this never happens.
HandlerStops ==
  /\ handler = "entered"
  /\ StopLocked("handler")
  /\ handler' = "locked"
  /\ UNCHANGED calls

HandlerReturns ==
  /\ handler = "locked" /\ handler' = "none"
  /\ m' = "free"
  /\ UNCHANGED <<pc, quit, terminated, exit, help, nodeVars, calls, signals>>

RunStep ==
  \/ Lock \/ Parse \/ MakeNode \/ MakeCommand \/ Check \/ Relock
  \/ Register("logger", "epics") \/ Register("epics", "publisher")
  \/ Register("publisher", "subscriber") \/ Register("subscriber", "node")
  \/ StopCommand \/ JoinCommand \/ StopNode \/ Finish \/ Return

Next ==
  \/ RunStep \/ JoinPool \/ SetupFails \/ Wake \/ ProcessEnds
  \/ Consume \/ Handled
  \/ \E c \in Callers : Call(c) \/ StopCall(c) \/ StopReturns(c)
  \/ Signal \/ HandlerStops \/ HandlerReturns

\* The threads run, and one that contends for m with others gets it in the
\* end.  No wakeup is spurious unless the system makes it so, and the pool's
\* destructor may never return.
Fairness ==
  /\ SF_vars(RunStep)
  /\ WF_vars(Consume) /\ WF_vars(Handled)
  /\ \A c \in Callers : SF_vars(StopCall(c)) /\ WF_vars(StopReturns(c))
  /\ SF_vars(HandlerStops) /\ WF_vars(HandlerReturns)

Spec == Init /\ [][Next]_vars /\ Fairness

-----------------------------------------------------------------------------
(* Safety *)

\* commandReceived runs on the command thread and uses node_controller: it is
\* there for as long as the command thread may be in a command.
HandlerHasNode == consumer = "handling" => node = "alive"

\* Success is only reported for the help text and for a run that was asked to
\* stop, took both controllers down and ended the command thread.
SuccessIsClean ==
  (exit = "success" /\ ~help)
    => quit /\ terminated /\ node = "gone" /\ command = "gone" /\ consumer = "ended"

-----------------------------------------------------------------------------
(* Liveness *)

\* A signal on the thread of run() while it has m itself: stop() never gets it.
SelfLocked == handler = "entered" /\ m = "run"

\* If the pool's destructor returns, a stop ends the run: one that another
\* thread asks for before the setup, during it or in the wait, and one of a
\* signal that does not come while run() has m.
RunEnds ==
  (pc = "joinPool" ~> pc # "joinPool") =>
    \A c \in Callers :
      (calls[c] = "wants" \/ (handler = "entered" /\ m # "run"))
        ~> (pc \in {"exited", "gone"} \/ SelfLocked)

=============================================================================
