--------------------------- MODULE KafkaPublisher ---------------------------
(***************************************************************************)
(* RDKafkaPublisher: threads that share a publisher push messages, one or  *)
(* a vector at a time, and flush it.  produce() is told to copy nothing,   *)
(* so the client library reads a message's buffer until it is delivered,   *)
(* and the delivery report, served by whichever thread polls, deletes the  *)
(* message.  The library and the broker are external.                      *)
(***************************************************************************)
EXTENDS Integers, FiniteSets, SequencesExt

CONSTANTS
  Threads,  \* the threads that use the publisher
  Messages, \* the PublishMessage objects of one behaviour
  Types,    \* request types
  ReqType,  \* getReqType() of each message
  MaxQueue, \* queue.buffering.max.messages
  MayPoll,  \* whether any thread calls flush(); the gateway has none
  Null

ASSUME PublisherAssumption ==
  /\ ReqType \in [Messages -> Types]
  /\ MaxQueue \in Nat \ {0}
  /\ MayPoll \in BOOLEAN
  /\ Null \notin Messages

VARIABLES
  pc,       \* where each thread is
  vector,   \* messages of pushMessages: the caller's vector
  message,  \* the unique_ptr of pushMessage, or of dr_cb
  unborn,   \* messages that do not exist yet
  freed,    \* how often each message has been deleted
  handlers, \* eventCallbackForReqType: no entry, an empty function, a handler
  autoPoll, \* _auto_poll
  state,    \* of the publisher: "alive", "gone", or "aborted" by its destructor
  queued,   \* external: messages the library has to send
  reports,  \* external: delivery reports that wait for a poll
  stored,   \* external: messages the broker has
  told      \* history: the events a handler was called with for each message

threadVars  == <<pc, vector, message>>
libraryVars == <<queued, reports, stored>>
ownVars     == <<handlers, autoPoll, state>>
vars == <<threadVars, unborn, freed, ownVars, libraryVars, told>>

Status == {"persisted", "possibly", "not"}
Report == [message : Messages, status : Status]
Reported == {r.message : r \in ToSet(reports)}
InVector(t) == ToSet(vector[t]) \ {Null}

TypeOK ==
  /\ pc \in [Threads -> {"idle", "produce", "release", "flush", "callback"}]
  /\ vector \in [Threads -> Seq(Messages \cup {Null})]
  /\ message \in [Threads -> Messages \cup {Null}]
  /\ unborn \subseteq Messages
  /\ freed \in [Messages -> Nat]
  /\ handlers \in [Types -> {"absent", "empty", "set"}]
  /\ autoPoll \in BOOLEAN
  /\ state \in {"alive", "gone", "aborted"}
  /\ queued \subseteq Messages
  /\ reports \in Seq(Report)
  /\ stored \subseteq Messages
  /\ told \in [Messages -> Seq({"OnSent", "OnError"})]

\* The thread of autoPoll() is made in init() when _auto_poll is set, and the
\* constructor has cleared it: there is none.
Init ==
  /\ pc = [t \in Threads |-> "idle"]
  /\ vector = [t \in Threads |-> <<>>]
  /\ message = [t \in Threads |-> Null]
  /\ unborn = Messages
  /\ freed = [m \in Messages |-> 0]
  /\ handlers = [r \in Types |-> "absent"]
  /\ autoPoll = FALSE /\ state = "alive"
  /\ queued = {} /\ reports = <<>> /\ stored = {}
  /\ told = [m \in Messages |-> <<>>]

Goes(t, from, to) == pc[t] = from /\ pc' = [pc EXCEPT ![t] = to]
Calls(t, to) == state = "alive" /\ Goes(t, "idle", to)
Deleted(ms) == freed' = [m \in Messages |-> IF m \in ms THEN freed[m] + 1 ELSE freed[m]]

-----------------------------------------------------------------------------
(* pushMessage and pushMessages *)

PushMessage(t) ==
  /\ Calls(t, "produce") /\ vector[t] = <<>>
  /\ \E m \in unborn : /\ unborn' = unborn \ {m}
                       /\ message' = [message EXCEPT ![t] = m]
  /\ UNCHANGED <<vector, freed, ownVars, libraryVars, told>>

\* The first element is moved out of the vector, which keeps a null pointer.
PushMessages(t) ==
  /\ Calls(t, "produce") /\ vector[t] = <<>>
  /\ \E first, second \in unborn :
       /\ first # second
       /\ unborn' = unborn \ {first, second}
       /\ message' = [message EXCEPT ![t] = first]
       /\ vector' = [vector EXCEPT ![t] = <<Null, second>>]
  /\ UNCHANGED <<freed, ownVars, libraryVars, told>>

\* outq_len(): messages whose report has not been served to its end.
Serving == {t \in Threads : pc[t] = "callback"}
OutqLen == Cardinality(queued) + Len(reports) + Cardinality(Serving)

\* produce() takes the message; the unique_ptr has it too.
Produce(t) ==
  /\ OutqLen < MaxQueue
  /\ Goes(t, "produce", "release")
  /\ queued' = queued \cup {message[t]}
  /\ UNCHANGED <<vector, message, unborn, freed, ownVars, reports, stored, told>>

\* produce() fails, on a full queue or otherwise: pushMessage returns -1 and its
\* message is deleted.  pushMessages leaves its loop.
ProduceFails(t) ==
  /\ Goes(t, "produce", "idle")
  /\ Deleted({message[t]})
  /\ message' = [message EXCEPT ![t] = Null]
  /\ UNCHANGED <<vector, unborn, ownVars, libraryVars, told>>

\* Mutant: the unique_ptr keeps the message and deletes it at the end.
KeptToEnd(t) == {message[t]}
DeletedAtEnd(t) == {}
Erased(v) == IF v = <<>> THEN <<>> ELSE Tail(v)
\* message.release(); in the loop of pushMessages the element is erased and
\* the next one moved out.
Release(t) ==
  LET rest == Erased(vector[t]) IN
  /\ Goes(t, "release", IF rest = <<>> THEN "idle" ELSE "produce")
  /\ Deleted(DeletedAtEnd(t))
  /\ message' = [message EXCEPT ![t] = IF rest = <<>> THEN Null ELSE Head(rest)]
  /\ vector' = [vector EXCEPT ![t] = IF rest = <<>> THEN <<>> ELSE <<Null>> \o Tail(rest)]
  /\ UNCHANGED <<unborn, ownVars, libraryVars, told>>

\* The caller drops the vector that a failed pushMessages left to it.
DropVector(t) ==
  /\ pc[t] = "idle" /\ vector[t] # <<>>
  /\ Deleted(InVector(t))
  /\ vector' = [vector EXCEPT ![t] = <<>>]
  /\ UNCHANGED <<pc, message, unborn, ownVars, libraryVars, told>>

-----------------------------------------------------------------------------
(* flush and dr_cb *)

Flush(t) ==
  /\ MayPoll
  /\ Calls(t, "flush") /\ vector[t] = <<>>
  /\ UNCHANGED <<vector, message, unborn, freed, ownVars, libraryVars, told>>

\* Mutant: a report that goes on waiting is all that is looked at.
NoReports == reports = <<>>
NothingOut == OutqLen = 0
FlushReturns(t) ==
  /\ NothingOut
  /\ Goes(t, "flush", "idle")
  /\ UNCHANGED <<vector, message, unborn, freed, ownVars, libraryVars, told>>

\* Mutant: whatever may have been stored counts as sent.
Optimistic(status) == IF status = "not" THEN "OnError" ELSE "OnSent"
EventOf(status) == IF status = "persisted" THEN "OnSent" ELSE "OnError"

\* poll() serves a report: dr_cb owns the message again, looks its handler up,
\* which makes an empty entry when there is none, and calls it.
DeliveryReport(t) ==
  /\ reports # <<>>
  /\ Goes(t, "flush", "callback")
  /\ LET m == Head(reports).message
         r == ReqType[m] IN
     /\ message' = [message EXCEPT ![t] = m]
     /\ handlers' = [handlers EXCEPT ![r] = IF @ = "absent" THEN "empty" ELSE @]
     /\ told' = IF handlers[r] = "set"
                THEN [told EXCEPT ![m] = Append(@, EventOf(Head(reports).status))] ELSE told
  /\ reports' = Tail(reports)
  /\ UNCHANGED <<vector, unborn, freed, autoPoll, state, queued, stored>>

\* Mutant: only a message with a handler is owned again.
HandledOnly(t) == IF handlers[ReqType[message[t]]] = "set" THEN {message[t]} ELSE {}
Owned(t) == {message[t]}
\* dr_cb returns and message_managed is deleted.
ReportServed(t) ==
  /\ Goes(t, "callback", "flush")
  /\ Deleted(Owned(t))
  /\ message' = [message EXCEPT ![t] = Null]
  /\ UNCHANGED <<vector, unborn, ownVars, libraryVars, told>>

\* External: the broker takes a message or does not; the report says what the
\* library knows.
Deliver(m) ==
  /\ m \in queued
  /\ queued' = queued \ {m}
  /\ \/ stored' = stored \cup {m} /\ \E s \in {"persisted", "possibly"} :
          reports' = Append(reports, [message |-> m, status |-> s])
     \/ stored' = stored /\ \E s \in {"possibly", "not"} :
          reports' = Append(reports, [message |-> m, status |-> s])
  /\ UNCHANGED <<threadVars, unborn, freed, ownVars, told>>

-----------------------------------------------------------------------------
(* The rest of the interface *)

\* insert() takes the handler only when the type has no entry, not even an
\* empty one.
SetCallBackForReqType(r) ==
  /\ state = "alive"
  /\ handlers' = [handlers EXCEPT ![r] = IF @ = "absent" THEN "set" ELSE @]
  /\ UNCHANGED <<threadVars, unborn, freed, autoPoll, state, libraryVars, told>>

SetAutoPoll(b) ==
  /\ state = "alive"
  /\ autoPoll' = b
  /\ UNCHANGED <<threadVars, unborn, freed, handlers, state, libraryVars, told>>

\* ~RDKafkaPublisher: with _auto_poll it joins a thread that was never started,
\* and the exception ends the process.  The library drops what it has.
Destroy ==
  /\ state = "alive"
  /\ \A t \in Threads : pc[t] = "idle"
  /\ state' = IF autoPoll THEN "aborted" ELSE "gone"
  /\ queued' = {} /\ reports' = <<>>
  /\ UNCHANGED <<threadVars, unborn, freed, handlers, autoPoll, stored, told>>

\* Mutant: flush only waits.
SleepingStep(t) ==
  Produce(t) \/ ProduceFails(t) \/ Release(t) \/ FlushReturns(t)
Step(t) ==
  \/ Produce(t) \/ ProduceFails(t) \/ Release(t)
  \/ FlushReturns(t) \/ DeliveryReport(t) \/ ReportServed(t)

Next ==
  \/ \E t \in Threads : PushMessage(t) \/ PushMessages(t) \/ Flush(t) \/ DropVector(t) \/ Step(t)
  \/ \E m \in Messages : Deliver(m)
  \/ \E r \in Types : SetCallBackForReqType(r)
  \/ \E b \in BOOLEAN : SetAutoPoll(b)
  \/ Destroy

\* Threads run, and the library reports every message in the end, at the latest
\* at message.timeout.ms.  Nobody has to push, flush or destroy.
Fairness ==
  /\ \A t \in Threads : WF_vars(Step(t))
  /\ \A m \in Messages : WF_vars(Deliver(m))

Spec == Init /\ [][Next]_vars /\ Fairness

-----------------------------------------------------------------------------
(* Safety *)

\* The library may read the buffer of a message it has to send, or the opaque
\* pointer of one it has to report: neither is deleted, and no message is
\* deleted twice, also when its report is served before produce()'s caller
\* has let go of it.
BufferValid ==
  /\ \A m \in queued \cup Reported : freed[m] = 0
  /\ \A t \in Serving : freed[message[t]] = 0
  /\ \A m \in Messages : freed[m] <= 1

\* No message is lost from sight while the publisher lives: it is in a
\* caller's vector, in a call, with the library, or deleted.
NoLeak ==
  state = "alive" =>
    \A m \in Messages \ unborn :
      \/ freed[m] > 0 \/ m \in queued \cup Reported
      \/ \E t \in Threads : m = message[t] \/ m \in InVector(t)

\* A handler is told of a message once at most, and OnSent only if the broker
\* has it.
SentIsStored ==
  \A m \in Messages : told[m] = <<>> \/ told[m] = <<"OnError">>
                       \/ (told[m] = <<"OnSent">> /\ m \in stored)

\* When flush returns every message that was ever produced has been reported
\* and deleted, whichever thread served its report.
FlushCovers ==
  [][\A t \in Threads : pc[t] = "flush" /\ pc'[t] = "idle"
       => \A m \in Messages \ unborn :
            \/ freed[m] = 1
            \/ \E u \in Threads : m \in InVector(u) \/ (pc[u] = "produce" /\ message[u] = m)]_vars

-----------------------------------------------------------------------------
(* Liveness *)

\* flush returns, when the threads that push come to an end.
FlushEnds == \A t \in Threads : pc[t] = "flush" ~> pc[t] = "idle"

\* "Callback called after the message has been sent": once a handler is set, a
\* message of its type that the broker has taken leads to a call.
CalledAfterSent ==
  \A m \in Messages :
    (m \in stored \cap Reported /\ handlers[ReqType[m]] = "set")
      ~> (state # "alive" \/ told[m] # <<>>)

=============================================================================
