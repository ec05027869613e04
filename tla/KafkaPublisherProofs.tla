------------------------ MODULE KafkaPublisherProofs ------------------------
(***************************************************************************)
(* Proofs about KafkaPublisher for any number of threads and messages and  *)
(* any size of the library's queue.                                        *)
(***************************************************************************)
EXTENDS KafkaPublisher, SequenceTheorems, FiniteSetTheorems, TLAPS

-----------------------------------------------------------------------------
(* Where a message is *)

\* A call that will delete its message or give it to the library.
Own(t)  == IF pc[t] \in {"produce", "callback"} THEN {message[t]} ELSE {}
Library == queued \cup Reported
Dead    == {m \in Messages : freed[m] # 0}

\* Every message is in one place at most.
Placed ==
  /\ unborn \cap (Library \cup Dead) = {} /\ Library \cap Dead = {} /\ queued \cap Reported = {}
  /\ \A t \in Threads : /\ Own(t) \subseteq Messages \ (unborn \cup Library \cup Dead)
                        /\ InVector(t) \subseteq Messages \ (unborn \cup Library \cup Dead)
  /\ \A t, u \in Threads : /\ Own(t) \cap InVector(u) = {}
                           /\ t # u => Own(t) \cap Own(u) = {} /\ InVector(t) \cap InVector(u) = {}
Once == \A m \in Messages : freed[m] <= 1

\* The vector of a call keeps the null pointer it has moved its message out of.
VectorShape ==
  \A t \in Threads : vector[t] \in {<<>>, <<Null>>} \cup {<<Null, m>> : m \in Messages}

\* A message that is released was given to produce().
Given == \A t \in Threads : pc[t] \in {"produce", "release", "callback"} => message[t] \in Messages

\* No message waits for two reports.
OneReport == \A i, j \in DOMAIN reports : reports[i].message = reports[j].message => i = j

\* No message is lost from sight.
Kept ==
  state = "alive" =>
    \A m \in Messages \ unborn :
      m \in Library \cup Dead \/ \E t \in Threads : m \in Own(t) \cup InVector(t)

PublisherInv == TypeOK /\ VectorShape /\ Given /\ OneReport /\ Once /\ Placed /\ Kept

-----------------------------------------------------------------------------
(* Vectors and reports *)

LEMMA Vectors ==
  ASSUME PublisherInv, NEW t \in Threads
  PROVE  \/ vector[t] = <<>> /\ InVector(t) = {} /\ Erased(vector[t]) = <<>>
         \/ vector[t] = <<Null>> /\ InVector(t) = {} /\ Erased(vector[t]) = <<>>
         \/ \E m \in Messages : /\ vector[t] = <<Null, m>> /\ InVector(t) = {m}
                                /\ Erased(vector[t]) = <<m>>
<1>1. CASE vector[t] = <<>>
  BY <1>1 DEF InVector, ToSet, Erased
<1>2. CASE vector[t] = <<Null>>
  <2>1. DOMAIN vector[t] = {1} /\ vector[t][1] = Null /\ Tail(<<Null>>) = <<>> /\ vector[t] # <<>>
    BY <1>2
  <2> QED
    BY <1>2, <2>1 DEF InVector, ToSet, Erased
<1>3. ASSUME NEW m \in Messages, vector[t] = <<Null, m>>
      PROVE  InVector(t) = {m} /\ Erased(vector[t]) = <<m>>
  <2>1. DOMAIN vector[t] = {1, 2} /\ vector[t][1] = Null /\ vector[t][2] = m /\ vector[t] # <<>>
    BY <1>3
  <2>2. Tail(<<Null, m>>) = <<m>>
    OBVIOUS
  <2> QED
    BY <1>3, <2>1, <2>2, PublisherAssumption DEF InVector, ToSet, Erased
<1> QED
  BY <1>1, <1>2, <1>3 DEF PublisherInv, VectorShape

LEMMA Reports ==
  ASSUME TypeOK
  PROVE  /\ \A i \in DOMAIN reports : reports[i] \in Report
         /\ Reported = {reports[i].message : i \in DOMAIN reports} /\ Reported \subseteq Messages
         /\ DOMAIN reports = 1..Len(reports) /\ Len(reports) \in Nat
<1>1. /\ \A i \in DOMAIN reports : reports[i] \in Report
      /\ DOMAIN reports = 1..Len(reports) /\ Len(reports) \in Nat
  BY LenProperties, ElementOfSeq DEF TypeOK
<1> QED
  BY <1>1 DEF Reported, ToSet, Report

LEMMA ReportAdded ==
  ASSUME TypeOK, OneReport, NEW r \in Report, r.message \notin Reported, reports' = Append(reports, r)
  PROVE  /\ OneReport' /\ Reported' = Reported \cup {r.message} /\ reports' \in Seq(Report)
         /\ \A x \in ToSet(reports') : x \in ToSet(reports) \/ x = r
<1> DEFINE n == Len(reports)
<1>1. n \in Nat /\ DOMAIN reports = 1..n
  BY Reports
<1>2. /\ reports' \in Seq(Report) /\ DOMAIN reports' = 1..(n + 1) /\ reports'[n + 1] = r
      /\ \A i \in 1..n : reports'[i] = reports[i]
  BY DEF TypeOK
<1> HIDE DEF n
<1>3. DOMAIN reports' = DOMAIN reports \cup {n + 1} /\ n + 1 \notin DOMAIN reports
  BY <1>1, <1>2
<1>4. \A i \in DOMAIN reports : reports[i].message # r.message
  BY Reports
<1>5. OneReport'
  BY <1>1, <1>2, <1>3, <1>4 DEF OneReport
<1>6. Reported' = {reports'[i].message : i \in DOMAIN reports'}
  BY DEF Reported, ToSet
<1>7. Reported' = Reported \cup {r.message}
  BY <1>1, <1>2, <1>3, <1>6, Reports
<1>8. \A x \in ToSet(reports') : x \in ToSet(reports) \/ x = r
  BY <1>1, <1>2, <1>3 DEF ToSet
<1> QED
  BY <1>2, <1>5, <1>7, <1>8

LEMMA ReportTaken ==
  ASSUME TypeOK, OneReport, reports # <<>>, reports' = Tail(reports)
  PROVE  /\ OneReport' /\ Reported' = Reported \ {Head(reports).message} /\ reports' \in Seq(Report)
         /\ Head(reports) \in Report /\ Head(reports).message \in Reported
         /\ Head(reports) \in ToSet(reports) /\ ToSet(reports') \subseteq ToSet(reports)
<1> DEFINE n == Len(reports)
<1>1. n \in Nat \ {0} /\ DOMAIN reports = 1..n
  BY Reports, EmptySeq DEF TypeOK
<1>2. /\ reports' \in Seq(Report) /\ DOMAIN reports' = 1..(n - 1)
      /\ \A i \in 1..(n - 1) : reports'[i] = reports[i + 1]
      /\ Head(reports) = reports[1]
  BY HeadTailProperties, LenProperties DEF TypeOK
<1> HIDE DEF n
<1>3. \A i \in DOMAIN reports' : i + 1 \in DOMAIN reports /\ i + 1 # 1 /\ reports'[i] = reports[i + 1]
  BY <1>1, <1>2
<1>4. \A i \in DOMAIN reports : i = 1 \/ (i - 1 \in DOMAIN reports' /\ reports'[i - 1] = reports[i])
  <2>1. \A i \in 1..n : i = 1 \/ (i - 1 \in 1..(n - 1) /\ i - 1 + 1 = i)
    BY <1>1
  <2> QED
    BY <1>1, <1>2, <2>1
<1>5. 1 \in DOMAIN reports
  BY <1>1
<1>6. OneReport'
  <2>1. \A i, j \in 1..(n - 1) : i + 1 = j + 1 => i = j
    BY <1>1
  <2> QED
    BY <1>2, <1>3, <2>1 DEF OneReport
<1>7. \A i \in DOMAIN reports' : reports'[i].message # reports[1].message
  BY <1>3, <1>5 DEF OneReport
<1>8. Reported' = {reports'[i].message : i \in DOMAIN reports'}
  BY DEF Reported, ToSet
<1>9. Reported' = Reported \ {reports[1].message} /\ reports[1].message \in Reported
  <2>1. Reported = {reports[i].message : i \in DOMAIN reports}
    BY Reports
  <2>2. ASSUME NEW x \in Reported' PROVE x \in Reported /\ x # reports[1].message
    BY <1>3, <1>7, <1>8, <2>1
  <2>3. ASSUME NEW x \in Reported, x # reports[1].message PROVE x \in Reported'
    <3>1. PICK i \in DOMAIN reports : reports[i].message = x
      BY <2>1
    <3>2. i - 1 \in DOMAIN reports' /\ reports'[i - 1] = reports[i]
      BY <1>4, <2>3, <3>1
    <3> QED
      BY <1>8, <3>1, <3>2
  <2> QED
    BY <1>5, <2>1, <2>2, <2>3
<1>10. ToSet(reports') \subseteq ToSet(reports) /\ reports[1] \in ToSet(reports) /\ reports[1] \in Report
  BY <1>3, <1>5, Reports DEF ToSet
<1> QED
  BY <1>2, <1>6, <1>9, <1>10

-----------------------------------------------------------------------------
(* Moves from one place to another *)

\* The threads but t are where they were.
OthersStay(t) ==
  \A u \in Threads \ {t} : pc'[u] = pc[u] /\ message'[u] = message[u] /\ vector'[u] = vector[u]

LEMMA StayPlaces ==
  ASSUME NEW t, OthersStay(t), NEW u \in Threads \ {t}
  PROVE  Own(u)' = Own(u) /\ InVector(u)' = InVector(u)
BY DEF OthersStay, Own, InVector

\* A step of t makes messages, gives some to the library, deletes some and takes
\* over those whose reports it serves: what leaves a place has been in it, and
\* is in one other place afterwards.
Moves(t, born, sent, deleted, served) ==
  /\ OthersStay(t) /\ state' = state
  /\ born \subseteq unborn /\ unborn' = unborn \ born
  /\ sent \subseteq Own(t) /\ queued' = queued \cup sent
  /\ deleted \subseteq Own(t) \cup InVector(t) /\ Dead' = Dead \cup deleted /\ sent \cap deleted = {}
  /\ served \subseteq Reported /\ Reported' = Reported \ served
  /\ Own(t)' \cap InVector(t)' = {}
  /\ InVector(t)' \subseteq InVector(t) \cup born
  /\ Own(t)' \cup InVector(t)' = (Own(t) \cup InVector(t) \cup born \cup served) \ (sent \cup deleted)

LEMMA ThreadMoves ==
  ASSUME PublisherInv, NEW t \in Threads, NEW born, NEW sent, NEW deleted, NEW served,
         Moves(t, born, sent, deleted, served)
  PROVE  Placed' /\ Kept'
<1> USE DEF Moves
<1>1. \A u \in Threads \ {t} : Own(u)' = Own(u) /\ InVector(u)' = InVector(u)
  BY StayPlaces
<1>2. /\ unborn \cap (Library \cup Dead) = {} /\ Library \cap Dead = {} /\ queued \cap Reported = {}
      /\ \A u \in Threads : /\ Own(u) \subseteq Messages \ (unborn \cup Library \cup Dead)
                            /\ InVector(u) \subseteq Messages \ (unborn \cup Library \cup Dead)
      /\ \A u, v \in Threads : /\ Own(u) \cap InVector(v) = {}
                               /\ u # v => Own(u) \cap Own(v) = {} /\ InVector(u) \cap InVector(v) = {}
      /\ Library = queued \cup Reported /\ unborn \subseteq Messages /\ Reported \subseteq Messages
  BY Reports DEF PublisherInv, Placed, TypeOK, Library
<1>3. Library' = (Library \cup sent) \ served
  BY <1>2 DEF Library
<1>4. /\ unborn' \cap (Library' \cup Dead') = {} /\ Library' \cap Dead' = {} /\ queued' \cap Reported' = {}
  BY <1>2, <1>3
<1>5. ASSUME NEW u \in Threads
      PROVE  /\ Own(u)' \subseteq Messages \ (unborn' \cup Library' \cup Dead')
             /\ InVector(u)' \subseteq Messages \ (unborn' \cup Library' \cup Dead')
  <2>1. CASE u = t
    BY <1>2, <1>3, <2>1
  <2>2. CASE u # t
    BY <1>1, <1>2, <1>3, <2>2
  <2> QED
    BY <2>1, <2>2
<1>6. ASSUME NEW u \in Threads, NEW v \in Threads
      PROVE  /\ Own(u)' \cap InVector(v)' = {}
             /\ u # v => Own(u)' \cap Own(v)' = {} /\ InVector(u)' \cap InVector(v)' = {}
  <2>1. CASE u = t /\ v = t
    BY <2>1
  <2>2. CASE u = t /\ v # t
    BY <1>1, <1>2, <2>2
  <2>3. CASE u # t /\ v = t
    BY <1>1, <1>2, <2>3
  <2>4. CASE u # t /\ v # t
    BY <1>1, <1>2, <2>4
  <2> QED
    BY <2>1, <2>2, <2>3, <2>4
<1>7. Placed'
  BY <1>4, <1>5, <1>6 DEF Placed
<1>8. ASSUME state = "alive", NEW m \in Messages \ unborn'
      PROVE  m \in Library' \cup Dead' \/ \E u \in Threads : m \in Own(u)' \cup InVector(u)'
  <2>1. m \in born \/ m \in Library \cup Dead \/ \E u \in Threads : m \in Own(u) \cup InVector(u)
    BY <1>8 DEF PublisherInv, Kept
  <2>2. CASE m \in Own(t) \cup InVector(t) \cup born \cup served
    BY <1>3, <2>2, <1>2
  <2>3. CASE m \in (Library \cup Dead) \ served
    BY <1>3, <2>3
  <2>4. ASSUME NEW u \in Threads \ {t}, m \in Own(u) \cup InVector(u)
        PROVE  m \in Own(u)' \cup InVector(u)'
    BY <1>1, <2>4
  <2> QED
    BY <2>1, <2>2, <2>3, <2>4
<1> QED
  BY <1>7, <1>8 DEF Kept

-----------------------------------------------------------------------------
(* pushMessage and pushMessages *)

\* The invariant but for the moves.
Shapes == TypeOK /\ VectorShape /\ Given /\ OneReport /\ Once

LEMMA DeletedOnce ==
  ASSUME PublisherInv, NEW ms \in SUBSET Messages, Deleted(ms), ms \cap Dead = {}
  PROVE  freed' \in [Messages -> Nat] /\ Once' /\ Dead' = Dead \cup ms
BY DEF PublisherInv, TypeOK, Once, Deleted, Dead

LEMMA PushMessageKeeps ==
  ASSUME PublisherInv, NEW t \in Threads, PushMessage(t)
  PROVE  PublisherInv'
<1>1. PICK m \in unborn : unborn' = unborn \ {m} /\ message' = [message EXCEPT ![t] = m]
  BY DEF PushMessage
<1>2. /\ pc[t] = "idle" /\ pc' = [pc EXCEPT ![t] = "produce"] /\ vector[t] = <<>>
      /\ UNCHANGED <<vector, freed, ownVars, libraryVars, told>>
  BY DEF PushMessage, Calls, Goes
<1>3. Shapes'
  BY <1>1, <1>2 DEF PublisherInv, Shapes, TypeOK, VectorShape, Given, OneReport, Once, ownVars, libraryVars
<1>4. OthersStay(t) /\ pc'[t] = "produce" /\ message'[t] = m
  BY <1>1, <1>2 DEF OthersStay, PublisherInv, TypeOK
<1>5. Own(t) = {} /\ Own(t)' = {m} /\ InVector(t) = {} /\ InVector(t)' = {}
  BY <1>2, <1>4 DEF Own, InVector, ToSet
<1>6. queued' = queued /\ Reported' = Reported /\ Dead' = Dead /\ state' = state
  BY <1>2 DEF libraryVars, ownVars, Reported, Dead
<1>7. Placed' /\ Kept'
  <2>1. Moves(t, {m}, {}, {}, {})
    BY <1>1, <1>4, <1>5, <1>6 DEF Moves
  <2> QED
    BY <2>1, ThreadMoves
<1> QED
  BY <1>3, <1>7 DEF PublisherInv, Shapes

LEMMA PushMessagesKeeps ==
  ASSUME PublisherInv, NEW t \in Threads, PushMessages(t)
  PROVE  PublisherInv'
<1>1. PICK a, b \in unborn : /\ a # b /\ unborn' = unborn \ {a, b}
                            /\ message' = [message EXCEPT ![t] = a]
                            /\ vector' = [vector EXCEPT ![t] = <<Null, b>>]
  BY DEF PushMessages
<1>2. /\ pc[t] = "idle" /\ pc' = [pc EXCEPT ![t] = "produce"] /\ vector[t] = <<>>
      /\ UNCHANGED <<freed, ownVars, libraryVars, told>>
  BY DEF PushMessages, Calls, Goes
<1>3. a \in Messages /\ b \in Messages /\ <<Null, b>> \in Seq(Messages \cup {Null})
  BY <1>1 DEF PublisherInv, TypeOK
<1>4. TypeOK'
  BY <1>1, <1>2, <1>3 DEF PublisherInv, TypeOK, ownVars, libraryVars
<1>5. VectorShape'
  BY <1>1, <1>3 DEF PublisherInv, TypeOK, VectorShape
<1>6. Given' /\ OneReport' /\ Once'
  BY <1>1, <1>2, <1>3 DEF PublisherInv, TypeOK, Given, OneReport, Once, libraryVars
<1>7. OthersStay(t) /\ pc'[t] = "produce" /\ message'[t] = a /\ vector'[t] = <<Null, b>>
  BY <1>1, <1>2 DEF OthersStay, PublisherInv, TypeOK
<1>8. InVector(t)' = {b}
  <2>1. DOMAIN <<Null, b>> = {1, 2} /\ <<Null, b>>[1] = Null /\ <<Null, b>>[2] = b
    OBVIOUS
  <2> QED
    BY <1>3, <1>7, <2>1, PublisherAssumption DEF InVector, ToSet
<1>9. Own(t) = {} /\ Own(t)' = {a} /\ InVector(t) = {}
  BY <1>2, <1>7 DEF Own, InVector, ToSet
<1>10. queued' = queued /\ Reported' = Reported /\ Dead' = Dead /\ state' = state
  BY <1>2 DEF libraryVars, ownVars, Reported, Dead
<1>11. Moves(t, {a, b}, {}, {}, {})
  BY <1>1, <1>7, <1>8, <1>9, <1>10 DEF Moves
<1> QED
  BY <1>4, <1>5, <1>6, <1>11, ThreadMoves DEF PublisherInv

LEMMA ProduceKeeps ==
  ASSUME PublisherInv, NEW t \in Threads, Produce(t)
  PROVE  PublisherInv'
<1>1. PICK m \in Messages : m = message[t]
  BY DEF Produce, Goes, PublisherInv, Given
<1>2. /\ pc[t] = "produce" /\ pc' = [pc EXCEPT ![t] = "release"] /\ queued' = queued \cup {m}
      /\ UNCHANGED <<vector, message, unborn, freed, ownVars, reports, stored, told>>
  BY <1>1 DEF Produce, Goes
<1>3. Shapes'
  BY <1>2 DEF PublisherInv, Shapes, TypeOK, VectorShape, Given, OneReport, Once, ownVars
<1>4. OthersStay(t) /\ pc'[t] = "release"
  BY <1>2 DEF OthersStay, PublisherInv, TypeOK
<1>5. Own(t) = {m} /\ Own(t)' = {} /\ InVector(t)' = InVector(t) /\ m \notin InVector(t)
  BY <1>1, <1>2, <1>4 DEF Own, InVector, PublisherInv, Placed
<1>6. Reported' = Reported /\ Dead' = Dead /\ state' = state /\ unborn' = unborn
  BY <1>2 DEF ownVars, Reported, Dead
<1>7. Moves(t, {}, {m}, {}, {})
  BY <1>2, <1>4, <1>5, <1>6 DEF Moves
<1> QED
  BY <1>3, <1>7, ThreadMoves DEF PublisherInv, Shapes

\* A call that ends deletes the message it owns: a failed produce(), or dr_cb.
LEMMA OwnedDeleted ==
  ASSUME PublisherInv, NEW t \in Threads, ProduceFails(t) \/ ReportServed(t)
  PROVE  PublisherInv' /\ Dead' = Dead \cup {message[t]} /\ OthersStay(t)
<1>1. PICK m \in Messages : m = message[t]
  BY DEF ProduceFails, ReportServed, Goes, PublisherInv, Given
<1>2. PICK to \in {"idle", "flush"} : pc' = [pc EXCEPT ![t] = to]
  BY DEF ProduceFails, ReportServed, Goes
<1>3. /\ pc[t] \in {"produce", "callback"} /\ Deleted({m}) /\ message' = [message EXCEPT ![t] = Null]
      /\ UNCHANGED <<vector, unborn, ownVars, libraryVars, told>>
  BY <1>1 DEF ProduceFails, ReportServed, Owned, Goes
<1>4. Own(t) = {m} /\ m \notin Dead /\ m \notin InVector(t)
  BY <1>1, <1>3 DEF Own, PublisherInv, Placed
<1>5. freed' \in [Messages -> Nat] /\ Once' /\ Dead' = Dead \cup {m}
  <2>1. {m} \in SUBSET Messages /\ {m} \cap Dead = {}
    BY <1>4
  <2> QED
    BY <1>3, <2>1, DeletedOnce
<1>6. OthersStay(t) /\ pc'[t] = to
  BY <1>2, <1>3 DEF OthersStay, PublisherInv, TypeOK
<1>7. Shapes'
  BY <1>2, <1>3, <1>5 DEF PublisherInv, Shapes, TypeOK, VectorShape, Given, OneReport, ownVars, libraryVars
<1>8. Own(t)' = {} /\ InVector(t)' = InVector(t)
  BY <1>3, <1>6 DEF Own, InVector
<1>9. queued' = queued /\ Reported' = Reported /\ state' = state /\ unborn' = unborn
  BY <1>3 DEF ownVars, libraryVars, Reported
<1>10. Moves(t, {}, {}, {m}, {})
  BY <1>4, <1>5, <1>6, <1>8, <1>9 DEF Moves
<1> QED
  BY <1>1, <1>5, <1>6, <1>7, <1>10, ThreadMoves DEF PublisherInv, Shapes

LEMMA ReleaseKeeps ==
  ASSUME PublisherInv, NEW t \in Threads, Release(t)
  PROVE  PublisherInv' /\ Dead' = Dead /\ OthersStay(t)
<1>1. /\ pc[t] = "release" /\ Deleted({})
      /\ UNCHANGED <<unborn, ownVars, libraryVars, told>>
  BY DEF Release, Goes, DeletedAtEnd
<1>2. freed' \in [Messages -> Nat] /\ Once' /\ Dead' = Dead
  <2>1. {} \in SUBSET Messages /\ {} \cap Dead = {}
    OBVIOUS
  <2> QED
    BY <1>1, <2>1, DeletedOnce
<1>3. queued' = queued /\ Reported' = Reported /\ state' = state /\ unborn' = unborn /\ Own(t) = {}
  BY <1>1 DEF ownVars, libraryVars, Reported, Own
<1>4. CASE Erased(vector[t]) = <<>>
  <2>1. /\ pc' = [pc EXCEPT ![t] = "idle"] /\ message' = [message EXCEPT ![t] = Null]
        /\ vector' = [vector EXCEPT ![t] = <<>>]
    BY <1>4 DEF Release, Goes
  <2>2. InVector(t) = {}
    <3>1. \A m : <<m>> # <<>>
      OBVIOUS
    <3> QED
      BY <1>4, <3>1, Vectors
  <2>3. OthersStay(t) /\ pc'[t] = "idle" /\ vector'[t] = <<>>
    BY <2>1 DEF OthersStay, PublisherInv, TypeOK
  <2>4. Shapes'
    BY <1>1, <1>2, <2>1 DEF PublisherInv, Shapes, TypeOK, VectorShape, Given, OneReport, ownVars, libraryVars
  <2>5. Own(t)' = {} /\ InVector(t)' = {}
    BY <2>3 DEF Own, InVector, ToSet
  <2>6. Moves(t, {}, {}, {}, {})
    BY <1>2, <1>3, <2>2, <2>3, <2>5 DEF Moves
  <2> QED
    BY <1>2, <2>3, <2>4, <2>6, ThreadMoves DEF PublisherInv, Shapes
<1>5. CASE Erased(vector[t]) # <<>>
  <2>1. PICK m \in Messages : InVector(t) = {m} /\ Erased(vector[t]) = <<m>>
    BY <1>5, Vectors
  <2>2. Head(<<m>>) = m /\ <<Null>> \o Tail(<<m>>) = <<Null>> /\ <<Null>> \in Seq(Messages \cup {Null})
    OBVIOUS
  <2>3. /\ pc' = [pc EXCEPT ![t] = "produce"] /\ message' = [message EXCEPT ![t] = m]
        /\ vector' = [vector EXCEPT ![t] = <<Null>>]
    BY <1>5, <2>1, <2>2 DEF Release, Goes
  <2>4. OthersStay(t) /\ pc'[t] = "produce" /\ message'[t] = m /\ vector'[t] = <<Null>>
    BY <2>3 DEF OthersStay, PublisherInv, TypeOK
  <2>5. Shapes'
    BY <1>1, <1>2, <2>2, <2>3 DEF PublisherInv, Shapes, TypeOK, VectorShape, Given, OneReport, ownVars, libraryVars
  <2>6. Own(t)' = {m} /\ InVector(t)' = {}
    <3>1. DOMAIN <<Null>> = {1} /\ <<Null>>[1] = Null
      OBVIOUS
    <3> QED
      BY <2>4, <3>1 DEF Own, InVector, ToSet
  <2>7. Moves(t, {}, {}, {}, {})
    BY <1>2, <1>3, <2>1, <2>4, <2>6 DEF Moves
  <2> QED
    BY <1>2, <2>4, <2>5, <2>7, ThreadMoves DEF PublisherInv, Shapes
<1> QED
  BY <1>4, <1>5

LEMMA DropVectorKeeps ==
  ASSUME PublisherInv, NEW t \in Threads, DropVector(t)
  PROVE  PublisherInv' /\ Dead \subseteq Dead' /\ UNCHANGED <<pc, message>>
<1>1. PICK ms \in SUBSET Messages : ms = InVector(t)
  BY DEF PublisherInv, Placed
<1>2. /\ pc[t] = "idle" /\ Deleted(ms) /\ vector' = [vector EXCEPT ![t] = <<>>]
      /\ UNCHANGED <<pc, message, unborn, ownVars, libraryVars, told>>
  BY <1>1 DEF DropVector
<1>3. freed' \in [Messages -> Nat] /\ Once' /\ Dead' = Dead \cup ms
  <2>1. ms \cap Dead = {}
    BY <1>1 DEF PublisherInv, Placed
  <2> QED
    BY <1>2, <2>1, DeletedOnce
<1>4. Shapes'
  BY <1>2, <1>3 DEF PublisherInv, Shapes, TypeOK, VectorShape, Given, OneReport, ownVars, libraryVars
<1>5. OthersStay(t) /\ vector'[t] = <<>>
  BY <1>2 DEF OthersStay, PublisherInv, TypeOK
<1>6. Own(t) = {} /\ Own(t)' = {} /\ InVector(t)' = {}
  BY <1>2, <1>5 DEF Own, InVector, ToSet
<1>7. queued' = queued /\ Reported' = Reported /\ state' = state /\ unborn' = unborn
  BY <1>2 DEF ownVars, libraryVars, Reported
<1>8. Moves(t, {}, {}, ms, {})
  BY <1>1, <1>3, <1>5, <1>6, <1>7 DEF Moves
<1> QED
  BY <1>2, <1>3, <1>4, <1>8, ThreadMoves DEF PublisherInv, Shapes

-----------------------------------------------------------------------------
(* The delivery reports *)

LEMMA DeliveryReportKeeps ==
  ASSUME PublisherInv, NEW t \in Threads, DeliveryReport(t)
  PROVE  /\ PublisherInv' /\ OthersStay(t) /\ Dead' = Dead
         /\ pc[t] = "flush" /\ pc'[t] = "callback" /\ message'[t] = Head(reports).message
<1>1. /\ Reported' = Reported \ {Head(reports).message} /\ reports' \in Seq(Report) /\ OneReport'
      /\ Head(reports) \in Report /\ Head(reports).message \in Reported
  BY ReportTaken DEF PublisherInv, DeliveryReport
<1>2. PICK m \in Messages : m = Head(reports).message
  BY <1>1 DEF Report
<1>3. /\ pc[t] = "flush" /\ pc' = [pc EXCEPT ![t] = "callback"] /\ message' = [message EXCEPT ![t] = m]
      /\ UNCHANGED <<vector, unborn, freed, autoPoll, state, queued, stored>>
  BY <1>2 DEF DeliveryReport, Goes
<1>4. /\ handlers' = [handlers EXCEPT ![ReqType[m]] = IF @ = "absent" THEN "empty" ELSE @]
      /\ told' = told \/ told' = [told EXCEPT ![m] = Append(@, EventOf(Head(reports).status))]
  BY <1>2 DEF DeliveryReport
<1>5. TypeOK'
  <2>1. handlers' \in [Types -> {"absent", "empty", "set"}]
    BY <1>4, PublisherAssumption DEF PublisherInv, TypeOK
  <2>2. told' \in [Messages -> Seq({"OnSent", "OnError"})]
    <3>1. PICK e \in {"OnSent", "OnError"} : e = EventOf(Head(reports).status)
      BY DEF EventOf
    <3>2. told \in [Messages -> Seq({"OnSent", "OnError"})]
      BY DEF PublisherInv, TypeOK
    <3>3. Append(told[m], e) \in Seq({"OnSent", "OnError"})
      BY <3>2, AppendProperties
    <3> QED
      BY <1>4, <3>1, <3>2, <3>3
  <2> QED
    BY <1>1, <1>3, <2>1, <2>2 DEF PublisherInv, TypeOK
<1>6. VectorShape' /\ Given' /\ Once'
  BY <1>3 DEF PublisherInv, TypeOK, VectorShape, Given, Once
<1>7. OthersStay(t) /\ pc'[t] = "callback" /\ message'[t] = m
  BY <1>3 DEF OthersStay, PublisherInv, TypeOK
<1>8. /\ Own(t) = {} /\ Own(t)' = {m} /\ InVector(t)' = InVector(t) /\ m \notin InVector(t)
      /\ Dead' = Dead
  BY <1>1, <1>2, <1>3, <1>7 DEF Own, InVector, Dead, PublisherInv, Placed, Library
<1>9. Moves(t, {}, {}, {}, {m})
  BY <1>1, <1>2, <1>3, <1>7, <1>8 DEF Moves
<1> QED
  BY <1>1, <1>2, <1>3, <1>5, <1>6, <1>7, <1>8, <1>9, ThreadMoves DEF PublisherInv

LEMMA DeliverKeeps ==
  ASSUME PublisherInv, NEW m \in Messages, Deliver(m)
  PROVE  /\ PublisherInv'
         /\ \E r \in Report : /\ r.message = m /\ reports' = Append(reports, r)
                              /\ r.status = "persisted" => m \in stored'
         /\ stored \subseteq stored' /\ UNCHANGED <<threadVars, unborn, freed, ownVars, told>>
<1>1. /\ m \in queued /\ queued' = queued \ {m} /\ stored \subseteq stored' /\ stored' \subseteq stored \cup {m}
      /\ UNCHANGED <<threadVars, unborn, freed, ownVars, told>>
  BY DEF Deliver
<1>2. \E r \in Report : r.message = m /\ reports' = Append(reports, r) /\ (r.status = "persisted" => m \in stored')
  <2> DEFINE Of(s) == [message |-> m, status |-> s]
  <2>1. PICK s \in Status : reports' = Append(reports, Of(s)) /\ (s = "persisted" => m \in stored')
    BY DEF Deliver, Status
  <2>2. Of(s) \in Report /\ Of(s).message = m /\ Of(s).status = s
    BY DEF Report
  <2> HIDE DEF Of
  <2> QED
    BY <2>1, <2>2
<1>3. PICK r \in Report : r.message = m /\ reports' = Append(reports, r)
  BY <1>2
<1>4. m \notin Reported
  BY <1>1 DEF PublisherInv, Placed
<1>5. OneReport' /\ Reported' = Reported \cup {m} /\ reports' \in Seq(Report)
  BY <1>3, <1>4, ReportAdded DEF PublisherInv
<1>6. Shapes'
  BY <1>1, <1>5 DEF PublisherInv, Shapes, TypeOK, VectorShape, Given, Once, threadVars, ownVars
<1>7. Library' = Library /\ queued' \cap Reported' = {}
  BY <1>1, <1>5 DEF Library, PublisherInv, Placed
<1>8. /\ unborn' = unborn /\ Dead' = Dead /\ state' = state
      /\ \A t \in Threads : Own(t)' = Own(t) /\ InVector(t)' = InVector(t)
  BY <1>1 DEF threadVars, ownVars, Dead, Own, InVector
<1>9. Placed' /\ Kept'
  BY <1>7, <1>8 DEF PublisherInv, Placed, Kept
<1> QED
  BY <1>1, <1>2, <1>6, <1>9 DEF PublisherInv, Shapes

-----------------------------------------------------------------------------
(* The other steps *)

LEMMA NoMoveKeeps ==
  ASSUME PublisherInv,
         \/ \E t \in Threads : Flush(t) \/ FlushReturns(t)
         \/ \E r \in Types : SetCallBackForReqType(r)
         \/ \E b \in BOOLEAN : SetAutoPoll(b)
  PROVE  /\ PublisherInv' /\ UNCHANGED <<message, reports, stored, told>>
         /\ Dead' = Dead
         /\ \A t \in Threads : pc[t] = "callback" <=> pc'[t] = "callback"
<1>1. UNCHANGED <<vector, message, unborn, freed, state, libraryVars, told>>
  BY DEF Flush, FlushReturns, SetCallBackForReqType, SetAutoPoll, threadVars, ownVars
<1>2. \/ pc' = pc
      \/ \E t \in Threads : pc[t] = "idle" /\ pc' = [pc EXCEPT ![t] = "flush"]
      \/ \E t \in Threads : pc[t] = "flush" /\ pc' = [pc EXCEPT ![t] = "idle"]
  BY DEF Flush, FlushReturns, Calls, Goes, SetCallBackForReqType, SetAutoPoll, threadVars
<1>3. /\ pc' \in [Threads -> {"idle", "produce", "release", "flush", "callback"}]
      /\ \A t \in Threads : \A at \in {"produce", "release", "callback"} : pc[t] = at <=> pc'[t] = at
  BY <1>2 DEF PublisherInv, TypeOK
<1>4. handlers' \in [Types -> {"absent", "empty", "set"}] /\ autoPoll' \in BOOLEAN
  BY DEF PublisherInv, TypeOK, Flush, FlushReturns, SetCallBackForReqType, SetAutoPoll, ownVars
<1>5. Shapes'
  BY <1>1, <1>3, <1>4 DEF PublisherInv, Shapes, TypeOK, VectorShape, Given, OneReport, Once, libraryVars
<1>6. /\ unborn' = unborn /\ Dead' = Dead /\ Library' = Library /\ queued' = queued /\ Reported' = Reported
      /\ state' = state /\ \A t \in Threads : Own(t)' = Own(t) /\ InVector(t)' = InVector(t)
  BY <1>1, <1>3 DEF libraryVars, Dead, Own, InVector, Library, Reported
<1>7. Placed' /\ Kept'
  BY <1>6 DEF PublisherInv, Placed, Kept
<1> QED
  BY <1>1, <1>3, <1>5, <1>6, <1>7 DEF PublisherInv, Shapes, libraryVars

LEMMA DestroyKeeps ==
  ASSUME PublisherInv, Destroy
  PROVE  PublisherInv' /\ reports' = <<>> /\ UNCHANGED <<threadVars, freed, stored, told>>
<1>1. /\ state' \in {"aborted", "gone"} /\ queued' = {} /\ reports' = <<>>
      /\ UNCHANGED <<threadVars, unborn, freed, handlers, autoPoll, stored, told>>
  BY DEF Destroy
<1>2. Reported' = {} /\ Library' = {} /\ DOMAIN reports' = {}
  BY <1>1 DEF Reported, Library, ToSet
<1>3. Shapes'
  BY <1>1, <1>2, EmptySeq DEF PublisherInv, Shapes, TypeOK, VectorShape, Given, OneReport, Once, threadVars
<1>4. /\ unborn' = unborn /\ Dead' = Dead
      /\ \A t \in Threads : Own(t)' = Own(t) /\ InVector(t)' = InVector(t)
  BY <1>1 DEF threadVars, Dead, Own, InVector
<1>5. Placed' /\ Kept'
  BY <1>1, <1>2, <1>4 DEF PublisherInv, Placed, Kept
<1> QED
  BY <1>1, <1>3, <1>5 DEF PublisherInv, Shapes

-----------------------------------------------------------------------------
(* What the handlers are told *)

\* A message that is reported as persisted is stored; and one a handler has been
\* told of is in its callback or deleted, so that it is never told of again.
Served(m) == m \in Dead \/ \E t \in Threads : pc[t] = "callback" /\ message[t] = m
ToldInv ==
  /\ \A r \in ToSet(reports) : r.status = "persisted" => r.message \in stored
  /\ \A m \in Messages : told[m] # <<>> => Served(m)
  /\ SentIsStored

LEMMA ServedKeeps ==
  ASSUME NEW t \in Threads, OthersStay(t), Dead \subseteq Dead',
         pc[t] = "callback" => message[t] \in Dead' \/ (pc'[t] = "callback" /\ message'[t] = message[t])
  PROVE  \A m \in Messages : Served(m) => Served(m)'
<1> SUFFICES ASSUME NEW m \in Messages, NEW u \in Threads, pc[u] = "callback", message[u] = m PROVE Served(m)'
  BY DEF Served
<1>1. CASE u = t
  BY <1>1 DEF Served
<1>2. CASE u # t
  BY <1>2 DEF Served, OthersStay
<1> QED
  BY <1>1, <1>2

LEMMA ToldSame ==
  ASSUME ToldInv, \A m \in Messages : Served(m) => Served(m)',
         reports' = reports, stored' = stored, told' = told
  PROVE  ToldInv'
BY DEF ToldInv, SentIsStored

LEMMA InvStep == PublisherInv /\ ToldInv /\ [Next]_vars => (PublisherInv /\ ToldInv)'
<1> SUFFICES ASSUME PublisherInv, ToldInv, [Next]_vars PROVE PublisherInv' /\ ToldInv'
  OBVIOUS
<1>1. ASSUME NEW t \in Threads, PushMessage(t) \/ PushMessages(t) \/ Produce(t)
      PROVE  PublisherInv' /\ ToldInv'
  <2>1. PublisherInv'
    BY <1>1, PushMessageKeeps, PushMessagesKeeps, ProduceKeeps
  <2>2. OthersStay(t) /\ pc[t] # "callback" /\ UNCHANGED <<reports, stored, told, freed>>
    BY <1>1 DEF PushMessage, PushMessages, Produce, Calls, Goes, OthersStay, libraryVars, PublisherInv, TypeOK
  <2>3. ToldInv'
    BY <2>2, ServedKeeps, ToldSame DEF Dead
  <2> QED
    BY <2>1, <2>3
<1>2. ASSUME NEW t \in Threads, ProduceFails(t) \/ ReportServed(t) \/ Release(t)
      PROVE  PublisherInv' /\ ToldInv'
  <2>1. /\ PublisherInv' /\ OthersStay(t) /\ Dead \subseteq Dead'
        /\ pc[t] = "callback" => message[t] \in Dead'
    BY <1>2, OwnedDeleted, ReleaseKeeps DEF Release, Goes
  <2>2. UNCHANGED <<reports, stored, told>>
    BY <1>2 DEF ProduceFails, ReportServed, Release, libraryVars
  <2>3. ToldInv'
    BY <2>1, <2>2, ServedKeeps, ToldSame
  <2> QED
    BY <2>1, <2>3
<1>3. ASSUME NEW t \in Threads, DropVector(t)
      PROVE  PublisherInv' /\ ToldInv'
  <2>1. PublisherInv' /\ Dead \subseteq Dead' /\ UNCHANGED <<pc, message, reports, stored, told>>
    BY <1>3, DropVectorKeeps DEF DropVector, libraryVars
  <2>2. ToldInv'
    BY <2>1, ToldSame DEF Served
  <2> QED
    BY <2>1, <2>2
<1>4. ASSUME NEW t \in Threads, DeliveryReport(t)
      PROVE  PublisherInv' /\ ToldInv'
  <2> DEFINE r == Head(reports)
  <2>1. /\ PublisherInv' /\ OthersStay(t) /\ Dead' = Dead
        /\ pc[t] = "flush" /\ pc'[t] = "callback" /\ message'[t] = r.message
    BY <1>4, DeliveryReportKeeps
  <2>2. /\ r \in ToSet(reports) /\ ToSet(reports') \subseteq ToSet(reports) /\ r.message \in Reported
    BY <1>4, ReportTaken DEF PublisherInv, DeliveryReport
  <2>3. PICK m \in Messages : m = r.message
    BY <2>2, Reports DEF PublisherInv
  <2>4. /\ stored' = stored
        /\ told' = told \/ told' = [told EXCEPT ![m] = Append(@, EventOf(r.status))]
    BY <1>4, <2>3 DEF DeliveryReport
  <2>5. \A x \in Messages : Served(x) => Served(x)'
    BY <2>1, ServedKeeps
  <2>6. Served(m)'
    BY <2>1, <2>3 DEF Served
  <2>7. ~Served(m)
    BY <2>2, <2>3 DEF Served, PublisherInv, Placed, Library, Own
  <2>8. told[m] = <<>>
    BY <2>7 DEF ToldInv
  <2>9. PICK e \in {"OnSent", "OnError"} : e = EventOf(r.status)
    BY DEF EventOf
  <2>10. e = "OnSent" => m \in stored
    BY <2>2, <2>3, <2>9 DEF EventOf, ToldInv
  <2> HIDE DEF r
  <2>11. Append(<<>>, e) = <<e>>
    OBVIOUS
  <2>12. \A x \in Messages : told'[x] = told[x] \/ (x = m /\ told'[x] = <<e>>)
    BY <2>4, <2>8, <2>9, <2>11 DEF PublisherInv, TypeOK
  <2>13. SentIsStored'
    BY <2>4, <2>10, <2>12 DEF ToldInv, SentIsStored
  <2> QED
    BY <2>1, <2>2, <2>4, <2>5, <2>6, <2>12, <2>13 DEF ToldInv
<1>5. ASSUME NEW m \in Messages, Deliver(m)
      PROVE  PublisherInv' /\ ToldInv'
  <2>1. /\ PublisherInv' /\ stored \subseteq stored' /\ UNCHANGED <<threadVars, unborn, freed, ownVars, told>>
        /\ \E r \in Report : /\ r.message = m /\ reports' = Append(reports, r)
                             /\ r.status = "persisted" => m \in stored'
    BY <1>5, DeliverKeeps
  <2>2. PICK r \in Report : /\ r.message = m /\ reports' = Append(reports, r)
                            /\ r.status = "persisted" => m \in stored'
    BY <2>1
  <2>3. m \notin Reported
    BY <1>5 DEF Deliver, PublisherInv, Placed
  <2>4. \A x \in ToSet(reports') : x \in ToSet(reports) \/ x = r
    <3>1. TypeOK /\ OneReport
      BY DEF PublisherInv
    <3>2. r \in Report /\ r.message \notin Reported /\ reports' = Append(reports, r)
      BY <2>2, <2>3
    <3> HIDE <2>1, <2>2, <2>3
    <3> QED
      BY <3>1, <3>2, ReportAdded
  <2>5. \A x \in Messages : Served(x) => Served(x)'
    BY <2>1 DEF threadVars, Served, Dead
  <2>6. \A x \in ToSet(reports') : x.status = "persisted" => x.message \in stored'
    <3> SUFFICES ASSUME NEW x \in ToSet(reports'), x.status = "persisted"
                 PROVE  x.message \in stored'
      OBVIOUS
    <3>1. CASE x \in ToSet(reports)
      BY <2>1, <3>1 DEF ToldInv
    <3>2. CASE x = r
      BY <2>2, <3>2
    <3> QED
      BY <2>4, <3>1, <3>2
  <2>7. SentIsStored'
    BY <2>1 DEF ToldInv, SentIsStored
  <2>8. \A x \in Messages : told'[x] # <<>> => Served(x)'
    BY <2>1, <2>5 DEF ToldInv
  <2> QED
    BY <2>1, <2>6, <2>7, <2>8 DEF ToldInv
<1>6. CASE \/ \E t \in Threads : Flush(t) \/ FlushReturns(t)
           \/ \E r \in Types : SetCallBackForReqType(r)
           \/ \E b \in BOOLEAN : SetAutoPoll(b)
  <2>1. /\ PublisherInv' /\ UNCHANGED <<message, reports, stored, told>> /\ Dead' = Dead
        /\ \A t \in Threads : pc[t] = "callback" <=> pc'[t] = "callback"
    BY <1>6, NoMoveKeeps
  <2> QED
    BY <2>1, ToldSame DEF Served
<1>7. CASE Destroy
  <2>1. PublisherInv' /\ reports' = <<>> /\ UNCHANGED <<threadVars, freed, stored, told>>
    BY <1>7, DestroyKeeps
  <2>2. ToSet(reports') = {}
    BY <2>1 DEF ToSet
  <2> QED
    BY <2>1, <2>2 DEF ToldInv, SentIsStored, Served, Dead, threadVars
<1>8. CASE UNCHANGED vars
  BY <1>8 DEF vars, threadVars, ownVars, libraryVars, PublisherInv, TypeOK, VectorShape, Given, OneReport,
     Once, Placed, Kept, Own, Library, Dead, Reported, InVector, ToldInv, Served, SentIsStored
<1> QED
  BY <1>1, <1>2, <1>3, <1>4, <1>5, <1>6, <1>7, <1>8 DEF Next, Step

LEMMA InvInit == Init => PublisherInv /\ ToldInv
<1> SUFFICES ASSUME Init PROVE PublisherInv /\ ToldInv
  OBVIOUS
<1>1. DOMAIN reports = {} /\ Reported = {} /\ ToSet(reports) = {} /\ Library = {} /\ Dead = {}
  BY DEF Init, Reported, ToSet, Library, Dead
<1>2. \A t \in Threads : Own(t) = {} /\ InVector(t) = {}
  BY DEF Init, Own, InVector, ToSet
<1>3. TypeOK
  BY EmptySeq DEF Init, TypeOK
<1>4. VectorShape /\ Given /\ OneReport /\ Once
  BY <1>1 DEF Init, VectorShape, Given, OneReport, Once
<1>5. Placed /\ Kept
  BY <1>1, <1>2 DEF Init, Placed, Kept
<1>6. ToldInv
  BY <1>1 DEF Init, ToldInv, SentIsStored
<1> QED
  BY <1>3, <1>4, <1>5, <1>6 DEF PublisherInv

-----------------------------------------------------------------------------
(* What outq_len() counts *)

\* The counted sets are finite, and nobody is in a call of a publisher that is
\* gone.
Counted ==
  /\ IsFiniteSet(queued) /\ IsFiniteSet(Serving)
  /\ \A t \in Threads : pc[t] # "idle" => state = "alive"

LEMMA CountedInit == Init => Counted
<1> SUFFICES ASSUME Init PROVE Counted
  OBVIOUS
<1>1. queued = {} /\ Serving = {}
  BY DEF Init, Serving
<1> QED
  BY <1>1, FS_EmptySet DEF Init, Counted

LEMMA CountedStep == TypeOK /\ Counted /\ [Next]_vars => Counted'
<1> SUFFICES ASSUME TypeOK, Counted, [Next]_vars PROVE Counted'
  OBVIOUS
<1>1. CASE \E t \in Threads : PushMessage(t) \/ PushMessages(t) \/ Flush(t) \/ DropVector(t) \/ Step(t)
  <2> PICK t \in Threads : PushMessage(t) \/ PushMessages(t) \/ Flush(t) \/ DropVector(t) \/ Step(t)
    BY <1>1
  <2>1. /\ state' = state /\ queued' \subseteq queued \cup {message[t]}
        /\ \A u \in Threads \ {t} : pc'[u] = pc[u]
        /\ pc[t] # "idle" \/ state = "alive" \/ pc' = pc
    BY DEF TypeOK, PushMessage, PushMessages, Flush, DropVector, Step, Produce, ProduceFails, Release,
       FlushReturns, DeliveryReport, ReportServed, Calls, Goes, ownVars, libraryVars
  <2>2. Serving' \subseteq Serving \cup {t}
    BY <2>1 DEF Serving
  <2>3. IsFiniteSet(queued') /\ IsFiniteSet(Serving')
    BY <2>1, <2>2, FS_AddElement, FS_Subset DEF Counted
  <2>4. \A u \in Threads : pc'[u] # "idle" => state' = "alive"
    BY <2>1 DEF Counted
  <2> QED
    BY <2>3, <2>4 DEF Counted
<1>2. CASE Destroy
  <2>1. queued' = {} /\ pc' = pc /\ \A t \in Threads : pc[t] = "idle"
    BY <1>2 DEF Destroy, threadVars
  <2> QED
    BY <2>1, FS_EmptySet DEF Counted, Serving
<1>3. CASE \/ \E m \in Messages : Deliver(m)
           \/ \E r \in Types : SetCallBackForReqType(r)
           \/ \E b \in BOOLEAN : SetAutoPoll(b)
           \/ UNCHANGED vars
  <2>1. queued' \subseteq queued /\ pc' = pc /\ state' = state
    BY <1>3 DEF Deliver, SetCallBackForReqType, SetAutoPoll, vars, threadVars, ownVars, libraryVars
  <2>2. IsFiniteSet(queued')
    BY <2>1, FS_Subset DEF Counted
  <2> QED
    BY <2>1, <2>2 DEF Counted, Serving
<1> QED
  BY <1>1, <1>2, <1>3 DEF Next

LEMMA NothingLeft ==
  ASSUME TypeOK, Counted, OutqLen = 0
  PROVE  queued = {} /\ Serving = {} /\ Reported = {}
<1> DEFINE n == Len(reports)
<1>1. n \in Nat /\ DOMAIN reports = 1..n
  BY Reports
<1>2. Cardinality(queued) \in Nat /\ Cardinality(Serving) \in Nat
  BY FS_CardinalityType DEF Counted
<1>3. Cardinality(queued) + n + Cardinality(Serving) = 0
  BY DEF OutqLen
<1> HIDE DEF n
<1>4. Cardinality(queued) = 0 /\ n = 0 /\ Cardinality(Serving) = 0
  BY <1>1, <1>2, <1>3
<1>5. queued = {} /\ Serving = {}
  BY <1>4, FS_EmptySet DEF Counted
<1>6. DOMAIN reports = {}
  BY <1>1, <1>4
<1> QED
  BY <1>5, <1>6, Reports

-----------------------------------------------------------------------------
(* The theorems *)

\* The library never holds a buffer that has been deleted, and no message is
\* deleted twice: at any time one call, one vector or the library has it.
THEOREM BufferAlwaysValid == Spec => []BufferValid
<1>1. PublisherInv => BufferValid
  <2> SUFFICES ASSUME PublisherInv PROVE BufferValid
    OBVIOUS
  <2>1. \A m \in Messages : m \notin Dead => freed[m] = 0
    BY DEF Dead
  <2>2. \A m \in queued \cup Reported : m \in Messages /\ m \notin Dead
    BY Reports DEF PublisherInv, Placed, Library, TypeOK
  <2>3. \A t \in Serving : message[t] \in Messages /\ message[t] \notin Dead
    BY DEF PublisherInv, Placed, Serving, Own
  <2>4. \A m \in Messages : freed[m] <= 1
    BY DEF PublisherInv, Once
  <2> QED
    BY <2>1, <2>2, <2>3, <2>4 DEF BufferValid
<1> QED
  BY <1>1, InvInit, InvStep, PTL DEF Spec

\* While the publisher lives every message that was made is in a vector, in a
\* call, with the library, or deleted.
THEOREM NeverLeaks == Spec => []NoLeak
<1>1. PublisherInv => NoLeak
  <2> SUFFICES ASSUME PublisherInv, state = "alive", NEW m \in Messages \ unborn
               PROVE  \/ freed[m] > 0 \/ m \in queued \cup Reported
                      \/ \E t \in Threads : m = message[t] \/ m \in InVector(t)
    BY DEF NoLeak
  <2>1. m \in Library \cup Dead \/ \E t \in Threads : m \in Own(t) \cup InVector(t)
    BY DEF PublisherInv, Kept
  <2>2. m \in Dead => freed[m] > 0
    BY DEF Dead, PublisherInv, TypeOK
  <2> QED
    BY <2>1, <2>2 DEF Library, Own
<1> QED
  BY <1>1, InvInit, InvStep, PTL DEF Spec

\* A handler is told of a message once at most, with one event, and it is told
\* OnSent only of what the broker has.
THEOREM SentIsAlwaysStored == Spec => []SentIsStored
<1>1. ToldInv => SentIsStored
  BY DEF ToldInv
<1> QED
  BY <1>1, InvInit, InvStep, PTL DEF Spec

\* A flush that returns leaves no message behind that was produced: each is
\* deleted, or still in the hands of a thread that has not produced it.
THEOREM FlushAlwaysCovers == Spec => FlushCovers
<1> DEFINE Rest(m) == \/ freed[m] = 1
                      \/ \E u \in Threads : m \in InVector(u) \/ (pc[u] = "produce" /\ message[u] = m)
<1>1. ASSUME PublisherInv, Counted, [Next]_vars,
             NEW t \in Threads, pc[t] = "flush", pc'[t] = "idle", NEW m \in Messages \ unborn
      PROVE  Rest(m)
  <2>1. OutqLen = 0
    <3>1. ASSUME NEW u \in Threads, Step(u) \/ PushMessage(u) \/ PushMessages(u) \/ Flush(u) \/ DropVector(u)
          PROVE  OutqLen = 0
      BY <1>1, <3>1 DEF Step, PushMessage, PushMessages, Flush, DropVector, Produce, ProduceFails, Release,
         FlushReturns, NothingOut, DeliveryReport, ReportServed, Calls, Goes, PublisherInv, TypeOK
    <3>2. CASE pc' = pc
      BY <1>1, <3>2
    <3>3. \/ pc' = pc
          \/ \E u \in Threads : Step(u) \/ PushMessage(u) \/ PushMessages(u) \/ Flush(u) \/ DropVector(u)
      BY <1>1 DEF Next, Deliver, SetCallBackForReqType, SetAutoPoll, Destroy, vars, threadVars
    <3> QED
      BY <3>1, <3>2, <3>3
  <2>2. queued = {} /\ Serving = {} /\ Reported = {}
    BY <1>1, <2>1, NothingLeft DEF PublisherInv
  <2>3. m \in Dead \/ \E u \in Threads : m \in Own(u) \cup InVector(u)
    BY <1>1, <2>2 DEF Counted, PublisherInv, Kept, Library
  <2>4. m \in Dead => freed[m] = 1
    BY <1>1 DEF Dead, PublisherInv, Once, TypeOK
  <2>5. \A u \in Threads : m \in Own(u) => pc[u] = "produce" /\ message[u] = m
    BY <2>2 DEF Own, Serving
  <2> QED
    BY <2>3, <2>4, <2>5
<1>2. PublisherInv /\ Counted /\ [Next]_vars
        => [\A t \in Threads : pc[t] = "flush" /\ pc'[t] = "idle" => \A m \in Messages \ unborn : Rest(m)]_vars
  BY <1>1
<1>3. PublisherInv => TypeOK
  BY DEF PublisherInv
<1> QED
  BY <1>2, <1>3, InvInit, InvStep, CountedInit, CountedStep, PTL DEF Spec, FlushCovers

=============================================================================
