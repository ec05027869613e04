------------------------------ MODULE Storage ------------------------------
(***************************************************************************)
(* DataStorage, ChannelRepository and NodeConfiguration: threads that read *)
(* and write the table channel_monitor under the recursive storage_mutex.  *)
(* A method with one statement is one step that the mutex lets happen;     *)
(* insert has two statements, and processAllChannelMonitor holds the mutex *)
(* while it calls a handler, which may use the repository again.           *)
(*                                                                         *)
(* The SQLite file is external.  Ids are never given twice.                *)
(***************************************************************************)
EXTENDS Naturals, SequencesExt

CONSTANTS
  Threads,  \* the threads that use the storage
  Rows,     \* ChannelMonitorType without its id
  Stored,   \* what the file may hold of an earlier process, in the order of the ids
  MaxCalls  \* bound: calls in one behaviour, those of handlers included

ASSUME StorageAssumption ==
  /\ \A r \in Rows : {"name", "protocol"} \subseteq DOMAIN r
  /\ \A s \in Stored : s \in Seq(Rows) /\ IsInjective(s)
  /\ MaxCalls \in Nat

VARIABLES
  table,  \* external: the rows of channel_monitor by id
  lastId, \* external: the last id given
  open,   \* whether the DataStorage object exists
  stack,  \* the calls each thread is in, the innermost last
  calls,  \* calls so far
  before, \* history: the ids in the table when a thread's iteration read the pairs
  met     \* history: the ids its handler has been called with since

tableVars == <<table, lastId>>
history   == <<before, met>>
vars == <<tableVars, open, stack, calls, history>>

Pair == {<<r.name, r.protocol>> : r \in Rows}

Add(rows, at)           == [op |-> "add", rows |-> rows, at |-> at]
Process(name, at, from, last) ==
  [op |-> "process", name |-> name, at |-> at, from |-> from, last |-> last]
Iterate(pairs, at)      == [op |-> "iterate", pairs |-> pairs, at |-> at]
\* A call with one statement, and the rows it deletes: remove, removeAll, and
\* isPresent, getChannelMonitor or getDistinctByNameProtocol.
Single(rows)            == [op |-> "single", rows |-> rows]

Frame ==
  [op : {"add"}, rows : Seq(Rows), at : {"call", "found", "new"}]
    \cup [op : {"process"}, name : {r.name : r \in Rows}, at : {"call", "next", "handler"},
          from : SUBSET Nat, last : Nat]
    \cup [op : {"iterate"}, pairs : SUBSET Pair, at : {"call", "loop"}]
    \cup [op : {"single"}, rows : SUBSET Rows]

Init ==
  /\ table \in Stored /\ lastId = Len(table)
  /\ open = FALSE
  /\ stack = [t \in Threads |-> <<>>]
  /\ calls = 0
  /\ before = [t \in Threads |-> {}] /\ met = [t \in Threads |-> {}]

\* DataStorage(path): a path with a file name is the file, a directory gets
\* one, and anything else throws.  The schema is the one the file has.
Open ==
  /\ ~open /\ open' = TRUE
  /\ UNCHANGED <<tableVars, stack, calls, history>>

\* The owner of the object destroys it when no thread is inside.
Close ==
  /\ open /\ open' = FALSE
  /\ \A t \in Threads : stack[t] = <<>>
  /\ UNCHANGED <<tableVars, stack, calls, history>>

-----------------------------------------------------------------------------
(* StorageLockedRef *)

Top(t) == Last(stack[t])
Replaced(t, frame) == stack' = [stack EXCEPT ![t] = Append(Front(@), frame)]
Popped(t) == stack' = [stack EXCEPT ![t] = Front(@)]

Inside(frame) ==
  \/ frame.op = "add" /\ frame.at # "call"
  \/ frame.op = "process" /\ frame.at # "call"

\* storage_mutex is held once for every call of a thread that is inside it:
\* get() locks, and the destructor of the reference unlocks.
Holds(t) == \E i \in DOMAIN stack[t] : Inside(stack[t][i])

\* Mutants: a mutex that is not recursive, and none at all.
FreeOnly(t) == \A u \in Threads : ~Holds(u)
NoMutex(t) == TRUE
Available(t) == \A u \in Threads \ {t} : ~Holds(u)

-----------------------------------------------------------------------------
(* A call from outside, or from the handler of a scan *)

MayCall(t) == stack[t] # <<>> => Top(t).op = "process" /\ Top(t).at = "handler"

Call(t, frame) ==
  /\ open /\ calls < MaxCalls /\ MayCall(t)
  /\ calls' = calls + 1
  /\ stack' = [stack EXCEPT ![t] = Append(@, frame)]
  /\ UNCHANGED <<tableVars, open, history>>

\* addChannelMonitor and removeChannelMonitor both insert each element.
AddChannelMonitor(t) ==
  \E r, s \in Rows : Call(t, Add(<<r>>, "call")) \/ (r # s /\ Call(t, Add(<<r, s>>, "call")))

RemoveRow(t)    == \E r \in Rows : Call(t, Single({r}))
RemoveAll(t) == Call(t, Single(Rows))
Query(t)     == Call(t, Single({}))

IterateAll(t) == stack[t] = <<>> /\ Call(t, Iterate({}, "call"))

-----------------------------------------------------------------------------
(* insert *)

Present(row) == \E i \in DOMAIN table : table[i] = row

InsertCount(t) ==
  /\ Top(t).op = "add" /\ Top(t).at = "call" /\ Top(t).rows # <<>>
  /\ Available(t)
  /\ Replaced(t, [Top(t) EXCEPT !.at = IF Present(Head(Top(t).rows)) THEN "found" ELSE "new"])
  /\ UNCHANGED <<tableVars, open, calls, history>>

InsertRow(t) ==
  /\ Top(t).op = "add" /\ Top(t).at # "call"
  /\ IF Top(t).at = "new"
     THEN /\ lastId' = lastId + 1
          /\ table' = [i \in DOMAIN table \cup {lastId + 1} |->
                         IF i = lastId + 1 THEN Head(Top(t).rows) ELSE table[i]]
     ELSE UNCHANGED tableVars
  /\ Replaced(t, Add(Tail(Top(t).rows), "call"))
  /\ UNCHANGED <<open, calls, history>>

AddReturns(t) ==
  /\ Top(t).op = "add" /\ Top(t).at = "call" /\ Top(t).rows = <<>>
  /\ Popped(t)
  /\ UNCHANGED <<tableVars, open, calls, history>>

-----------------------------------------------------------------------------
(* remove, removeAll and the queries *)

Execute(t) ==
  /\ Top(t).op = "single"
  /\ Available(t)
  /\ table' = [i \in {j \in DOMAIN table : table[j] \notin Top(t).rows} |-> table[i]]
  /\ Popped(t)
  /\ UNCHANGED <<lastId, open, calls, history>>

-----------------------------------------------------------------------------
(* iterateAllChannelMonitor and processAllChannelMonitor *)

Named(name) == {i \in DOMAIN table : table[i].name = name}
\* Mutant: the pair of the first row stands for all of them.
FirstPair == {<<table[i].name, table[i].protocol>> : i \in {j \in DOMAIN table : \A k \in DOMAIN table : j <= k}}
Distinct == {<<table[i].name, table[i].protocol>> : i \in DOMAIN table}

\* getDistinctByNameProtocol
ReadPairs(t) ==
  /\ Top(t).op = "iterate" /\ Top(t).at = "call"
  /\ Available(t)
  /\ Replaced(t, Iterate(Distinct, "loop"))
  /\ before' = [before EXCEPT ![t] = DOMAIN table]
  /\ met' = [met EXCEPT ![t] = {}]
  /\ UNCHANGED <<tableVars, open, calls>>

\* The next pair: only its name is used.
NextPair(t) ==
  /\ Top(t).op = "iterate" /\ Top(t).at = "loop"
  /\ \E p \in Top(t).pairs :
       stack' = [stack EXCEPT ![t] = Append(Append(Front(@), Iterate(Top(t).pairs \ {p}, "loop")),
                                            Process(p[1], "call", {}, 0))]
  /\ UNCHANGED <<tableVars, open, calls, history>>

IterateReturns(t) ==
  /\ Top(t).op = "iterate" /\ Top(t).at = "loop" /\ Top(t).pairs = {}
  /\ Popped(t)
  /\ UNCHANGED <<tableVars, open, calls, history>>

ScanStarts(t) ==
  /\ Top(t).op = "process" /\ Top(t).at = "call"
  /\ Available(t)
  /\ Replaced(t, Process(Top(t).name, "next", Named(Top(t).name), 0))
  /\ UNCHANGED <<tableVars, open, calls, history>>

\* The rows a scan has still to meet: those it began with, unless they were
\* deleted.  It may meet one that was inserted since, too.
ToMeet(t) == {i \in Top(t).from \cap DOMAIN table : i > Top(t).last}

ScanMeets(t) ==
  /\ Top(t).op = "process" /\ Top(t).at = "next"
  /\ \E i \in Named(Top(t).name) :
       /\ i > Top(t).last /\ \A j \in ToMeet(t) : i <= j
       /\ Replaced(t, [Top(t) EXCEPT !.at = "handler", !.last = i])
       /\ met' = [met EXCEPT ![t] = @ \cup {i}]
  /\ UNCHANGED <<tableVars, open, calls, before>>

HandlerReturns(t) ==
  /\ Top(t).op = "process" /\ Top(t).at = "handler"
  /\ Replaced(t, [Top(t) EXCEPT !.at = "next"])
  /\ UNCHANGED <<tableVars, open, calls, history>>

ScanEnds(t) ==
  /\ Top(t).op = "process" /\ Top(t).at = "next" /\ ToMeet(t) = {}
  /\ Popped(t)
  /\ UNCHANGED <<tableVars, open, calls, history>>

\* The database or a handler throws: every call of the thread is left, and
\* every reference to the storage that it has is destroyed.
Throw(t) ==
  /\ stack[t] # <<>>
  /\ stack' = [stack EXCEPT ![t] = <<>>]
  /\ UNCHANGED <<tableVars, open, calls, history>>

Step(t) ==
  /\ stack[t] # <<>>
  /\ \/ InsertCount(t) \/ InsertRow(t) \/ AddReturns(t) \/ Execute(t)
     \/ ReadPairs(t) \/ NextPair(t) \/ IterateReturns(t)
     \/ ScanStarts(t) \/ ScanMeets(t) \/ HandlerReturns(t) \/ ScanEnds(t)

Next ==
  \/ Open \/ Close
  \/ \E t \in Threads : \/ AddChannelMonitor(t) \/ RemoveRow(t) \/ RemoveAll(t) \/ Query(t) \/ IterateAll(t)
                        \/ Step(t) \/ Throw(t)

\* The operating system runs every thread, handlers return, and a thread that
\* waits for storage_mutex gets it if it is free again and again.
Fairness == \A t \in Threads : SF_vars(Step(t))

Spec == Init /\ [][Next]_vars /\ Fairness

-----------------------------------------------------------------------------
(* Safety *)

TypeOK ==
  /\ lastId \in Nat
  /\ DOMAIN table \subseteq 1..lastId /\ \A i \in DOMAIN table : table[i] \in Rows
  /\ open \in BOOLEAN
  /\ stack \in [Threads -> Seq(Frame)]
  /\ calls \in 0..MaxCalls
  /\ {before, met} \subseteq [Threads -> SUBSET (1..lastId)]

\* insert: "if (!found)": no two rows are equal but for their ids, whatever
\* threads and handlers insert and remove at the same time.
RowsDistinct == \A i, j \in DOMAIN table : table[i] = table[j] => i = j

\* iterateAllChannelMonitor: the pairs and the rows of each are read under
\* different locks; yet when the call returns, its handler has been called
\* with every row that was there from the first to the last.
IterationCovers ==
  \A t \in Threads :
    (stack[t] # <<>> /\ Top(t) = Iterate({}, "loop")) => before[t] \cap DOMAIN table \subseteq met[t]

-----------------------------------------------------------------------------
(* Liveness *)

\* Every call returns or throws, also one that a handler makes while its scan
\* has the mutex.
CallsEnd == \A t \in Threads : stack[t] # <<>> ~> stack[t] = <<>>

=============================================================================
