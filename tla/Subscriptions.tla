--------------------------- MODULE Subscriptions ---------------------------
(***************************************************************************)
(* What the gateway promises its users about monitor commands, without     *)
(* threads, locks or EPICS: the commands of a channel take effect one      *)
(* after the other in the order they were given, and after each of them    *)
(* the channel's monitor is brought in line with whether the channel still *)
(* has a subscribed topic.                                                 *)
(***************************************************************************)
EXTENDS Sequences

CONSTANTS Channels, Topics

VARIABLES
  queue,      \* per channel, the commands that have not taken effect
  subscribed, \* per channel, the set of topics its data goes to
  settled,    \* whether the monitor is in line with subscribed
  monitored   \* the channels whose monitor is on

vars == <<queue, subscribed, settled, monitored>>

Wish == [topic : Topics, activate : BOOLEAN]

Init ==
  /\ queue = [ch \in Channels |-> <<>>]
  /\ subscribed = [ch \in Channels |-> {}]
  /\ settled = [ch \in Channels |-> TRUE]
  /\ monitored = {}

Ask(ch, wish) ==
  /\ queue' = [queue EXCEPT ![ch] = Append(@, wish)]
  /\ UNCHANGED <<subscribed, settled, monitored>>

Apply(ch) ==
  /\ queue[ch] # <<>> /\ settled[ch]
  /\ LET wish == Head(queue[ch]) IN
       subscribed' = [subscribed EXCEPT ![ch] =
         IF wish.activate THEN @ \cup {wish.topic} ELSE @ \ {wish.topic}]
  /\ queue' = [queue EXCEPT ![ch] = Tail(@)]
  /\ settled' = [settled EXCEPT ![ch] = FALSE]
  /\ UNCHANGED monitored

Settle(ch) ==
  /\ ~settled[ch]
  /\ settled' = [settled EXCEPT ![ch] = TRUE]
  /\ monitored' = IF subscribed[ch] # {} THEN monitored \cup {ch} ELSE monitored \ {ch}
  /\ UNCHANGED <<queue, subscribed>>

Next == \E ch \in Channels :
  (\E wish \in Wish : Ask(ch, wish)) \/ Apply(ch) \/ Settle(ch)

Spec == Init /\ [][Next]_vars

=============================================================================
