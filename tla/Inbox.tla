------------------------------- MODULE Inbox -------------------------------
(***************************************************************************)
(* What spawn and schedule promise about messages: a call that succeeds    *)
(* leads to one run of the task with the input it was given, messages of   *)
(* one priority are handed over in the order in which they became ready,   *)
(* and a call is refused only while `capacity` messages of the task are    *)
(* under way.  Slots, rings and locks are left to module Dispatch, which   *)
(* is shown to implement this one.                                         *)
(***************************************************************************)
EXTENDS Naturals, Sequences

CONSTANTS Contexts,     \* who offers and takes messages
          Tasks,
          Senders,      \* what a message tells: who sent it
          Dispatchers,
          Home,         \* the dispatcher of each task
          Capacity      \* of each task

Message == [task : Tasks, from : Senders]

VARIABLES underway,   \* [Tasks -> Nat], accepted and not yet handed over
          offer,      \* [Contexts -> at most one message], on its way
          queue,      \* [Dispatchers -> Seq(Message)]
          hand,       \* [Dispatchers -> at most one message], being read
          timed       \* [Message -> Nat], waiting for their instant

inboxVars == <<underway, offer, queue, hand, timed>>

InboxInit ==
    /\ underway = [t \in Tasks |-> 0]
    /\ offer = [c \in Contexts |-> <<>>]
    /\ queue = [d \in Dispatchers |-> <<>>]
    /\ hand = [d \in Dispatchers |-> <<>>]
    /\ timed = [m \in Message |-> 0]

Accept(c, m) ==
    /\ offer[c] = <<>>
    /\ underway[m.task] < Capacity[m.task]
    /\ underway' = [underway EXCEPT ![m.task] = @ + 1]
    /\ offer' = [offer EXCEPT ![c] = <<m>>]
    /\ UNCHANGED <<queue, hand, timed>>

Enqueue(c, m) ==
    /\ offer[c] = <<m>>
    /\ offer' = [offer EXCEPT ![c] = <<>>]
    /\ queue' = [queue EXCEPT ![Home[m.task]] = Append(@, m)]
    /\ UNCHANGED <<underway, hand, timed>>

Defer(c, m) ==
    /\ offer[c] = <<m>>
    /\ offer' = [offer EXCEPT ![c] = <<>>]
    /\ timed' = [timed EXCEPT ![m] = @ + 1]
    /\ UNCHANGED <<underway, queue, hand>>

Expire(c, m) ==
    /\ offer[c] = <<>>
    /\ timed[m] > 0
    /\ timed' = [timed EXCEPT ![m] = @ - 1]
    /\ offer' = [offer EXCEPT ![c] = <<m>>]
    /\ UNCHANGED <<underway, queue, hand>>

Dequeue(d) ==
    /\ hand[d] = <<>>
    /\ queue[d] # <<>>
    /\ queue' = [queue EXCEPT ![d] = Tail(@)]
    /\ hand' = [hand EXCEPT ![d] = <<Head(queue[d])>>]
    /\ UNCHANGED <<underway, offer, timed>>

(* The task runs with m.                                                   *)
HandOver(d, m) ==
    /\ hand[d] = <<m>>
    /\ hand' = [hand EXCEPT ![d] = <<>>]
    /\ underway' = [underway EXCEPT ![m.task] = @ - 1]
    /\ UNCHANGED <<offer, queue, timed>>

InboxNext ==
    \/ \E c \in Contexts, m \in Message :
          Accept(c, m) \/ Enqueue(c, m) \/ Defer(c, m) \/ Expire(c, m)
    \/ \E d \in Dispatchers : Dequeue(d) \/ \E m \in Message : HandOver(d, m)

InboxSpec == InboxInit /\ [][InboxNext]_inboxVars
=============================================================================
