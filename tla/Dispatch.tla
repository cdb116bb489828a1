------------------------------ MODULE Dispatch ------------------------------
(***************************************************************************)
(* Software tasks at run time: the functions behind spawn and schedule,    *)
(* the task dispatchers, SysTick as a sender of expired messages, and the  *)
(* free and ready queues between them.  Both kinds of queue are heapless   *)
(* single-producer single-consumer rings; claims of their ceilings keep    *)
(* several contexts from working on one end at a time.                     *)
(*                                                                         *)
(* A step is one access to memory that other contexts read or write.  Of   *)
(* Mutex::claim this module keeps the value of the priority cell: a        *)
(* handler starts only above it, which is Kernel's CellMatchesHardware.    *)
(***************************************************************************)
EXTENDS Naturals, Sequences, FiniteSets

CONSTANTS Handlers,      \* interrupts and exceptions bound by the app
          Tasks,
          Dispatchers,   \* free interrupts that serve a level
          Home,          \* the dispatcher of each task
          Priority,      \* of handlers, dispatchers and SysTick
          Capacity,      \* of each task
          Spawns,        \* `spawn = [..]` of each body
          Schedules,     \* `schedule = [..]` of each body
          FreeCeiling,   \* of the free queue of each task
          ReadyCeiling,  \* of the ready queue of each dispatcher
          FreeSize,      \* typenum capacities of the rings
          ReadySize

Bodies == {"init", "idle"} \cup Handlers \cup Tasks

Preemptors == {"SysTick"} \cup Handlers \cup Dispatchers

Contexts == {"init", "idle"} \cup Preemptors

Slots(t) == 0 .. Capacity[t] - 1

ASSUME NamesAssumption ==
    /\ {"init", "idle", "SysTick"} \cap (Handlers \cup Dispatchers \cup Tasks) = {}
    /\ Handlers \cap Dispatchers = {}
    /\ Tasks \cap (Handlers \cup Dispatchers) = {}
    /\ IsFiniteSet(Tasks)
    /\ Home \in [Tasks -> Dispatchers]
    /\ Priority \in [Preemptors -> 1..255]
    /\ Capacity \in [Tasks -> 1..128]
    /\ Spawns \in [Bodies -> SUBSET Tasks]
    /\ Schedules \in [Bodies -> SUBSET Tasks]
    /\ FreeCeiling \in [Tasks -> 0..255]
    /\ ReadyCeiling \in [Dispatchers -> 0..255]
    /\ FreeSize \in [Tasks -> 1..128]
    /\ ReadySize \in [Dispatchers -> 1..128]

LogicalPriority(b) == CASE b = "init" -> 255
                        [] b = "idle" -> 0
                        [] b \in Tasks -> Priority[Home[b]]
                        [] OTHER -> Priority[b]

(* Priorities of the bodies other than init that call for one of `tasks`.  *)
Callers(calls, tasks) ==
    {LogicalPriority(b) : b \in {c \in Bodies \ {"init"} :
                                    calls[c] \cap tasks # {}}}

Covers(ceiling, ends) == \A p, q \in ends : p < q => ceiling >= q

Served(d) == {t \in Tasks : Home[t] = d}

(* Every <<task, slot>> that may be ready at a time: as many as the        *)
(* capacities of the tasks add up to.                                      *)
Messages(d) == UNION {{t} \X Slots(t) : t \in Served(d)}

(* What module Analyze shows of the applications it accepts:               *)
(* DispatchersApart, FreeQueuesExclude, SpawnersExclude, TimerQueueExcludes*)
(* and QueuesFit.                                                          *)
ASSUME AnalysisAssumption ==
    /\ \A d, e \in Dispatchers : Priority[d] = Priority[e] => d = e
    /\ \A t \in Tasks :
          Covers(FreeCeiling[t], Callers(Spawns, {t}) \cup Callers(Schedules, {t}))
    /\ \A d \in Dispatchers : Covers(ReadyCeiling[d], Callers(Spawns, Served(d)))
    /\ \A b \in Bodies : \A t \in Schedules[b] :
          Priority["SysTick"] >= Priority[Home[t]]
    /\ \A t \in Tasks : FreeSize[t] >= Capacity[t]
    /\ \A d \in Dispatchers : ReadySize[d] >= Cardinality(Messages(d))

-----------------------------------------------------------------------------
(* heapless::spsc::Queue.  head and tail run freely; modulo twice the size *)
(* they say as much.  What was never written, or has been moved out by     *)
(* ptr::read, is `vacant` and no valid entry.                              *)
Ring(size, vacant) ==
    [head |-> 0, tail |-> 0, vacant |-> vacant, buf |-> [k \in 0..size-1 |-> vacant]]

Size(ring) == Cardinality(DOMAIN ring.buf)

Next1(ring, n) == (n + 1) % (2 * Size(ring))

Filled(ring) == (ring.tail + 2 * Size(ring) - ring.head) % (2 * Size(ring))

Contents(ring) ==
    [k \in 1..Filled(ring) |-> ring.buf[(ring.head + k - 1) % Size(ring)]]

(* The two halves of enqueue_unchecked, which does not test for room, and  *)
(* of dequeue: an access to the buffer and an access to the counter.       *)
Put(ring, x) == [ring EXCEPT !.buf[ring.tail % Size(ring)] = x]
MoveTail(ring, at) == [ring EXCEPT !.tail = Next1(ring, at)]
First(ring) == ring.buf[ring.head % Size(ring)]
MoveHead(ring, at) ==
    [ring EXCEPT !.head = Next1(ring, at), !.buf[at % Size(ring)] = ring.vacant]

-----------------------------------------------------------------------------
VARIABLES active,    \* contexts on the stack
          pending,   \* interrupts whose pending bit is set
          body,      \* the body each context executes, or "loop"
          pc,        \* what its next step is
          op,        \* locals of the send or dispatch it is inside of
          free,      \* FREE_QUEUE of each task: a ring of slots
          ready,     \* READY_QUEUE of each dispatcher: of <<task, slot>>
          inputs,    \* INPUTS of each task, one input per slot
          timers     \* TIMER_QUEUE: a set of <<task, slot>>

vars == <<active, pending, body, pc, op, free, ready, inputs, timers>>

(* An input is known by the body that sent it.                             *)
Nothing == "nothing"
NoSlot == 255
Idle == [task |-> Nothing, slot |-> 0, at |-> 0, input |-> Nothing]

Sending == {"taking", "writing", "posting", "publishing", "pending", "arming"}
Dispatching == {"taken", "reading", "freeing", "freed"}

Running(c) ==
    c \in active /\ \A d \in active \ {c} : LogicalPriority(d) < LogicalPriority(c)

(* Mutant: one slot too many, `0..=capacity`.                              *)
InitOneMore ==
    /\ active = {"init"}
    /\ pending = {}
    /\ body = [c \in Contexts |-> IF c \in Bodies THEN c ELSE "loop"]
    /\ pc = [c \in Contexts |-> "body"]
    /\ op = [c \in Contexts |-> Idle]
    /\ free = [t \in Tasks |->
                 Put([Ring(FreeSize[t], NoSlot) EXCEPT
                        !.tail = Capacity[t],
                        !.buf = [k \in DOMAIN @ |-> IF k \in Slots(t) THEN k ELSE NoSlot]],
                     Capacity[t])]
    /\ ready = [d \in Dispatchers |-> Ring(ReadySize[d], <<Nothing, NoSlot>>)]
    /\ inputs = [t \in Tasks |-> [i \in Slots(t) |-> Nothing]]
    /\ timers = {}

(* pre_init sets every queue and gives each free queue all its slots;      *)
(* then init runs, with interrupts disabled.                               *)
Init ==
    /\ active = {"init"}
    /\ pending = {}
    /\ body = [c \in Contexts |-> IF c \in Bodies THEN c ELSE "loop"]
    /\ pc = [c \in Contexts |-> "body"]
    /\ op = [c \in Contexts |-> Idle]
    /\ free = [t \in Tasks |->
                 [Ring(FreeSize[t], NoSlot) EXCEPT
                    !.tail = Capacity[t],
                    !.buf = [k \in DOMAIN @ |-> IF k \in Slots(t) THEN k ELSE NoSlot]]]
    /\ ready = [d \in Dispatchers |-> Ring(ReadySize[d], <<Nothing, NoSlot>>)]
    /\ inputs = [t \in Tasks |-> [i \in Slots(t) |-> Nothing]]
    /\ timers = {}

Raised(p, ceiling) == IF p >= ceiling THEN p ELSE ceiling

(* Mutant: the free queue is used without a claim.                         *)
CellReady(c) ==
    LET own == LogicalPriority(c)
    IN CASE pc[c] = "publishing" -> Raised(own, ReadyCeiling[Home[op[c].task]])
         [] OTHER -> own

(* Mutant: the ready queue is used without a claim.                        *)
CellFree(c) ==
    LET own == LogicalPriority(c)
    IN CASE pc[c] = "taking" -> Raised(own, FreeCeiling[op[c].task])
         [] OTHER -> own

(* The priority cell while c is inside a claim of a queue, or outside.     *)
Cell(c) ==
    LET own == LogicalPriority(c)
    IN CASE pc[c] = "taking" -> Raised(own, FreeCeiling[op[c].task])
         [] pc[c] = "publishing" -> Raised(own, ReadyCeiling[Home[op[c].task]])
         [] OTHER -> own

At(c, step) == Running(c) /\ pc[c] = step

Goto(c, step) == pc' = [pc EXCEPT ![c] = step]

-----------------------------------------------------------------------------
(* The hardware of h, or its owner, sets its pending bit.                  *)
Arrive(h) ==
    /\ h \notin pending
    /\ pending' = pending \cup {h}
    /\ UNCHANGED <<active, body, pc, op, free, ready, inputs, timers>>

(* SysTick is set pending by the enqueue of an earliest deadline, or by    *)
(* the counter that its handler started.                                   *)
Tick ==
    /\ timers # {}
    /\ Arrive("SysTick")

FinishInit ==
    /\ At("init", "body")
    /\ active' = {"idle"}
    /\ UNCHANGED <<pending, body, pc, op, free, ready, inputs, timers>>

(* The most urgent pending interrupt starts once it is above every cell.   *)
Preempt(h) ==
    /\ h \in pending \ active
    /\ \A c \in active : Cell(c) < Priority[h]
    /\ \A g \in pending : Priority[g] <= Priority[h]
    /\ active' = active \cup {h}
    /\ pending' = pending \ {h}
    /\ UNCHANGED <<body, pc, op, free, ready, inputs, timers>>

(* A handler or SysTick is over, or a dispatcher has left its loop.        *)
Return(h) ==
    /\ At(h, IF h \in Dispatchers THEN "leaving" ELSE "body")
    /\ active' = active \ {h}
    /\ Goto(h, "body")
    /\ UNCHANGED <<pending, body, op, free, ready, inputs, timers>>

-----------------------------------------------------------------------------
(* spawn.t(..) or schedule.t(..) claims the free queue and reads a slot.   *)
(* Without one it returns Err, which changes nothing.                      *)
Call(c, t) ==
    /\ At(c, "body")
    /\ body[c] # "loop"
    /\ t \in Spawns[body[c]] \cup Schedules[body[c]]
    /\ Filled(free[t]) > 0
    /\ op' = [op EXCEPT ![c] = [task |-> t, slot |-> First(free[t]),
                                at |-> free[t].head, input |-> body[c]]]
    /\ Goto(c, "taking")
    /\ UNCHANGED <<active, pending, body, free, ready, inputs, timers>>

Taken(c) ==
    /\ At(c, "taking")
    /\ free' = [free EXCEPT ![op[c].task] = MoveHead(@, op[c].at)]
    /\ Goto(c, "writing")
    /\ UNCHANGED <<active, pending, body, op, ready, inputs, timers>>

(* The input goes to the slot; then spawn makes the message ready and      *)
(* schedule gives it to the timer queue.                                   *)
Write(c) ==
    LET t == op[c].task IN
    /\ At(c, "writing")
    /\ inputs' = [inputs EXCEPT ![t][op[c].slot] = op[c].input]
    /\ \/ t \in Spawns[body[c]] /\ Goto(c, "posting")
       \/ t \in Schedules[body[c]] /\ Goto(c, "arming")
    /\ UNCHANGED <<active, pending, body, op, free, ready, timers>>

(* The claim of the timer queue: SysTick, and whoever else schedules, is   *)
(* masked by its ceiling (TimerQueueExcludes of module Analyze).           *)
Arm(c) ==
    /\ At(c, "arming")
    /\ timers' = timers \cup {<<op[c].task, op[c].slot>>}
    /\ op' = [op EXCEPT ![c] = Idle]
    /\ Goto(c, "body")
    /\ UNCHANGED <<active, pending, body, free, ready, inputs>>

(* Mutant: the expired message is read and stays in the timer queue.       *)
FirePeeks(x) ==
    /\ At("SysTick", "body")
    /\ x \in timers
    /\ op' = [op EXCEPT !["SysTick"] = [Idle EXCEPT !.task = x[1], !.slot = x[2]]]
    /\ Goto("SysTick", "posting")
    /\ UNCHANGED <<active, pending, body, free, ready, inputs, timers>>

(* SysTick takes out a message that expired; instants are abstracted, so   *)
(* it may be any.  It then posts the message like a spawner.               *)
Fire(x) ==
    /\ At("SysTick", "body")
    /\ x \in timers
    /\ timers' = timers \ {x}
    /\ op' = [op EXCEPT !["SysTick"] = [Idle EXCEPT !.task = x[1], !.slot = x[2]]]
    /\ Goto("SysTick", "posting")
    /\ UNCHANGED <<active, pending, body, free, ready, inputs>>

(* The claim of the ready queue: enqueue_unchecked.                        *)
Post(c) ==
    LET d == Home[op[c].task] IN
    /\ At(c, "posting")
    /\ ready' = [ready EXCEPT ![d] = Put(@, <<op[c].task, op[c].slot>>)]
    /\ op' = [op EXCEPT ![c].at = ready[d].tail]
    /\ Goto(c, "publishing")
    /\ UNCHANGED <<active, pending, body, free, inputs, timers>>

Publish(c) ==
    LET d == Home[op[c].task] IN
    /\ At(c, "publishing")
    /\ ready' = [ready EXCEPT ![d] = MoveTail(@, op[c].at)]
    /\ Goto(c, "pending")
    /\ UNCHANGED <<active, pending, body, op, free, inputs, timers>>

(* Mutant: a dispatcher that has started is not pended again.              *)
PendIdle(c) ==
    /\ At(c, "pending")
    /\ pending' = pending \cup ({Home[op[c].task]} \ active)
    /\ op' = [op EXCEPT ![c] = Idle]
    /\ Goto(c, "body")
    /\ UNCHANGED <<active, body, free, ready, inputs, timers>>

(* rtfm::pend wakes the dispatcher.                                        *)
Pend(c) ==
    /\ At(c, "pending")
    /\ pending' = pending \cup {Home[op[c].task]}
    /\ op' = [op EXCEPT ![c] = Idle]
    /\ Goto(c, "body")
    /\ UNCHANGED <<active, body, free, ready, inputs, timers>>

-----------------------------------------------------------------------------
(* The head of the dispatcher's loop: dequeue, which needs no claim.       *)
Poll(d) ==
    /\ At(d, "body") /\ body[d] = "loop"
    /\ IF Filled(ready[d]) = 0 THEN Goto(d, "leaving") /\ UNCHANGED op
       ELSE LET x == First(ready[d]) IN
            /\ op' = [op EXCEPT ![d] = [task |-> x[1], slot |-> x[2],
                                        at |-> ready[d].head, input |-> Nothing]]
            /\ Goto(d, "taken")
    /\ UNCHANGED <<active, pending, body, free, ready, inputs, timers>>

Remove(d) ==
    /\ At(d, "taken")
    /\ ready' = [ready EXCEPT ![d] = MoveHead(@, op[d].at)]
    /\ Goto(d, "reading")
    /\ UNCHANGED <<active, pending, body, op, free, inputs, timers>>

(* The input is moved out before the slot is given back.                   *)
Read(d) ==
    /\ At(d, "reading")
    /\ op' = [op EXCEPT ![d].input = inputs[op[d].task][op[d].slot]]
    /\ inputs' = [inputs EXCEPT ![op[d].task][op[d].slot] = Nothing]
    /\ Goto(d, "freeing")
    /\ UNCHANGED <<active, pending, body, free, ready, timers>>

Free(d) ==
    LET t == op[d].task IN
    /\ At(d, "freeing")
    /\ free' = [free EXCEPT ![t] = Put(@, op[d].slot)]
    /\ op' = [op EXCEPT ![d].at = free[t].tail]
    /\ Goto(d, "freed")
    /\ UNCHANGED <<active, pending, body, ready, inputs, timers>>

(* The slot is free again and the task runs with the copy.                 *)
Run(d) ==
    LET t == op[d].task IN
    /\ At(d, "freed")
    /\ free' = [free EXCEPT ![t] = MoveTail(@, op[d].at)]
    /\ body' = [body EXCEPT ![d] = t]
    /\ op' = [op EXCEPT ![d] = Idle]
    /\ Goto(d, "body")
    /\ UNCHANGED <<active, pending, ready, inputs, timers>>

(* Mutant: `if let` for `while let`, one message per interrupt.            *)
FinishLeaves(d) ==
    /\ At(d, "body") /\ body[d] # "loop"
    /\ body' = [body EXCEPT ![d] = "loop"]
    /\ Goto(d, "leaving")
    /\ UNCHANGED <<active, pending, op, free, ready, inputs, timers>>

(* The task returns to the loop.                                           *)
Finish(d) ==
    /\ At(d, "body") /\ body[d] # "loop"
    /\ body' = [body EXCEPT ![d] = "loop"]
    /\ UNCHANGED <<active, pending, pc, op, free, ready, inputs, timers>>

-----------------------------------------------------------------------------
(* What the processor does next in c of itself, without a choice.          *)
Proceed(c) ==
    \/ Taken(c) \/ Write(c) \/ Arm(c) \/ Post(c) \/ Publish(c) \/ Pend(c)
    \/ c \in Dispatchers /\ (Poll(c) \/ Remove(c) \/ Read(c) \/ Free(c) \/ Run(c))

End(h) == Return(h) \/ (h \in Dispatchers /\ Finish(h))

Next ==
    \/ FinishInit \/ Tick
    \/ \E h \in Handlers : Arrive(h)
    \/ \E h \in Preemptors : Preempt(h) \/ End(h)
    \/ \E c \in Contexts : Proceed(c) \/ \E t \in Tasks : Call(c, t)
    \/ \E t \in Tasks : \E i \in Slots(t) : Fire(<<t, i>>)

Spec == Init /\ [][Next]_vars

(* Bodies other than idle end, the processor executes the context on top   *)
(* of the stack, and the NVIC starts what is pending when nothing masks    *)
(* it.  All three are interrupted by preemptions, hence strong fairness.   *)
Fairness ==
    /\ WF_vars(FinishInit)
    /\ \A h \in Preemptors : SF_vars(Preempt(h)) /\ SF_vars(End(h))
    /\ \A c \in Contexts : SF_vars(Proceed(c))

FairSpec == Spec /\ Fairness

-----------------------------------------------------------------------------
RingType(ring, size, Items) ==
    /\ ring.head \in 0..2*size-1 /\ ring.tail \in 0..2*size-1
    /\ ring.buf \in [0..size-1 -> Items]

TypeOK ==
    /\ active \in SUBSET Contexts
    /\ pending \in SUBSET Preemptors
    /\ body \in [Contexts -> Bodies \cup {"loop"}]
    /\ pc \in [Contexts -> {"body", "leaving"} \cup Sending \cup Dispatching]
    /\ op \in [Contexts -> [task : Tasks \cup {Nothing}, slot : 0..127,
                            at : 0..511, input : Bodies \cup {Nothing}]]
    /\ \A t \in Tasks :
          /\ RingType(free[t], FreeSize[t], Slots(t) \cup {NoSlot})
          /\ inputs[t] \in [Slots(t) -> Bodies \cup {Nothing}]
    /\ \A d \in Dispatchers :
          RingType(ready[d], ReadySize[d], (Tasks \cup {Nothing}) \X (0..255))
    /\ \A x \in timers : x[1] \in Tasks /\ x[2] \in Slots(x[1])

(* What the analysis leaves open: the ceiling of a ready queue is that of  *)
(* the contexts that spawn, and SysTick enqueues as well (run DispatchRace *)
(* shows what happens where it is too low for that).                       *)
ScheduledTasks == {t \in Tasks : \E b \in Bodies : t \in Schedules[b]}

Ends(d) ==
    Callers(Spawns, Served(d))
      \cup {Priority[s] : s \in {h \in {"SysTick"} : Served(d) \cap ScheduledTasks # {}}}

SendersExcluded == \A d \in Dispatchers : Covers(ReadyCeiling[d], Ends(d))

(* The places where slot i of task t is: waiting in the free queue, in the *)
(* ready queue or in the timer queue, or held by a context between two.    *)
Holding(c, t, i) ==
    /\ pc[c] \in {"writing", "posting", "publishing", "arming",
                  "reading", "freeing", "freed"}
    /\ op[c].task = t /\ op[c].slot = i

Places(t, i) ==
    Cardinality({k \in 1..Filled(free[t]) : Contents(free[t])[k] = i})
    + Cardinality({k \in 1..Filled(ready[Home[t]]) :
                      Contents(ready[Home[t]])[k] = <<t, i>>})
    + Cardinality({<<t, i>>} \cap timers)
    + Cardinality({c \in Contexts : Holding(c, t, i)})

(* No slot is lost and none is in two places, however spawners, SysTick    *)
(* and dispatchers preempt each other inside the queue operations: a lost  *)
(* slot shrinks the inbox of the task for ever ("capacity" in              *)
(* macros/src/lib.rs), a doubled one gives two messages one input.         *)
SlotsConserved == \A t \in Tasks : \A i \in Slots(t) : Places(t, i) = 1

(* enqueue_unchecked always finds room, also in the ready queue that tasks *)
(* of one level share and in a free queue that is being emptied.           *)
RoomLeft ==
    \A c \in active :
        /\ pc[c] \in {"posting", "publishing"} =>
              Filled(ready[Home[op[c].task]]) < ReadySize[Home[op[c].task]]
        /\ pc[c] \in {"freeing", "freed"} =>
              Filled(free[op[c].task]) < FreeSize[op[c].task]

(* No lost wake-up: while a message is ready its dispatcher is pending,    *)
(* will look at the queue again before it returns, or is about to be       *)
(* pended by a sender that has been preempted.                             *)
NoLostWakeup ==
    \A d \in Dispatchers : Filled(ready[d]) > 0 =>
        \/ d \in pending
        \/ d \in active /\ pc[d] # "leaving"
        \/ \E c \in active : pc[c] = "pending" /\ Home[op[c].task] = d

(* Once no interrupt arrives from outside any more, every message that is  *)
(* ready reaches its task (dispatchers in codegen.rs: the loop and the     *)
(* pend after each enqueue leave no message behind).                       *)
ReadyMessages(d) == {Contents(ready[d])[k] : k \in 1..Filled(ready[d])}

MessagesRun ==
    <>[][\A h \in Handlers : ~Arrive(h)]_vars =>
        \A t \in Tasks : \A i \in Slots(t) :
            <<t, i>> \in ReadyMessages(Home[t]) ~> <<t, i>> \notin ReadyMessages(Home[t])

(* A message is the task and whoever sent it; where it is follows from the *)
(* place of its slot.  A slot counts as under way from the moment it is    *)
(* out of the free queue until it is in there again.                       *)
Sent(t, i) == [task |-> t, from |-> inputs[t][i]]

Offered(c) ==
    CASE pc[c] = "writing" -> <<[task |-> op[c].task, from |-> op[c].input]>>
      [] pc[c] \in {"posting", "publishing", "arming"} ->
            <<Sent(op[c].task, op[c].slot)>>
      [] OTHER -> <<>>

InHand(d) ==
    CASE pc[d] = "reading" -> <<Sent(op[d].task, op[d].slot)>>
      [] pc[d] \in {"freeing", "freed"} ->
            <<[task |-> op[d].task, from |-> op[d].input]>>
      [] OTHER -> <<>>

Box == INSTANCE Inbox WITH
    Senders <- Bodies,
    underway <- [t \in Tasks |-> Capacity[t] - Filled(free[t])],
    offer <- [c \in Contexts |-> Offered(c)],
    queue <- [d \in Dispatchers |->
                [k \in 1..Filled(ready[d]) |->
                    Sent(Contents(ready[d])[k][1], Contents(ready[d])[k][2])]],
    hand <- [d \in Dispatchers |-> InHand(d)],
    timed <- [m \in [task : Tasks, from : Bodies] |->
                Cardinality({x \in timers : Sent(x[1], x[2]) = m})]

(* Spawned and scheduled messages reach their tasks exactly once, with     *)
(* their input and, within a level, in order.                              *)
DeliversMessages == Box!InboxSpec
=============================================================================
