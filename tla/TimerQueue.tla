----------------------------- MODULE TimerQueue -----------------------------
(***************************************************************************)
(* The timer queue: the schedule functions that put messages into a binary *)
(* heap ordered by instant, the SysTick counter, and the SysTick handler   *)
(* (tq::isr) that releases the messages whose instant has passed and sets  *)
(* the counter for the next one.                                           *)
(*                                                                         *)
(* The queue is only used inside claims of its ceiling, so an enqueue is   *)
(* one step; in the handler's claim time goes on between the reading of    *)
(* the clock and the writes to the counter, which are steps of their own.  *)
(* left[x] is a ghost: the plain integer time until the instant of x.      *)
(***************************************************************************)
EXTENDS Instants

CONSTANTS Messages,    \* a task and the slot of its input
          MaxReload,   \* 0x00ffffff, the largest SysTick reload value
          Ahead,       \* a message is scheduled at most this far ahead
          Lag,         \* and is started at most this long after its instant
          Delay        \* a claim of the handler lasts at most this long

(* Without the last bound the wrapped differences do not order instants.   *)
ASSUME TimesAssumption ==
    /\ MaxReload \in Nat \ {0}
    /\ Ahead \in Nat /\ Lag \in Nat /\ Delay \in Nat
    /\ Ahead + Lag < Half

Times == -Lag .. Ahead

VARIABLES now,       \* DWT cycle counter
          started,   \* both counters run: post_init is over
          queue,     \* messages in the heap
          ready,     \* released: in the ready queue of their dispatcher
          instant,   \* NotReady::instant, later `scheduled`, of each message
          left,
          tickint,   \* SYST interrupt enabled
          reload,    \* SYST reload value
          current,   \* SYST current value
          pended,    \* the pending bit of SysTick
          pc,        \* where the SysTick handler is
          root,      \* the message it peeked at or popped
          diff,      \* its local
          slack      \* ghost: time since the handler read the clock

clock == <<now, started, left>>
syst  == <<tickint, reload, current>>
vars  == <<clock, queue, ready, instant, syst, pended, pc, root, diff, slack>>

None == "none"

InClaim == pc \in {"measured", "loaded"}

Live == queue \cup ready \cup (IF pc = "popped" THEN {root} ELSE {})

(* pre_init: the queue is empty and the cycle counter is 0 and disabled    *)
(* while init runs.  The reset values of the SysTick counter are unknown.  *)
Init ==
    /\ now = 0 /\ started = FALSE
    /\ queue = {} /\ ready = {}
    /\ instant = [x \in Messages |-> 0]
    /\ left = [x \in Messages |-> 0]
    /\ tickint = FALSE /\ pended = FALSE
    /\ reload \in 0..MaxReload /\ current \in 0..MaxReload
    /\ pc = "out" /\ root = None /\ diff = 0 /\ slack = 0

(* post_init enables both counters; then interrupts are enabled.           *)
PostInit ==
    /\ ~started
    /\ started' = TRUE
    /\ UNCHANGED <<now, left, queue, ready, instant, syst, pended, pc, root, diff, slack>>

(* What the counter does in a cycle: it counts down, pends SysTick when it *)
(* reaches 0, and is loaded again from there.  With reload 0 it stays 0.   *)
Count ==
    /\ current' = IF current = 0 THEN reload ELSE current - 1
    /\ pended' = (pended \/ (tickint /\ current = 1))
    /\ UNCHANGED <<tickint, reload>>

(* Mutant: the counter of instants saturates.                              *)
TickStops ==
    /\ started
    /\ \A x \in Live : left[x] > -Lag
    /\ InClaim => slack < Delay
    /\ now' = IF now = Half - 1 THEN now ELSE now + 1
    /\ left' = [x \in Messages |-> IF x \in Live THEN left[x] - 1 ELSE left[x]]
    /\ slack' = IF InClaim THEN slack + 1 ELSE slack
    /\ Count
    /\ UNCHANGED <<started, queue, ready, instant, pc, root, diff>>

(* A cycle passes.  The guards are the assumptions Lag and Delay: the      *)
(* processor keeps up.                                                     *)
Tick ==
    /\ started
    /\ \A x \in Live : left[x] > -Lag
    /\ InClaim => slack < Delay
    /\ now' = WrappingAdd(now, 1)
    /\ left' = [x \in Messages |-> IF x \in Live THEN left[x] - 1 ELSE left[x]]
    /\ slack' = IF InClaim THEN slack + 1 ELSE slack
    /\ Count
    /\ UNCHANGED <<started, queue, ready, instant, pc, root, diff>>

(* The root of the heap.  Messages of equal instants may be in any order.  *)
Roots == {x \in queue : \A y \in queue : ~Earlier(instant[y], instant[x])}

(* Mutant: SysTick is set pending for the first message only.              *)
ScheduleFirst(x, d) ==
    /\ ~InClaim
    /\ x \notin Live
    /\ instant' = [instant EXCEPT ![x] = WrappingAdd(now, d)]
    /\ left' = [left EXCEPT ![x] = d]
    /\ queue' = queue \cup {x}
    /\ tickint' = (tickint \/ queue = {})
    /\ pended' = (pended \/ queue = {})
    /\ UNCHANGED <<now, started, ready, reload, current, pc, root, diff, slack>>

(* Mutant: the interrupt of the timer is not enabled again.                *)
ScheduleMuted(x, d) ==
    /\ ~InClaim
    /\ x \notin Live
    /\ instant' = [instant EXCEPT ![x] = WrappingAdd(now, d)]
    /\ left' = [left EXCEPT ![x] = d]
    /\ queue' = queue \cup {x}
    /\ pended' = (pended \/ \A y \in queue : Earlier(instant'[x], instant[y]))
    /\ UNCHANGED <<now, started, ready, syst, pc, root, diff, slack>>

(* schedule.t(now + d, ..), or scheduled + period, which may be past.  An  *)
(* earliest instant sets SysTick pending, and the first one enables its    *)
(* interrupt (enqueue_unchecked).                                          *)
Schedule(x, d) ==
    /\ ~InClaim
    /\ x \notin Live
    /\ instant' = [instant EXCEPT ![x] = WrappingAdd(now, d)]
    /\ left' = [left EXCEPT ![x] = d]
    /\ queue' = queue \cup {x}
    /\ tickint' = (tickint \/ queue = {})
    /\ pended' = (pended \/ \A y \in queue : Earlier(instant'[x], instant[y]))
    /\ UNCHANGED <<now, started, ready, reload, current, pc, root, diff, slack>>

-----------------------------------------------------------------------------
Enter ==
    /\ started /\ pended /\ pc = "out"
    /\ pended' = FALSE
    /\ pc' = "loop"
    /\ UNCHANGED <<clock, queue, ready, instant, syst, root, diff, slack>>

(* The claim of the handler: peek and read the clock.                      *)
Measure(x) ==
    /\ pc = "loop"
    /\ x \in Roots
    /\ root' = x
    /\ diff' = WrappingSub(instant[x], now)
    /\ slack' = 0
    /\ pc' = "measured"
    /\ UNCHANGED <<clock, queue, ready, instant, syst, pended>>

(* The queue is empty: the handler returns.                                *)
DisableInterrupt ==
    /\ pc = "loop" /\ queue = {}
    /\ tickint' = FALSE
    /\ pc' = "out"
    /\ UNCHANGED <<clock, queue, ready, instant, reload, current, pended, root, diff, slack>>

Pop ==
    /\ pc = "measured" /\ diff < 0
    /\ queue' = queue \ {root}
    /\ pc' = "popped"
    /\ UNCHANGED <<clock, ready, instant, syst, pended, root, diff, slack>>

SmallerOf(m, n) == IF m < n THEN m ELSE n

(* Mutant: a reload value beyond the 24 bits of the counter.               *)
SetReloadWide ==
    /\ pc = "measured" /\ diff >= 0
    /\ reload' = diff
    /\ pc' = "loaded"
    /\ UNCHANGED <<clock, queue, ready, instant, tickint, current, pended, root, diff, slack>>

SetReload ==
    /\ pc = "measured" /\ diff >= 0
    /\ reload' = SmallerOf(MaxReload, diff)
    /\ pc' = "loaded"
    /\ UNCHANGED <<clock, queue, ready, instant, tickint, current, pended, root, diff, slack>>

(* The counter starts from the new reload value and the handler returns.   *)
ClearCurrent ==
    /\ pc = "loaded"
    /\ current' = 0
    /\ pc' = "out"
    /\ UNCHANGED <<clock, queue, ready, instant, tickint, reload, pended, root, diff, slack>>

(* Outside the claim the message goes to the ready queue of its level.     *)
Deliver ==
    /\ pc = "popped"
    /\ ready' = ready \cup {root}
    /\ pc' = "loop"
    /\ UNCHANGED <<clock, queue, instant, syst, pended, root, diff, slack>>

(* The dispatcher takes a message and runs its task; the slot is free.     *)
(* What instant and left were does not matter any more.                    *)
Start(x) ==
    /\ x \in ready
    /\ ready' = ready \ {x}
    /\ instant' = [instant EXCEPT ![x] = 0]
    /\ left' = [left EXCEPT ![x] = 0]
    /\ UNCHANGED <<now, started, queue, syst, pended, pc, root, diff, slack>>

-----------------------------------------------------------------------------
SysTick ==
    \/ Enter \/ DisableInterrupt \/ Pop \/ SetReload \/ ClearCurrent \/ Deliver
    \/ \E x \in Messages : Measure(x)

Next ==
    \/ PostInit \/ Tick \/ SysTick
    \/ \E x \in Messages : Start(x) \/ \E d \in Times : Schedule(x, d)

Spec == Init /\ [][Next]_vars

(* Time passes, the NVIC starts SysTick when it is pending, its handler    *)
(* goes on, and dispatchers take what is ready (MessagesRun of Dispatch).  *)
Fairness ==
    /\ WF_vars(PostInit) /\ SF_vars(Tick) /\ WF_vars(SysTick)
    /\ \A x \in Messages : WF_vars(Start(x))

FairSpec == Spec /\ Fairness

-----------------------------------------------------------------------------
TypeOK ==
    /\ now \in I32 /\ started \in BOOLEAN
    /\ queue \in SUBSET Messages /\ ready \in SUBSET Messages
    /\ instant \in [Messages -> I32]
    /\ left \in [Messages -> Times]
    /\ tickint \in BOOLEAN /\ pended \in BOOLEAN
    /\ reload \in 0..MaxReload /\ current \in 0..MaxReload
    /\ pc \in {"out", "loop", "measured", "loaded", "popped"}
    /\ root \in Messages \cup {None}
    /\ diff \in I32
    /\ slack \in 0..Delay

(* The wrapped instants tell the real time that is left, across the wrap   *)
(* of the cycle counter (Instant::cmp and `instant.0.wrapping_sub(now)`).  *)
InstantsExact ==
    \A x \in Live : WrappingSub(instant[x], now) = left[x]

(* A task that subtracts `scheduled` from now, as elapsed does, learns how *)
(* late it is, also when the counter has wrapped in between.               *)
LatenessExact ==
    \A x \in ready : DurationSince(now, instant[x]) = -left[x]

(* The timer was set for an instant that was exactly the clock reading: a  *)
(* reload value of 0 stops the counter.                                    *)
Stalled == reload = 0 /\ diff = 0

(* While the handler is not running or pending, how long until it is.      *)
Waiting == started /\ pc = "out" /\ ~pended /\ queue # {}

Counting == tickint /\ (current > 0 \/ reload > 0)

Remaining == IF current = 0 THEN reload + 1 ELSE current

(* Whenever messages wait, the counter will wake SysTick as soon as the    *)
(* earliest instant has passed, however the enqueue of an earlier one      *)
(* meets a counter that runs for a later one, the empty queue that         *)
(* disabled the interrupt, or the cap of the reload value.                 *)
WakesInTime ==
    Waiting /\ ~Stalled =>
        /\ Counting
        /\ \A x \in queue : Remaining <= (IF left[x] < 0 THEN 0 ELSE left[x]) + slack + 1

(* tq.rs: "set a new timeout", "start counting down from the new reload".  *)
TimerCounts == Waiting => Counting

D == INSTANCE Deadlines WITH left <- [x \in queue |-> left[x]]

(* Messages are released after their instants and in their order.          *)
MeetsDeadlines == D!DeadlinesSpec

(* Once nothing new is scheduled, every message that waits is released,    *)
(* unless the timer was set to stop.                                       *)
EveryMessageReleased ==
    <>[][\A x \in Messages, d \in Times : ~Schedule(x, d)]_vars =>
        \A x \in Messages : x \in queue ~> (x \notin queue \/ Stalled)
=============================================================================
