--------------------------- MODULE DispatchProofs ---------------------------
(***************************************************************************)
(* Theorems about message passing, for every application and any sizes of  *)
(* the queues.  Whatever the ceilings, no wake-up of a dispatcher is lost; *)
(* and where ready queues exclude all their senders, no slot is lost or    *)
(* doubled and an enqueue finds room.                                      *)
(***************************************************************************)
EXTENDS Dispatch, FiniteSetTheorems, TLAPS

PutsMessages == {"taking", "writing", "posting", "publishing", "pending", "arming"}

(* Functions and records of the state have the domains they start with.    *)
ShapeOK ==
    /\ active \subseteq Contexts
    /\ pc = [c \in Contexts |-> pc[c]]
    /\ op = [c \in Contexts |-> op[c]]
    /\ \A c \in Contexts : op[c] = [task |-> op[c].task, slot |-> op[c].slot,
                                    at |-> op[c].at, input |-> op[c].input]
    /\ ready = [d \in Dispatchers |-> ready[d]]
    /\ \A d \in Dispatchers :
          ready[d] = [head |-> ready[d].head, tail |-> ready[d].tail,
                      vacant |-> ready[d].vacant, buf |-> ready[d].buf]

(* Who does not run is between two messages, interrupts are masked during  *)
(* init, and a sender knows its task.                                      *)
StackOK ==
    /\ \A c \in Contexts \ active : pc[c] = "body"
    /\ "init" \in active => active = {"init"}
    /\ \A c \in Contexts : pc[c] \in PutsMessages => op[c].task \in Tasks

Inv == ShapeOK /\ StackOK /\ NoLostWakeup

LEMMA ModSelf == ASSUME NEW n \in Nat \ {0} PROVE n % n = 0
OBVIOUS

LEMMA RingSize ==
    ASSUME NEW n \in 1..128, NEW vacant
    PROVE  Size(Ring(n, vacant)) = n
<1>1. DOMAIN Ring(n, vacant).buf = 0..n-1
  BY DEF Ring
<1>2. Cardinality(0..n-1) = n
  <2>1. 0 \in Int /\ n - 1 \in Int /\ ~(0 > n - 1) /\ (n - 1) - 0 + 1 = n
    OBVIOUS
  <2>2. Cardinality(0..n-1) = IF 0 > n - 1 THEN 0 ELSE (n - 1) - 0 + 1
    BY <2>1, FS_Interval, Zenon
  <2> QED
    BY <2>1, <2>2
<1> QED
  BY <1>1, <1>2 DEF Size

LEMMA InitInv == Init => Inv
<1> SUFFICES ASSUME Init PROVE Inv
  OBVIOUS
<1>1. ShapeOK
  BY DEF Init, ShapeOK, Contexts, Idle, Ring
<1>2. StackOK
  BY DEF Init, StackOK, Contexts, PutsMessages
<1>3. ASSUME NEW d \in Dispatchers PROVE ~(Filled(ready[d]) > 0)
  <2> DEFINE n == 2 * Size(ready[d])
  <2>1. ready[d] = Ring(ReadySize[d], <<Nothing, NoSlot>>)
    BY DEF Init
  <2>2. Size(ready[d]) = ReadySize[d] /\ ReadySize[d] \in 1..128
    BY <2>1, RingSize, NamesAssumption
  <2>3. n \in Nat \ {0}
    BY <2>2
  <2>4. ready[d].head = 0 /\ ready[d].tail = 0
    BY <2>1 DEF Ring
  <2>5. Filled(ready[d]) = (0 + n - 0) % n
    BY <2>4 DEF Filled
  <2> HIDE DEF n
  <2>6. 0 + n - 0 = n
    BY <2>3
  <2> QED
    BY <2>3, <2>5, <2>6, ModSelf
<1> QED
  BY <1>1, <1>2, <1>3 DEF Inv, NoLostWakeup

-----------------------------------------------------------------------------
(* The number of entries is decided by the counters alone.                 *)

Record(ring) == ring = [head |-> ring.head, tail |-> ring.tail,
                        vacant |-> ring.vacant, buf |-> ring.buf]

LEMMA PutFilled ==
    ASSUME NEW ring, Record(ring), NEW x
    PROVE  Filled(Put(ring, x)) = Filled(ring) /\ Record(Put(ring, x))
BY DEF Filled, Put, Size, Record

LEMMA MoveRecord ==
    ASSUME NEW ring, Record(ring), NEW at
    PROVE  Record(MoveTail(ring, at)) /\ Record(MoveHead(ring, at))
<1>1. ASSUME NEW h, NEW b PROVE Record([ring EXCEPT !.head = h, !.buf = b])
  <2>1. [ring EXCEPT !.head = h, !.buf = b] =
           [head |-> h, tail |-> ring.tail, vacant |-> ring.vacant, buf |-> b]
    <3> DEFINE r == [ring EXCEPT !.head = h]
    <3>1. [ring EXCEPT !.head = h, !.buf = b] = [r EXCEPT !.buf = b]
      OBVIOUS
    <3>2. r = [head |-> h, tail |-> ring.tail, vacant |-> ring.vacant, buf |-> ring.buf]
      BY DEF Record
    <3> HIDE DEF r
    <3> QED
      BY <3>1, <3>2
  <2> QED
    BY <2>1 DEF Record
<1>2. Record(MoveTail(ring, at))
  BY DEF MoveTail, Record
<1>3. Record(MoveHead(ring, at))
  BY <1>1 DEF MoveHead
<1> QED
  BY <1>2, <1>3

(* The priority cell of a context is never below its own priority, so      *)
(* nothing preempts init.                                                  *)
LEMMA InitMasks ==
    ASSUME ShapeOK, StackOK, "init" \in active, NEW h \in Preemptors
    PROVE  ~(Cell("init") < Priority[h])
<1> DEFINE t == op["init"].task
<1>1. Priority[h] \in 1..255
  BY NamesAssumption
<1>2. "init" \in Contexts /\ LogicalPriority("init") = 255
  BY NamesAssumption DEF Contexts, LogicalPriority
<1>3. \A k \in 0..255 : Raised(255, k) = 255
  BY DEF Raised
<1>4. pc["init"] \in {"taking", "publishing"} => t \in Tasks
  BY <1>2 DEF StackOK, PutsMessages
<1>5. Cell("init") = 255
  <2>1. CASE pc["init"] = "taking"
    <3>1. FreeCeiling[t] \in 0..255
      BY <1>4, <2>1, NamesAssumption, SMTT(30), ZenonT(30)
    <3>2. Cell("init") = Raised(255, FreeCeiling[t])
      BY <1>2, <2>1 DEF Cell
    <3> QED
      BY <1>3, <3>1, <3>2
  <2>2. CASE pc["init"] = "publishing"
    <3>1. ReadyCeiling[Home[t]] \in 0..255
      <4>1. Home[t] \in Dispatchers
        BY <1>4, <2>2, NamesAssumption
      <4> QED
        BY <4>1, NamesAssumption, SMTT(30), ZenonT(30)
    <3>2. Cell("init") = Raised(255, ReadyCeiling[Home[t]])
      BY <1>2, <2>2 DEF Cell
    <3> QED
      BY <1>3, <3>1, <3>2, SMTT(30), ZenonT(30)
  <2>3. CASE pc["init"] \notin {"taking", "publishing"}
    BY <1>2, <2>3 DEF Cell
  <2> QED
    BY <2>1, <2>2, <2>3
<1> QED
  BY <1>1, <1>5

-----------------------------------------------------------------------------
(* The shape of the state survives each step.                              *)
LEMMA ShapeStep == ASSUME ShapeOK, [Next]_vars PROVE ShapeOK'
<1> USE DEF ShapeOK
<1>1. CASE FinishInit
  BY <1>1 DEF FinishInit, Contexts
<1>2. CASE Tick \/ \E h \in Handlers : Arrive(h)
  BY <1>2 DEF Tick, Arrive
<1>3. ASSUME NEW h \in Preemptors, Preempt(h) \/ Return(h) \/ Finish(h) PROVE ShapeOK'
  BY <1>3 DEF Preempt, Return, Finish, Goto, Contexts
<1>4. ASSUME NEW c \in Contexts,
             Taken(c) \/ Write(c) \/ Remove(c) \/ Read(c) \/ Run(c) \/ Publish(c)
             \/ Arm(c) \/ Pend(c) \/ Post(c) \/ Poll(c) \/ Free(c)
             \/ \E t \in Tasks : Call(c, t)
      PROVE  ShapeOK'
  <2>1. CASE Taken(c) \/ Write(c)
    BY <2>1 DEF Taken, Write, Goto
  <2>2. CASE Read(c) \/ Free(c)
    BY <2>2 DEF Read, Free, Goto
  <2>3. CASE Run(c) \/ Arm(c) \/ Pend(c)
    BY <2>3, SMTT(30), ZenonT(30) DEF Run, Arm, Pend, Goto, Idle
  <2>4. CASE Remove(c)
    <3>1. \A d \in Dispatchers : Record(ready'[d])
      BY <2>4, MoveRecord DEF Remove, Record
    <3> QED
      BY <2>4, <3>1 DEF Remove, Goto, Record
  <2>5. CASE Publish(c)
    <3>1. \A d \in Dispatchers : Record(ready'[d])
      BY <2>5, MoveRecord DEF Publish, Record
    <3> QED
      BY <2>5, <3>1 DEF Publish, Goto, Record
  <2>6. CASE Post(c)
    <3>1. \A d \in Dispatchers : Record(ready'[d])
      BY <2>6, PutFilled DEF Post, Record
    <3> QED
      BY <2>6, <3>1 DEF Post, Goto, Record
  <2>7. CASE Poll(c)
    BY <2>7 DEF Poll, Goto
  <2>8. ASSUME NEW t \in Tasks, Call(c, t) PROVE ShapeOK'
    BY <2>8 DEF Call, Goto
  <2> QED
    BY <1>4, <2>1, <2>2, <2>3, <2>4, <2>5, <2>6, <2>7, <2>8
<1>5. ASSUME NEW x, Fire(x) PROVE ShapeOK'
  BY <1>5 DEF Fire, Goto, Idle
<1>6. CASE UNCHANGED vars
  BY <1>6 DEF vars
<1> QED
  BY <1>1, <1>2, <1>3, <1>4, <1>5, <1>6 DEF Next, Proceed, End

-----------------------------------------------------------------------------
LEMMA RunningActive == ASSUME NEW c, NEW step, At(c, step) PROVE c \in active /\ pc[c] = step
BY DEF At, Running

LEMMA StackStep == ASSUME ShapeOK, StackOK, [Next]_vars PROVE StackOK'
<1> USE DEF StackOK, PutsMessages
<1> pc = [c \in Contexts |-> pc[c]] /\ op = [c \in Contexts |-> op[c]]
  BY DEF ShapeOK
<1>1. CASE FinishInit
  BY <1>1, RunningActive DEF FinishInit, Contexts
<1>2. CASE Tick \/ \E h \in Handlers : Arrive(h)
  BY <1>2 DEF Tick, Arrive
<1>3. ASSUME NEW h \in Preemptors, Preempt(h) PROVE StackOK'
  <2>1. "init" \notin active
    BY <1>3, InitMasks DEF Preempt
  <2>2. h # "init"
    BY NamesAssumption DEF Preemptors
  <2> QED
    BY <1>3, <2>1, <2>2 DEF Preempt
<1>4. ASSUME NEW h \in Preemptors, Return(h) PROVE StackOK'
  <2>1. h \in Contexts /\ h \in active
    BY <1>4, RunningActive DEF Return, Contexts
  <2>2. h # "init"
    BY NamesAssumption DEF Preemptors
  <2> QED
    BY <1>4, <2>1, <2>2 DEF Return, Goto
<1>5. ASSUME NEW h \in Preemptors, Finish(h) PROVE StackOK'
  BY <1>5 DEF Finish
<1>6. ASSUME NEW c \in Contexts, NEW t \in Tasks, Call(c, t) PROVE StackOK'
  BY <1>6, RunningActive DEF Call, Goto
<1>7. ASSUME NEW c \in Contexts, Taken(c) \/ Write(c) \/ Publish(c) PROVE StackOK'
  BY <1>7, RunningActive, SMTT(30), ZenonT(30) DEF Taken, Write, Publish, Goto
<1>8. ASSUME NEW c \in Contexts, Arm(c) \/ Pend(c) \/ Run(c) PROVE StackOK'
  BY <1>8, RunningActive DEF Arm, Pend, Run, Goto
<1>9. ASSUME NEW c \in Contexts, Post(c) PROVE StackOK'
  <2>1. op'[c].task = op[c].task
    <3>1. op[c] = [task |-> op[c].task, slot |-> op[c].slot,
                   at |-> op[c].at, input |-> op[c].input]
      BY DEF ShapeOK
    <3> QED
      BY <1>9, <3>1 DEF Post
  <2>2. \A b \in Contexts \ {c} : op'[b] = op[b] /\ pc'[b] = pc[b]
    BY <1>9 DEF Post, Goto
  <2>3. pc[c] = "posting" /\ c \in active /\ active' = active /\ pc'[c] = "publishing"
    BY <1>9, RunningActive DEF Post, Goto
  <2> QED
    BY <2>1, <2>2, <2>3
<1>10. ASSUME NEW c \in Contexts, Poll(c) \/ Remove(c) \/ Read(c) \/ Free(c)
       PROVE  StackOK'
  <2>1. c \in active /\ active' = active
    BY <1>10, RunningActive DEF Poll, Remove, Read, Free
  <2>2. /\ \A b \in Contexts \ {c} : op'[b] = op[b] /\ pc'[b] = pc[b]
        /\ pc'[c] \notin PutsMessages
    BY <1>10 DEF Poll, Remove, Read, Free, Goto
  <2> QED
    BY <2>1, <2>2
<1>11. ASSUME NEW t \in Tasks, NEW k \in Slots(t), Fire(<<t, k>>) PROVE StackOK'
  <2>1. /\ "SysTick" \in active /\ active' = active
        /\ \A b \in Contexts \ {"SysTick"} : op'[b] = op[b] /\ pc'[b] = pc[b]
        /\ op'["SysTick"].task = t
    BY <1>11, RunningActive DEF Fire, Goto, Idle, Contexts, Preemptors
  <2> QED
    BY <2>1
<1>12. CASE UNCHANGED vars
  BY <1>12 DEF vars
<1> QED
  BY <1>1, <1>2, <1>3, <1>4, <1>5, <1>6, <1>7, <1>8, <1>9, <1>10, <1>11, <1>12
     DEF Next, Proceed, End

-----------------------------------------------------------------------------
(* A step that changes no ready queue and no pc but that of c, which is    *)
(* neither done sending nor leaving its loop, loses no wake-up.            *)
Awake(d) ==
    \/ d \in pending
    \/ d \in active /\ pc[d] # "leaving"
    \/ \E c \in active : pc[c] = "pending" /\ Home[op[c].task] = d

LEMMA WakeFrame ==
    ASSUME ShapeOK, NEW d \in Dispatchers, Awake(d), NEW c \in Contexts,
           active' = active, pending \subseteq pending',
           \A b \in Contexts \ {c} : pc'[b] = pc[b] /\ op'[b] = op[b],
           pc[c] # "pending", pc'[c] # "leaving"
    PROVE  Awake(d)'
<1>1. active \subseteq Contexts /\ d \in Contexts
  BY DEF ShapeOK, Contexts, Preemptors
<1> QED
  BY <1>1 DEF Awake

LEMMA WakeStep ==
    ASSUME Inv, [Next]_vars, NEW d \in Dispatchers, Filled(ready[d])' > 0
    PROVE  Awake(d)'
<1> USE DEF Inv
<1>1. /\ Filled(ready[d]) > 0 => Awake(d)
      /\ d \in Contexts /\ d # "init" /\ d # "idle"
      /\ active \subseteq Contexts
      /\ pc = [c \in Contexts |-> pc[c]] /\ op = [c \in Contexts |-> op[c]]
      /\ ready = [e \in Dispatchers |-> ready[e]]
  BY NamesAssumption DEF NoLostWakeup, Awake, Contexts, Preemptors, ShapeOK
<1>2. CASE FinishInit
  <2>1. active = {"init"} /\ pc["init"] = "body" /\ ready' = ready /\ pending' = pending
    BY <1>2, RunningActive DEF FinishInit, StackOK
  <2> QED
    BY <1>1, <2>1 DEF Awake
<1>3. CASE Tick \/ \E h \in Handlers : Arrive(h)
  BY <1>1, <1>3 DEF Tick, Arrive, Awake
<1>4. ASSUME NEW h \in Preemptors, Preempt(h) PROVE Awake(d)'
  BY <1>1, <1>4 DEF Preempt, Awake, StackOK
<1>5. ASSUME NEW h \in Preemptors, Return(h) PROVE Awake(d)'
  <2>1. /\ h \in active /\ h \in Contexts
        /\ pc[h] = IF h \in Dispatchers THEN "leaving" ELSE "body"
        /\ active' = active \ {h} /\ pending' = pending /\ ready' = ready /\ op' = op
        /\ \A c \in Contexts \ {h} : pc'[c] = pc[c]
    BY <1>1, <1>5, RunningActive DEF Return, Goto, Contexts
  <2> QED
    BY <1>1, <2>1 DEF Awake
<1>6. ASSUME NEW h \in Preemptors, Finish(h) PROVE Awake(d)'
  BY <1>1, <1>6 DEF Finish, Awake
<1>7. ASSUME NEW c \in Contexts, NEW t \in Tasks, Call(c, t) PROVE Awake(d)'
  <2>1. /\ ready' = ready /\ active' = active /\ pending' = pending
        /\ pc[c] = "body" /\ pc'[c] = "taking"
        /\ \A b \in Contexts \ {c} : pc'[b] = pc[b] /\ op'[b] = op[b]
    BY <1>1, <1>7, RunningActive DEF Call, Goto
  <2> QED
    BY <1>1, <2>1, WakeFrame
<1>8. ASSUME NEW c \in Contexts,
             Taken(c) \/ Write(c) \/ Arm(c) \/ Read(c) \/ Free(c) \/ Run(c)
      PROVE  Awake(d)'
  <2>1. /\ ready' = ready /\ active' = active /\ pending' = pending
        /\ pc[c] # "pending" /\ pc'[c] # "leaving"
        /\ \A b \in Contexts \ {c} : pc'[b] = pc[b] /\ op'[b] = op[b]
    <3>1. CASE Taken(c)
      BY <1>1, <3>1, RunningActive DEF Taken, Goto
    <3>6. CASE Write(c)
      <4>1. /\ c \in active /\ pc[c] = "writing" /\ op' = op
            /\ ready' = ready /\ active' = active /\ pending' = pending
            /\ Goto(c, "posting") \/ Goto(c, "arming")
        BY <3>6, RunningActive DEF Write
      <4> QED
        BY <1>1, <4>1 DEF Goto
    <3>2. CASE Arm(c)
      BY <1>1, <3>2, RunningActive, SMTT(30), ZenonT(30) DEF Arm, Goto
    <3>3. CASE Read(c)
      BY <1>1, <3>3, RunningActive, SMTT(30), ZenonT(30) DEF Read, Goto
    <3>4. CASE Free(c)
      BY <1>1, <3>4, RunningActive, SMTT(30), ZenonT(30) DEF Free, Goto
    <3>5. CASE Run(c)
      BY <1>1, <3>5, RunningActive, SMTT(30), ZenonT(30) DEF Run, Goto
    <3> QED
      BY <1>8, <3>1, <3>2, <3>3, <3>4, <3>5, <3>6
  <2> QED
    BY <1>1, <2>1, WakeFrame
<1>9. ASSUME NEW x, Fire(x) PROVE Awake(d)'
  <2>1. /\ ready' = ready /\ active' = active /\ pending' = pending
        /\ "SysTick" \in Contexts /\ pc["SysTick"] = "body" /\ pc'["SysTick"] = "posting"
        /\ \A b \in Contexts \ {"SysTick"} : pc'[b] = pc[b] /\ op'[b] = op[b]
    BY <1>1, <1>9, RunningActive DEF Fire, Goto, Contexts, Preemptors
  <2> QED
    BY <1>1, <2>1, WakeFrame
<1>10. ASSUME NEW c \in Contexts, Post(c) PROVE Awake(d)'
  <2>1. /\ active' = active /\ pending' = pending
        /\ pc[c] = "posting" /\ pc'[c] = "publishing"
        /\ \A b \in Contexts \ {c} : pc'[b] = pc[b] /\ op'[b] = op[b]
    BY <1>1, <1>10, RunningActive DEF Post, Goto
  <2>2. Filled(ready[d])' = Filled(ready[d])
    <3>1. Record(ready[d])
      BY DEF ShapeOK, Record
    <3>2. \/ ready'[d] = ready[d]
          \/ \E x : ready'[d] = Put(ready[d], x)
      BY <1>1, <1>10 DEF Post
    <3> QED
      BY <3>1, <3>2, PutFilled DEF Filled, Size
  <2> QED
    BY <1>1, <2>1, <2>2, WakeFrame
<1>11. ASSUME NEW c \in Contexts, Publish(c) PROVE Awake(d)'
  <2>1. /\ active' = active /\ pending' = pending /\ op' = op /\ c \in active
        /\ pc[c] = "publishing" /\ pc'[c] = "pending"
        /\ \A b \in Contexts \ {c} : pc'[b] = pc[b] /\ op'[b] = op[b]
    BY <1>1, <1>11, RunningActive DEF Publish, Goto
  <2>2. CASE Home[op[c].task] = d
    BY <2>1, <2>2 DEF Awake
  <2>3. CASE Home[op[c].task] # d
    <3>1. ready'[d] = ready[d]
      BY <1>1, <1>11, <2>3 DEF Publish
    <3>2. Filled(ready[d])' = Filled(ready[d])
      BY <3>1 DEF Filled, Size
    <3> QED
      BY <1>1, <2>1, <3>2, WakeFrame
  <2> QED
    BY <2>2, <2>3
<1>12. ASSUME NEW c \in Contexts, Pend(c) PROVE Awake(d)'
  <2>1. /\ active' = active /\ ready' = ready
        /\ pending' = pending \cup {Home[op[c].task]}
        /\ pc[c] = "pending" /\ pc'[c] = "body"
        /\ \A b \in Contexts \ {c} : pc'[b] = pc[b] /\ op'[b] = op[b]
    BY <1>1, <1>12, RunningActive DEF Pend, Goto
  <2> QED
    BY <1>1, <2>1 DEF Awake
<1>13. ASSUME NEW c \in Dispatchers, Poll(c) PROVE Awake(d)'
  <2>1. /\ active' = active /\ pending' = pending /\ ready' = ready /\ c \in Contexts
        /\ pc[c] = "body"
        /\ pc'[c] = "leaving" => Filled(ready[c]) = 0
        /\ \A b \in Contexts \ {c} : pc'[b] = pc[b] /\ op'[b] = op[b]
    BY <1>1, <1>13, RunningActive DEF Poll, Goto, Contexts, Preemptors
  <2>2. Awake(d)
    BY <1>1, <2>1
  <2>3. ~(0 > 0)
    OBVIOUS
  <2>4. pc'[c] = "leaving" => c # d
    BY <2>1, <2>3
  <2> QED
    BY <1>1, <2>1, <2>2, <2>4 DEF Awake
<1>14. ASSUME NEW c \in Dispatchers, Remove(c) PROVE Awake(d)'
  <2>1. /\ active' = active /\ pending' = pending /\ c \in Contexts /\ c \in active
        /\ pc[c] = "taken" /\ pc'[c] = "reading"
        /\ \A b \in Contexts \ {c} : pc'[b] = pc[b] /\ op'[b] = op[b]
    BY <1>1, <1>14, RunningActive DEF Remove, Goto, Contexts, Preemptors
  <2>2. CASE c = d
    BY <2>1, <2>2 DEF Awake
  <2>3. CASE c # d
    <3>1. ready'[d] = ready[d]
      BY <1>1, <1>14, <2>3 DEF Remove
    <3>2. Filled(ready[d])' = Filled(ready[d])
      BY <3>1 DEF Filled, Size
    <3> QED
      BY <1>1, <2>1, <3>2, WakeFrame
  <2> QED
    BY <2>2, <2>3
<1>15. CASE UNCHANGED vars
  BY <1>1, <1>15 DEF vars, Awake
<1> QED
  BY <1>2, <1>3, <1>4, <1>5, <1>6, <1>7, <1>8, <1>9, <1>10, <1>11, <1>12, <1>13, <1>14,
     <1>15 DEF Next, Proceed, End

LEMMA StepInv == ASSUME Inv, [Next]_vars PROVE Inv'
<1>1. ShapeOK' /\ StackOK'
  BY ShapeStep, StackStep DEF Inv
<1>2. NoLostWakeup'
  BY WakeStep DEF NoLostWakeup, Awake
<1> QED
  BY <1>1, <1>2 DEF Inv

(* A message in a ready queue is never left without somebody who will      *)
(* look: its dispatcher is pending or at work, or a preempted sender is    *)
(* about to pend it.  This needs no ceiling: it holds even where senders   *)
(* race (DispatchRace).                                                    *)
THEOREM WakeupsKept == Spec => []NoLostWakeup
<1>1. Inv => NoLostWakeup
  BY DEF Inv
<1> QED
  BY <1>1, InitInv, StepInv, PTL DEF Spec

-----------------------------------------------------------------------------
(* Rings.  The entries of a ring are at its live positions.                *)

GoodRing(r, n, Items) ==
    r \in [head : 0..2*n-1, tail : 0..2*n-1, vacant : Items, buf : [0..n-1 -> Items]]

Pos(r, n, k) == (r.head + k - 1) % n

Live(r, n) == {Pos(r, n, k) : k \in 1..Filled(r)}

(* Where x is in the ring, each place with the name of the ring.           *)
Marks(name, r, n, x) == {<<name, p>> : p \in {q \in Live(r, n) : r.buf[q] = x}}

LEMMA ModSmall ==
    ASSUME NEW n \in Nat \ {0}
    PROVE  /\ \A x \in 0..n-1 : x % n = x
           /\ \A x \in n..2*n-1 : x % n = x - n
           /\ \A x \in 2*n..3*n-1 : x % n = x - 2*n
<1>1. \A x \in 0..n-1 : x % n = x
  OBVIOUS
<1>2. \A x \in n..2*n-1 : x % n = x - n
  OBVIOUS
<1>3. \A x \in 2*n..3*n-1 : x % n = x - 2*n
  OBVIOUS
<1> QED
  BY <1>1, <1>2, <1>3

(* What the operators on rings compute, in terms of the counters.          *)
LEMMA RingFacts ==
    ASSUME NEW n \in Nat \ {0}, NEW Items, NEW r, GoodRing(r, n, Items)
    PROVE  /\ Size(r) = n
           /\ r.head \in 0..2*n-1 /\ r.tail \in 0..2*n-1
           /\ r.tail >= r.head => Filled(r) = r.tail - r.head
           /\ r.tail < r.head => Filled(r) = r.tail + 2*n - r.head
           /\ \A h \in 0..2*n-1 : h + 1 = 2*n => Next1(r, h) = 0
           /\ \A h \in 0..2*n-1 : h + 1 # 2*n => Next1(r, h) = h + 1
<1>1. r.head \in 0..2*n-1 /\ r.tail \in 0..2*n-1 /\ DOMAIN r.buf = 0..n-1
  BY DEF GoodRing
<1>2. Size(r) = n
  <2>1. 0 \in Int /\ n - 1 \in Int /\ ~(0 > n - 1) /\ (n - 1) - 0 + 1 = n
    OBVIOUS
  <2>2. Cardinality(0..n-1) = IF 0 > n - 1 THEN 0 ELSE (n - 1) - 0 + 1
    BY <2>1, FS_Interval, Zenon
  <2>3. Cardinality(0..n-1) = n
    BY <2>1, <2>2
  <2> QED
    BY <1>1, <2>3, Zenon DEF Size
<1> DEFINE m == 2 * n
<1>3. m \in Nat \ {0}
  OBVIOUS
<1>4. /\ \A x \in 0..m-1 : x % m = x
      /\ \A x \in m..2*m-1 : x % m = x - m
  <2> HIDE DEF m
  <2> QED
    BY <1>3, ModSmall
<1>5. Filled(r) = (r.tail + m - r.head) % m
  BY <1>2, Zenon DEF Filled
<1>6. \A h : Next1(r, h) = (h + 1) % m
  BY <1>2, Zenon DEF Next1
<1>7. r.head \in 0..m-1 /\ r.tail \in 0..m-1
  BY <1>1, Zenon
<1> HIDE DEF m
<1>8. r.tail >= r.head => Filled(r) = r.tail - r.head
  <2> SUFFICES ASSUME r.tail >= r.head PROVE Filled(r) = r.tail - r.head
    OBVIOUS
  <2>1. /\ r.tail + m - r.head \in m..2*m-1
        /\ (r.tail + m - r.head) - m = r.tail - r.head
    BY <1>3, <1>7
  <2> DEFINE x == r.tail + m - r.head
  <2>2. x \in m..2*m-1 /\ x - m = r.tail - r.head /\ Filled(r) = x % m
    BY <1>5, <2>1, Zenon
  <2> HIDE DEF x
  <2>3. x % m = x - m
    BY <1>4, <2>2
  <2> QED
    BY <2>2, <2>3, Zenon
<1>9. r.tail < r.head => Filled(r) = r.tail + m - r.head
  <2> SUFFICES ASSUME r.tail < r.head PROVE Filled(r) = r.tail + m - r.head
    OBVIOUS
  <2>1. r.tail + m - r.head \in 0..m-1
    BY <1>3, <1>7
  <2> QED
    BY <1>4, <1>5, <2>1, Zenon
<1>10. \A h \in 0..m-1 : h + 1 = m => Next1(r, h) = 0
  <2> SUFFICES ASSUME NEW h \in 0..m-1, h + 1 = m PROVE Next1(r, h) = 0
    OBVIOUS
  <2>1. h + 1 \in m..2*m-1 /\ (h + 1) - m = 0
    BY <1>3
  <2> DEFINE x == h + 1
  <2>2. x \in m..2*m-1 /\ x - m = 0 /\ Next1(r, h) = x % m
    BY <1>6, <2>1, Zenon
  <2> HIDE DEF x
  <2>3. x % m = x - m
    BY <1>4, <2>2
  <2> QED
    BY <2>2, <2>3, Zenon
<1>11. \A h \in 0..m-1 : h + 1 # m => Next1(r, h) = h + 1
  <2> SUFFICES ASSUME NEW h \in 0..m-1, h + 1 # m PROVE Next1(r, h) = h + 1
    OBVIOUS
  <2>1. h + 1 \in 0..m-1
    BY <1>3
  <2> QED
    BY <1>4, <1>6, <2>1, Zenon
<1> QED
  BY <1>1, <1>2, <1>8, <1>9, <1>10, <1>11, Zenon DEF m

(* Positions follow each other around the buffer.                          *)
LEMMA RingPositions ==
    ASSUME NEW n \in Nat \ {0}, NEW Items, NEW r, GoodRing(r, n, Items)
    PROVE  /\ \A h \in 0..2*n-1 : h < n => h % n = h
           /\ \A h \in 0..2*n-1 : h >= n => h % n = h - n
           /\ \A k \in 1..n : r.head + k - 1 < n => Pos(r, n, k) = r.head + k - 1
           /\ \A k \in 1..n : r.head + k - 1 >= n /\ r.head + k - 1 < 2*n
                 => Pos(r, n, k) = (r.head + k - 1) - n
           /\ \A k \in 1..n : r.head + k - 1 >= 2*n
                 => Pos(r, n, k) = (r.head + k - 1) - 2*n
<1>1. r.head \in 0..2*n-1
  BY DEF GoodRing
<1>2. /\ \A x \in 0..n-1 : x % n = x
      /\ \A x \in n..2*n-1 : x % n = x - n
      /\ \A x \in 2*n..3*n-1 : x % n = x - 2*n
  BY ModSmall
<1>3. \A h \in 0..2*n-1 : h < n => h % n = h
  <2>1. \A h \in 0..2*n-1 : h < n => h \in 0..n-1
    OBVIOUS
  <2> QED
    BY <1>2, <2>1, Zenon
<1>4. \A h \in 0..2*n-1 : h >= n => h % n = h - n
  <2>1. \A h \in 0..2*n-1 : h >= n => h \in n..2*n-1
    OBVIOUS
  <2> QED
    BY <1>2, <2>1, Zenon
<1>5. ASSUME NEW k \in 1..n
      PROVE  /\ r.head + k - 1 < n => r.head + k - 1 \in 0..n-1
             /\ r.head + k - 1 >= n /\ r.head + k - 1 < 2*n => r.head + k - 1 \in n..2*n-1
             /\ r.head + k - 1 >= 2*n => r.head + k - 1 \in 2*n..3*n-1
  BY <1>1
<1>6. ASSUME NEW k \in 1..n
      PROVE  /\ r.head + k - 1 < n => Pos(r, n, k) = r.head + k - 1
             /\ r.head + k - 1 >= n /\ r.head + k - 1 < 2*n
                   => Pos(r, n, k) = (r.head + k - 1) - n
             /\ r.head + k - 1 >= 2*n => Pos(r, n, k) = (r.head + k - 1) - 2*n
  <2> DEFINE x == r.head + k - 1
  <2>1. Pos(r, n, k) = x % n
    BY DEF Pos
  <2>4. /\ (r.head + k - 1 < n <=> x < n) /\ (r.head + k - 1 < 2*n <=> x < 2*n)
        /\ (r.head + k - 1 >= n <=> x >= n) /\ (r.head + k - 1 >= 2*n <=> x >= 2*n)
        /\ (r.head + k - 1) - n = x - n /\ (r.head + k - 1) - 2*n = x - 2*n
        /\ r.head + k - 1 = x
    BY Zenon
  <2>2. /\ x < n => x \in 0..n-1
        /\ x >= n /\ x < 2*n => x \in n..2*n-1
        /\ x >= 2*n => x \in 2*n..3*n-1
    BY <1>5, Zenon
  <2> HIDE DEF x
  <2>3. /\ x < n => x % n = x
        /\ x >= n /\ x < 2*n => x % n = x - n
        /\ x >= 2*n => x % n = x - 2*n
    BY <1>2, <2>2
  <2> QED
    BY <2>1, <2>3, <2>4, Zenon
<1> QED
  BY <1>3, <1>4, <1>6, Zenon

(* The live positions are as many as the ring is filled, and the tail is   *)
(* none of them as long as there is room.                                  *)
LEMMA LivePositions ==
    ASSUME NEW n \in Nat \ {0}, NEW Items, NEW r, GoodRing(r, n, Items), Filled(r) <= n
    PROVE  /\ Filled(r) \in 0..n
           /\ \A k \in 1..n : Pos(r, n, k) \in 0..n-1
           /\ \A j, k \in 1..n : Pos(r, n, j) = Pos(r, n, k) => j = k
           /\ r.tail % n \in 0..n-1 /\ r.head % n = Pos(r, n, 1)
           /\ Filled(r) < n => /\ r.tail % n \notin Live(r, n)
                               /\ r.tail % n = Pos(r, n, Filled(r) + 1)
           /\ Filled(r) > 0 => r.head % n \in Live(r, n)
<1> DEFINE f == Filled(r)
           pos(k) == Pos(r, n, k)
           h == r.head
           t == r.tail
<1>1. h \in 0..2*n-1 /\ t \in 0..2*n-1 /\ f <= n
  BY RingFacts
<1>2. (t >= h => f = t - h) /\ (t < h => f = t + 2*n - h)
  BY RingFacts
<1>3. /\ \A k \in 1..n : h + k - 1 < n => pos(k) = h + k - 1
      /\ \A k \in 1..n : h + k - 1 >= n /\ h + k - 1 < 2*n => pos(k) = (h + k - 1) - n
      /\ \A k \in 1..n : h + k - 1 >= 2*n => pos(k) = (h + k - 1) - 2*n
  BY RingPositions
<1>4. (t < n => t % n = t) /\ (t >= n => t % n = t - n)
  BY <1>1, RingPositions
<1>5. (h < n => h % n = h) /\ (h >= n => h % n = h - n)
  BY <1>1, RingPositions
<1>6. Live(r, n) = {pos(k) : k \in 1..f}
  BY DEF Live
<1> HIDE DEF f, pos, h, t
<1>7. f \in 0..n
  BY <1>1, <1>2
<1>8. \A k \in 1..n : pos(k) \in 0..n-1
  BY <1>1, <1>3
<1>9. \A j, k \in 1..n : pos(j) = pos(k) => j = k
  <2> SUFFICES ASSUME NEW j \in 1..n, NEW k \in 1..n, pos(j) = pos(k) PROVE j = k
    OBVIOUS
  <2>1. /\ h + j - 1 < n => pos(j) = h + j - 1
        /\ h + j - 1 >= n /\ h + j - 1 < 2*n => pos(j) = (h + j - 1) - n
        /\ h + j - 1 >= 2*n => pos(j) = (h + j - 1) - 2*n
    BY <1>3
  <2>2. /\ h + k - 1 < n => pos(k) = h + k - 1
        /\ h + k - 1 >= n /\ h + k - 1 < 2*n => pos(k) = (h + k - 1) - n
        /\ h + k - 1 >= 2*n => pos(k) = (h + k - 1) - 2*n
    BY <1>3
  <2>3. j \in 1..n /\ k \in 1..n
    OBVIOUS
  <2> QED
    BY <1>1, <2>1, <2>2, <2>3, SMTT(30), ZenonT(30)
<1>10. t % n \in 0..n-1
  BY <1>1, <1>4
<1>11. 1 \in 1..n /\ h % n = pos(1)
  BY <1>1, <1>3, <1>5
<1>12. f < n => t % n = pos(f + 1) /\ f + 1 \in 1..n /\ f + 1 \notin 1..f
  <2> SUFFICES ASSUME f < n
               PROVE t % n = pos(f + 1) /\ f + 1 \in 1..n /\ f + 1 \notin 1..f
    OBVIOUS
  <2>1. f + 1 \in 1..n /\ f + 1 \notin 1..f
    BY <1>7
  <2>2. /\ h + (f + 1) - 1 < n => pos(f + 1) = h + (f + 1) - 1
        /\ h + (f + 1) - 1 >= n /\ h + (f + 1) - 1 < 2*n
              => pos(f + 1) = (h + (f + 1) - 1) - n
        /\ h + (f + 1) - 1 >= 2*n => pos(f + 1) = (h + (f + 1) - 1) - 2*n
    BY <1>3, <2>1, Zenon
  <2>3. t % n = pos(f + 1)
    BY <1>1, <1>2, <1>4, <1>7, <2>2, SMTT(30), ZenonT(30)
  <2> QED
    BY <2>1, <2>3
<1>13. f < n => t % n \notin Live(r, n)
  <2>1. f < n => \A k \in 1..f : k \in 1..n /\ k # f + 1
    BY <1>7
  <2> QED
    BY <1>6, <1>9, <1>12, <2>1, Zenon
<1>14. f > 0 => h % n \in Live(r, n)
  <2>1. f > 0 => 1 \in 1..f
    BY <1>7
  <2> QED
    BY <1>6, <1>11, <2>1, Zenon
<1> QED
  BY <1>7, <1>8, <1>9, <1>10, <1>11, <1>12, <1>13, <1>14, Zenon DEF f, pos, h, t

LEMMA LiveBounds ==
    ASSUME NEW n \in Nat \ {0}, NEW Items, NEW r, GoodRing(r, n, Items), Filled(r) <= n
    PROVE  Live(r, n) \subseteq 0..n-1
<1>1. \A k \in 1..n : Pos(r, n, k) \in 0..n-1
  BY LivePositions
<1>2. Filled(r) \in 0..n
  BY LivePositions
<1>3. 1..Filled(r) \subseteq 1..n
  BY <1>2
<1> QED
  BY <1>1, <1>3 DEF Live

(* The two halves of an enqueue and the one step of a dequeue, each at the *)
(* counter that the ring has.                                              *)
LEMMA PutRing ==
    ASSUME NEW n \in Nat \ {0}, NEW Items, NEW r, GoodRing(r, n, Items), Filled(r) < n,
           NEW x \in Items
    PROVE  LET s == Put(r, x)
           IN  /\ GoodRing(s, n, Items)
               /\ s.head = r.head /\ s.tail = r.tail /\ Filled(s) = Filled(r)
               /\ \A k : Pos(s, n, k) = Pos(r, n, k)
               /\ Live(s, n) = Live(r, n)
               /\ s.buf[r.tail % n] = x
               /\ \A q \in Live(r, n) : s.buf[q] = r.buf[q]
<1> DEFINE s == Put(r, x)
           p == r.tail % n
<1>1. Size(r) = n /\ Filled(r) <= n
  BY RingFacts
<1>2. p \in 0..n-1 /\ p \notin Live(r, n)
  BY <1>1, LivePositions
<1>3. r \in [head : 0..2*n-1, tail : 0..2*n-1, vacant : Items, buf : [0..n-1 -> Items]]
  BY DEF GoodRing
<1>4. s = [r EXCEPT !.buf[p] = x]
  BY <1>1 DEF Put
<1> HIDE DEF p
<1>5. s = [head |-> r.head, tail |-> r.tail, vacant |-> r.vacant, buf |-> [r.buf EXCEPT ![p] = x]]
  BY <1>3, <1>4
<1> HIDE DEF s
<1>6. GoodRing(s, n, Items)
  BY <1>2, <1>3, <1>5 DEF GoodRing
<1>7. s.head = r.head /\ s.tail = r.tail /\ s.buf = [r.buf EXCEPT ![p] = x]
  BY <1>5
<1>8. Size(s) = n
  BY <1>6, RingFacts
<1>9. Filled(s) = Filled(r)
  BY <1>1, <1>7, <1>8 DEF Filled
<1>10. \A k : Pos(s, n, k) = Pos(r, n, k)
  BY <1>7 DEF Pos
<1>11. Live(s, n) = Live(r, n)
  BY <1>9, <1>10 DEF Live
<1>12. s.buf[p] = x /\ \A q \in 0..n-1 : q # p => s.buf[q] = r.buf[q]
  BY <1>2, <1>3, <1>7
<1>13. Live(r, n) \subseteq 0..n-1
  BY <1>1, LiveBounds
<1> QED
  BY <1>2, <1>6, <1>7, <1>9, <1>10, <1>11, <1>12, <1>13 DEF s, p

LEMMA TailRing ==
    ASSUME NEW n \in Nat \ {0}, NEW Items, NEW r, GoodRing(r, n, Items), Filled(r) < n
    PROVE  LET s == MoveTail(r, r.tail)
           IN  /\ GoodRing(s, n, Items)
               /\ s.head = r.head /\ s.buf = r.buf /\ Filled(s) = Filled(r) + 1
               /\ \A k : Pos(s, n, k) = Pos(r, n, k)
               /\ Live(s, n) = Live(r, n) \cup {r.tail % n}
<1> DEFINE s == MoveTail(r, r.tail)
           t == Next1(r, r.tail)
<1>1. /\ r.head \in 0..2*n-1 /\ r.tail \in 0..2*n-1
      /\ r.tail >= r.head => Filled(r) = r.tail - r.head
      /\ r.tail < r.head => Filled(r) = r.tail + 2*n - r.head
      /\ r.tail + 1 = 2*n => t = 0
      /\ r.tail + 1 # 2*n => t = r.tail + 1
  BY RingFacts
<1>2. t \in 0..2*n-1
  BY <1>1
<1>3. r \in [head : 0..2*n-1, tail : 0..2*n-1, vacant : Items, buf : [0..n-1 -> Items]]
  BY DEF GoodRing
<1>4. s = [r EXCEPT !.tail = t]
  BY DEF MoveTail
<1> HIDE DEF t
<1>5. s = [head |-> r.head, tail |-> t, vacant |-> r.vacant, buf |-> r.buf]
  BY <1>3, <1>4
<1> HIDE DEF s
<1>6. GoodRing(s, n, Items)
  BY <1>2, <1>3, <1>5 DEF GoodRing
<1>7. s.head = r.head /\ s.tail = t /\ s.buf = r.buf
  BY <1>5
<1>8. /\ s.tail >= s.head => Filled(s) = s.tail - s.head
      /\ s.tail < s.head => Filled(s) = s.tail + 2*n - s.head
  BY <1>6, RingFacts
<1>9. Filled(s) = Filled(r) + 1
  BY <1>1, <1>7, <1>8
<1>10. \A k : Pos(s, n, k) = Pos(r, n, k)
  BY <1>7 DEF Pos
<1>11. Filled(r) \in 0..n /\ r.tail % n = Pos(r, n, Filled(r) + 1)
  <2>1. Filled(r) <= n
    BY <1>1
  <2> QED
    BY <2>1, LivePositions
<1>12. 1..Filled(s) = (1..Filled(r)) \cup {Filled(r) + 1}
  BY <1>9, <1>11
<1>13. Live(s, n) = Live(r, n) \cup {r.tail % n}
  BY <1>10, <1>11, <1>12, Zenon DEF Live
<1> QED
  BY <1>6, <1>7, <1>9, <1>10, <1>13 DEF s

LEMMA HeadRing ==
    ASSUME NEW n \in Nat \ {0}, NEW Items, NEW r, GoodRing(r, n, Items),
           Filled(r) > 0, Filled(r) <= n
    PROVE  LET s == MoveHead(r, r.head)
           IN  /\ GoodRing(s, n, Items)
               /\ s.tail = r.tail /\ Filled(s) = Filled(r) - 1
               /\ \A k \in 1..Filled(s) : Pos(s, n, k) = Pos(r, n, k + 1)
               /\ Live(s, n) = Live(r, n) \ {r.head % n}
               /\ \A q \in 0..n-1 : q # r.head % n => s.buf[q] = r.buf[q]
<1> DEFINE s == MoveHead(r, r.head)
           h == Next1(r, r.head)
           p == r.head % n
           f == Filled(r)
<1>1. /\ r.head \in 0..2*n-1 /\ r.tail \in 0..2*n-1 /\ Size(r) = n
      /\ r.tail >= r.head => f = r.tail - r.head
      /\ r.tail < r.head => f = r.tail + 2*n - r.head
      /\ r.head + 1 = 2*n => h = 0
      /\ r.head + 1 # 2*n => h = r.head + 1
  BY RingFacts
<1>2. h \in 0..2*n-1
  BY <1>1
<1>3. r \in [head : 0..2*n-1, tail : 0..2*n-1, vacant : Items, buf : [0..n-1 -> Items]]
  BY DEF GoodRing
<1>4. s = [r EXCEPT !.head = h, !.buf[p] = r.vacant]
  BY <1>1 DEF MoveHead
<1>14. f > 0 /\ f \in 0..n /\ p = Pos(r, n, 1) /\ p \in 0..n-1
  <2>1. 1 \in 1..n
    OBVIOUS
  <2> QED
    BY <2>1, LivePositions
<1> HIDE DEF h, p, f
<1>5. s = [head |-> h, tail |-> r.tail, vacant |-> r.vacant,
           buf |-> [r.buf EXCEPT ![p] = r.vacant]]
  <2> DEFINE u == [r EXCEPT !.head = h]
  <2>1. s = [u EXCEPT !.buf[p] = r.vacant]
    BY <1>4
  <2>2. u = [head |-> h, tail |-> r.tail, vacant |-> r.vacant, buf |-> r.buf]
    BY <1>3
  <2> HIDE DEF u, s
  <2> QED
    BY <2>1, <2>2
<1> HIDE DEF s
<1>6. GoodRing(s, n, Items)
  BY <1>2, <1>3, <1>5, <1>14 DEF GoodRing
<1>7. s.head = h /\ s.tail = r.tail /\ s.buf = [r.buf EXCEPT ![p] = r.vacant]
  BY <1>5
<1>8. /\ s.tail >= s.head => Filled(s) = s.tail - s.head
      /\ s.tail < s.head => Filled(s) = s.tail + 2*n - s.head
  BY <1>6, RingFacts
<1>9. Filled(s) = f - 1
  BY <1>1, <1>7, <1>8, <1>14
<1>10. ASSUME NEW k \in 1..f-1 PROVE Pos(s, n, k) = Pos(r, n, k + 1)
  <2>1. k \in 1..n /\ k + 1 \in 1..n /\ k \in Int
    BY <1>14
  <2> DEFINE j == k + 1
  <2>4. j \in 1..n
    BY <2>1
  <2> HIDE DEF j
  <2>2. /\ r.head + j - 1 < n => Pos(r, n, j) = r.head + j - 1
        /\ r.head + j - 1 >= n /\ r.head + j - 1 < 2*n
              => Pos(r, n, j) = (r.head + j - 1) - n
        /\ r.head + j - 1 >= 2*n => Pos(r, n, j) = (r.head + j - 1) - 2*n
    BY <2>4, RingPositions
  <2>5. /\ s.head + k - 1 < n => Pos(s, n, k) = s.head + k - 1
        /\ s.head + k - 1 >= n /\ s.head + k - 1 < 2*n
              => Pos(s, n, k) = (s.head + k - 1) - n
        /\ s.head + k - 1 >= 2*n => Pos(s, n, k) = (s.head + k - 1) - 2*n
    BY <1>6, <2>1, RingPositions
  <2>3. /\ h + k - 1 < n => Pos(s, n, k) = h + k - 1
        /\ h + k - 1 >= n /\ h + k - 1 < 2*n => Pos(s, n, k) = (h + k - 1) - n
        /\ h + k - 1 >= 2*n => Pos(s, n, k) = (h + k - 1) - 2*n
    BY <1>7, <2>5
  <2> QED
    BY <1>1, <1>2, <2>1, <2>2, <2>3, SMTT(30), ZenonT(30) DEF j
<1>11. \A j, k \in 1..n : Pos(r, n, j) = Pos(r, n, k) => j = k
  BY <1>14, LivePositions DEF f
<1>12. Live(s, n) = Live(r, n) \ {p}
  <2>1. Live(s, n) = {Pos(s, n, k) : k \in 1..f-1} /\ Live(r, n) = {Pos(r, n, k) : k \in 1..f}
    BY <1>9 DEF Live, f
  <2>2. Live(s, n) = {Pos(r, n, k + 1) : k \in 1..f-1}
    BY <1>10, <2>1
  <2>3. ASSUME NEW k \in 1..f-1 PROVE k + 1 \in 1..f /\ k + 1 # 1 /\ k + 1 \in 1..n
    BY <1>14
  <2>4. ASSUME NEW k \in 1..f, k # 1 PROVE k - 1 \in 1..f-1 /\ (k - 1) + 1 = k
    BY <1>14, <2>4
  <2>5. 1 \in 1..n /\ 1..f \subseteq 1..n
    BY <1>14
  <2>6. Live(s, n) \subseteq Live(r, n) \ {p}
    BY <1>11, <1>14, <2>1, <2>2, <2>3, <2>5, Zenon
  <2>7. Live(r, n) \ {p} \subseteq Live(s, n)
    <3> SUFFICES ASSUME NEW k \in 1..f, Pos(r, n, k) # p PROVE Pos(r, n, k) \in Live(s, n)
      BY <2>1
    <3>1. k # 1
      BY <1>14
    <3>2. k - 1 \in 1..f-1 /\ Pos(r, n, (k - 1) + 1) = Pos(r, n, k)
      BY <2>4, <3>1
    <3> QED
      BY <2>2, <3>2, Zenon
  <2> QED
    BY <2>6, <2>7
<1>13. \A q \in 0..n-1 : q # p => s.buf[q] = r.buf[q]
  BY <1>3, <1>7, <1>14
<1> QED
  BY <1>6, <1>7, <1>9, <1>10, <1>12, <1>13 DEF s, f, p

-----------------------------------------------------------------------------
(* Counting: where every entry is another one, an entry that is missing    *)
(* leaves room.                                                            *)
LEMMA Room ==
    ASSUME NEW n \in Nat \ {0}, NEW Items, NEW r, GoodRing(r, n, Items), Filled(r) <= n,
           NEW S, IsFiniteSet(S), NEW x \in S,
           \A p \in Live(r, n) : r.buf[p] \in S \ {x},
           \A p, q \in Live(r, n) : r.buf[p] = r.buf[q] => p = q
    PROVE  Filled(r) < Cardinality(S)
<1> DEFINE f == Filled(r)
           T == S \ {x}
           g == [k \in 1..f |-> r.buf[Pos(r, n, k)]]
<1>1. f \in 0..n /\ \A j, k \in 1..n : Pos(r, n, j) = Pos(r, n, k) => j = k
  BY LivePositions
<1>2. 1..f \subseteq 1..n
  BY <1>1
<1>3. \A k \in 1..f : Pos(r, n, k) \in Live(r, n)
  BY DEF Live
<1> HIDE DEF f
<1>4. g \in Injection(1..f, T)
  <2>1. g \in [1..f -> T]
    BY <1>3
  <2>2. \A j, k \in 1..f : g[j] = g[k] => j = k
    BY <1>1, <1>2, <1>3
  <2> HIDE DEF g
  <2> QED
    BY <2>1, <2>2 DEF Injection, IsInjective
<1>5. IsFiniteSet(T) /\ Cardinality(T) = Cardinality(S) - 1 /\ Cardinality(S) \in Nat
  BY FS_RemoveElement, FS_CardinalityType
<1> HIDE DEF T, g
<1>6. Cardinality(1..f) <= Cardinality(T)
  BY <1>4, <1>5, FS_Injection
<1>7. Cardinality(1..f) = f
  <2>1. 1 \in Int /\ f \in Int
    BY <1>1
  <2>2. Cardinality(1..f) = IF 1 > f THEN 0 ELSE f - 1 + 1
    BY <2>1, FS_Interval, Zenon
  <2> QED
    BY <1>1, <2>2
<1> QED
  BY <1>1, <1>5, <1>6, <1>7 DEF f

LEMMA SlotsCount ==
    ASSUME NEW t \in Tasks
    PROVE  IsFiniteSet(Slots(t)) /\ Cardinality(Slots(t)) = Capacity[t]
<1> DEFINE n == Capacity[t]
<1>1. n \in 1..128
  BY NamesAssumption
<1>2. 0 \in Int /\ n - 1 \in Int /\ ~(0 > n - 1) /\ (n - 1) - 0 + 1 = n
  BY <1>1
<1>3. /\ IsFiniteSet(0 .. n - 1)
      /\ Cardinality(0 .. n - 1) = IF 0 > n - 1 THEN 0 ELSE (n - 1) - 0 + 1
  BY <1>2, FS_Interval, Zenon
<1>4. IsFiniteSet(0 .. n - 1) /\ Cardinality(0 .. n - 1) = n
  BY <1>2, <1>3
<1> QED
  BY <1>4 DEF Slots

LEMMA MessagesFinite == ASSUME NEW d \in Dispatchers PROVE IsFiniteSet(Messages(d))
<1> DEFINE T == {{t} \X Slots(t) : t \in Served(d)}
           f == [t \in Served(d) |-> {t} \X Slots(t)]
<1>1. IsFiniteSet(Served(d))
  BY NamesAssumption, FS_Subset DEF Served
<1>2. f \in Surjection(Served(d), T)
  BY DEF Surjection
<1>3. \A t \in Served(d) : IsFiniteSet({t} \X Slots(t))
  BY SlotsCount, FS_Singleton, FS_Product DEF Served
<1>4. \A X \in T : IsFiniteSet(X)
  BY <1>3
<1> HIDE DEF f, T
<1>5. IsFiniteSet(T)
  BY <1>1, <1>2, FS_Surjection
<1> QED
  BY <1>4, <1>5, FS_UNION DEF Messages, T

-----------------------------------------------------------------------------
(* The invariant.                                                          *)

FreeItems(t) == Slots(t) \cup {NoSlot}
ReadyItems == (Tasks \cup {Nothing}) \X (0..255)

Rings ==
    /\ free = [t \in Tasks |-> free[t]] /\ ready = [d \in Dispatchers |-> ready[d]]
    /\ inputs = [t \in Tasks |-> inputs[t]]
    /\ \A t \in Tasks : GoodRing(free[t], FreeSize[t], FreeItems(t))
    /\ \A d \in Dispatchers : GoodRing(ready[d], ReadySize[d], ReadyItems)

(* A context that runs was not masked by those it interrupted.             *)
OrderOK ==
    \A c, d \in active : c # d =>
        /\ LogicalPriority(c) # LogicalPriority(d)
        /\ LogicalPriority(c) < LogicalPriority(d) => Cell(c) < LogicalPriority(d)

BodiesOK ==
    /\ \A c \in {"init", "idle"} \cup Handlers : body[c] = c
    /\ body["SysTick"] = "loop"
    /\ \A d \in Dispatchers : body[d] = "loop" \/ (body[d] \in Tasks /\ Home[body[d]] = d)

(* What waits in the queues are slots of their tasks.                      *)
EntriesOK ==
    /\ \A t \in Tasks :
          /\ Filled(free[t]) <= FreeSize[t]
          /\ \A p \in Live(free[t], FreeSize[t]) : free[t].buf[p] \in Slots(t)
    /\ \A d \in Dispatchers :
          /\ Filled(ready[d]) <= ReadySize[d]
          /\ \A p \in Live(ready[d], ReadySize[d]) : ready[d].buf[p] \in Messages(d)
    /\ \A x \in timers : x \in UNION {{t} \X Slots(t) : t \in ScheduledTasks}

(* Who calls, and for what.                                                *)
Caller(c, t) ==
    /\ body[c] # "loop"
    /\ t \in Spawns[body[c]] \cup Schedules[body[c]]

Sender(c, t) ==
    \/ body[c] # "loop" /\ t \in Spawns[body[c]]
    \/ c = "SysTick" /\ t \in ScheduledTasks

TakingOK(c) ==
    LET t == op[c].task IN
    /\ t \in Tasks /\ Caller(c, t)
    /\ op[c].slot = First(free[t]) /\ op[c].at = free[t].head
    /\ Filled(free[t]) > 0

PublishingOK(c) ==
    LET d == Home[op[c].task] IN
    /\ op[c].at = ready[d].tail
    /\ ready[d].buf[ready[d].tail % ReadySize[d]] = <<op[c].task, op[c].slot>>

TakenOK(d) ==
    /\ d \in Dispatchers
    /\ <<op[d].task, op[d].slot>> = First(ready[d]) /\ op[d].at = ready[d].head
    /\ Filled(ready[d]) > 0

FreedOK(d) ==
    LET t == op[d].task IN
    /\ op[d].at = free[t].tail
    /\ free[t].buf[free[t].tail % FreeSize[t]] = op[d].slot

Holds == {"writing", "posting", "publishing", "arming", "reading", "freeing", "freed"}

RoleOK(c) ==
    /\ pc[c] \in Holds => op[c].task \in Tasks /\ op[c].slot \in Slots(op[c].task)
    /\ pc[c] = "writing" => Caller(c, op[c].task)
    /\ pc[c] = "arming" => op[c].task \in ScheduledTasks
    /\ pc[c] \in {"posting", "publishing"} => Sender(c, op[c].task)
    /\ pc[c] \in {"reading", "freeing", "freed"} =>
          c \in Dispatchers /\ Home[op[c].task] = c

EndsOK(c) ==
    /\ pc[c] = "taking" => TakingOK(c)
    /\ pc[c] = "publishing" => PublishingOK(c)
    /\ pc[c] = "taken" => TakenOK(c)
    /\ pc[c] = "freed" => FreedOK(c)

LocalsOK == \A c \in Contexts : RoleOK(c) /\ EndsOK(c)

FreeAt(t, i) == Marks("free", free[t], FreeSize[t], i)
ReadyAt(t, i) == Marks("ready", ready[Home[t]], ReadySize[Home[t]], <<t, i>>)
TimerAt(t, i) == {"timer"} \X ({<<t, i>>} \cap timers)
HeldAt(t, i) == {"held"} \X {c \in Contexts : Holding(c, t, i)}

Where(t, i) == FreeAt(t, i) \cup ReadyAt(t, i) \cup TimerAt(t, i) \cup HeldAt(t, i)

TokensOK == \A t \in Tasks : \A i \in Slots(t) : \E w : Where(t, i) = {w}

IInv ==
    /\ TypeOK /\ Rings /\ StackOK /\ OrderOK /\ BodiesOK
    /\ EntriesOK /\ LocalsOK /\ TokensOK

-----------------------------------------------------------------------------
(* Priorities and exclusion.                                               *)

LEMMA Names ==
    /\ Handlers \subseteq Preemptors /\ Dispatchers \subseteq Preemptors
    /\ "SysTick" \in Preemptors /\ Preemptors \subseteq Contexts
    /\ "init" \in Contexts /\ "idle" \in Contexts
    /\ "init" \notin Preemptors /\ "idle" \notin Preemptors /\ "idle" # "init"
    /\ \A t \in Tasks : /\ t \notin Preemptors /\ t # "init" /\ t # "idle"
                        /\ Home[t] \in Dispatchers
    /\ "SysTick" \notin Dispatchers /\ "SysTick" \notin Handlers
    /\ \A d \in Dispatchers : d \notin Bodies
BY NamesAssumption DEF Preemptors, Contexts, Bodies

LEMMA Priorities ==
    /\ LogicalPriority("init") = 255 /\ LogicalPriority("idle") = 0
    /\ \A h \in Preemptors : LogicalPriority(h) = Priority[h] /\ Priority[h] \in 1..255
    /\ \A t \in Tasks : LogicalPriority(t) = Priority[Home[t]]
    /\ \A c \in Contexts : LogicalPriority(c) \in 0..255
<1>1. \A h \in Preemptors : Priority[h] \in 1..255
  BY NamesAssumption
<1>2. \A h \in Preemptors : LogicalPriority(h) = Priority[h]
  BY Names DEF LogicalPriority
<1>3. LogicalPriority("init") = 255 /\ LogicalPriority("idle") = 0
  <2>1. LogicalPriority("init") = 255
    BY Names, Zenon DEF LogicalPriority
  <2>2. LogicalPriority("idle") = 0
    BY Names, Zenon DEF LogicalPriority
  <2> QED
    BY <2>1, <2>2
<1>4. \A t \in Tasks : LogicalPriority(t) = Priority[Home[t]]
  BY Names DEF LogicalPriority
<1>5. \A c \in Contexts : LogicalPriority(c) \in 0..255
  BY <1>1, <1>2, <1>3 DEF Contexts
<1> QED
  BY <1>1, <1>2, <1>3, <1>4, <1>5

(* A cell is above the priority of its context and, inside a claim, above  *)
(* the ceiling.                                                            *)
LEMMA Cells ==
    ASSUME NEW c \in Contexts, LocalsOK
    PROVE  /\ Cell(c) \in 0..255 /\ Cell(c) >= LogicalPriority(c)
           /\ pc[c] = "taking" => Cell(c) >= FreeCeiling[op[c].task]
           /\ pc[c] = "publishing" => Cell(c) >= ReadyCeiling[Home[op[c].task]]
<1>0. \A d \in Dispatchers : ReadyCeiling[d] \in 0..255
  BY NamesAssumption
<1>1. LogicalPriority(c) \in 0..255
  BY Priorities
<1>2. \A k, l \in 0..255 : /\ Raised(k, l) \in 0..255
                           /\ Raised(k, l) >= k /\ Raised(k, l) >= l
  BY DEF Raised
<1>3. CASE pc[c] = "taking"
  <2>1. FreeCeiling[op[c].task] \in 0..255
    BY <1>3, NamesAssumption DEF LocalsOK, EndsOK, TakingOK
  <2>2. Cell(c) = Raised(LogicalPriority(c), FreeCeiling[op[c].task])
    BY <1>3 DEF Cell
  <2>3. /\ Cell(c) \in 0..255 /\ Cell(c) >= LogicalPriority(c)
        /\ Cell(c) >= FreeCeiling[op[c].task]
    BY <1>1, <1>2, <2>1, <2>2, ZenonT(60)
  <2> QED
    BY <1>3, <2>3
<1>4. CASE pc[c] = "publishing"
  <2>1. Home[op[c].task] \in Dispatchers
    BY <1>4, Names DEF LocalsOK, RoleOK, Holds
  <2>2. ReadyCeiling[Home[op[c].task]] \in 0..255
    BY <1>0, <2>1, ZenonT(30)
  <2>3. Cell(c) = Raised(LogicalPriority(c), ReadyCeiling[Home[op[c].task]])
    BY <1>4 DEF Cell
  <2>4. /\ Cell(c) \in 0..255 /\ Cell(c) >= LogicalPriority(c)
        /\ Cell(c) >= ReadyCeiling[Home[op[c].task]]
    BY <1>1, <1>2, <2>2, <2>3, ZenonT(60)
  <2> QED
    BY <1>4, <2>4
<1>5. CASE pc[c] \notin {"taking", "publishing"}
  <2>1. Cell(c) = LogicalPriority(c)
    BY <1>5 DEF Cell
  <2> QED
    BY <1>1, <1>5, <2>1
<1> QED
  BY <1>3, <1>4, <1>5

(* Who runs is above everybody it interrupted, and their cells.            *)
LEMMA Interrupted ==
    ASSUME IInv, NEW c, Running(c), NEW b \in active, b # c
    PROVE  /\ b \in Contexts /\ c \in Contexts /\ b # "init" /\ c # "init"
           /\ LogicalPriority(b) < LogicalPriority(c)
           /\ Cell(b) < LogicalPriority(c)
<1>1. active \subseteq Contexts /\ c \in active
  BY DEF IInv, TypeOK, Running
<1>2. LogicalPriority(b) < LogicalPriority(c)
  BY DEF Running
<1>3. b # "init" /\ c # "init"
  BY <1>1 DEF IInv, StackOK
<1> QED
  BY <1>1, <1>2, <1>3 DEF IInv, OrderOK

(* The context of a body has its priority.                                 *)
LEMMA BodyPriority ==
    ASSUME BodiesOK, NEW c \in Contexts, c # "init", body[c] # "loop"
    PROVE  /\ body[c] \in Bodies \ {"init"}
           /\ LogicalPriority(body[c]) = LogicalPriority(c)
<1>1. CASE c \in Dispatchers
  <2>1. body[c] \in Tasks /\ Home[body[c]] = c
    BY <1>1 DEF BodiesOK
  <2>2. body[c] # "init"
    BY <2>1, Names
  <2>3. LogicalPriority(body[c]) = Priority[c] /\ LogicalPriority(c) = Priority[c]
    BY <1>1, <2>1, Names, Priorities
  <2> QED
    BY <2>1, <2>2, <2>3 DEF Bodies
<1>2. CASE c \notin Dispatchers
  <2>1. c \in {"idle"} \cup Handlers
    BY <1>2 DEF BodiesOK, Contexts, Preemptors
  <2>2. body[c] = c
    BY <2>1 DEF BodiesOK
  <2> QED
    BY <2>1, <2>2 DEF Bodies
<1> QED
  BY <1>1, <1>2

LEMMA CallerPriority ==
    ASSUME BodiesOK, NEW c \in Contexts, c # "init", NEW t \in Tasks, Caller(c, t)
    PROVE  LogicalPriority(c) \in Callers(Spawns, {t}) \cup Callers(Schedules, {t})
BY BodyPriority DEF Caller, Callers

LEMMA SenderPriority ==
    ASSUME BodiesOK, NEW c \in Contexts, c # "init", NEW t \in Tasks, Sender(c, t)
    PROVE  LogicalPriority(c) \in Ends(Home[t])
<1>1. t \in Served(Home[t])
  BY DEF Served
<1>2. CASE body[c] # "loop" /\ t \in Spawns[body[c]]
  BY <1>1, <1>2, BodyPriority DEF Ends, Callers
<1>3. CASE c = "SysTick" /\ t \in ScheduledTasks
  BY <1>1, <1>3, Names, Priorities DEF Ends
<1> QED
  BY <1>2, <1>3 DEF Sender

(* One context at a time takes a slot of a task, and one at a time         *)
(* enqueues for a dispatcher.                                              *)
LEMMA OneTaker ==
    ASSUME IInv, NEW c, Running(c), NEW b \in active, b # c,
           pc[b] = "taking", NEW t \in Tasks, Caller(c, t)
    PROVE  op[b].task # t
<1> SUFFICES ASSUME op[b].task = t PROVE FALSE
  OBVIOUS
<1>1. /\ b \in Contexts /\ c \in Contexts /\ b # "init" /\ c # "init"
      /\ LogicalPriority(b) < LogicalPriority(c) /\ Cell(b) < LogicalPriority(c)
  BY Interrupted
<1>2. Caller(b, t)
  BY <1>1 DEF IInv, LocalsOK, EndsOK, TakingOK
<1>3. FreeCeiling[t] >= LogicalPriority(c)
  <2>1. /\ LogicalPriority(c) \in Callers(Spawns, {t}) \cup Callers(Schedules, {t})
        /\ LogicalPriority(b) \in Callers(Spawns, {t}) \cup Callers(Schedules, {t})
    BY <1>1, <1>2, CallerPriority DEF IInv
  <2>2. Covers(FreeCeiling[t], Callers(Spawns, {t}) \cup Callers(Schedules, {t}))
    BY AnalysisAssumption
  <2> QED
    BY <1>1, <2>1, <2>2 DEF Covers
<1>4. Cell(b) >= FreeCeiling[t] /\ Cell(b) \in 0..255
  BY <1>1, Cells DEF IInv
<1>5. FreeCeiling[t] \in 0..255 /\ LogicalPriority(c) \in 0..255
  BY <1>1, NamesAssumption, Priorities
<1>6. \A x, y, z \in 0..255 : ~(x >= y /\ z >= x /\ z < y)
  OBVIOUS
<1> QED
  BY <1>1, <1>3, <1>4, <1>5, <1>6, ZenonT(60)

LEMMA OneSender ==
    ASSUME IInv, SendersExcluded, NEW c, Running(c), NEW b \in active, b # c,
           pc[b] = "publishing", NEW t \in Tasks, Sender(c, t)
    PROVE  Home[op[b].task] # Home[t]
<1> SUFFICES ASSUME Home[op[b].task] = Home[t] PROVE FALSE
  OBVIOUS
<1>1. /\ b \in Contexts /\ c \in Contexts /\ b # "init" /\ c # "init"
      /\ LogicalPriority(b) < LogicalPriority(c) /\ Cell(b) < LogicalPriority(c)
  BY Interrupted
<1>2. op[b].task \in Tasks /\ Sender(b, op[b].task)
  BY <1>1 DEF IInv, LocalsOK, RoleOK, Holds
<1>3. ReadyCeiling[Home[t]] >= LogicalPriority(c)
  <2>1. LogicalPriority(c) \in Ends(Home[t]) /\ LogicalPriority(b) \in Ends(Home[t])
    BY <1>1, <1>2, SenderPriority DEF IInv
  <2>2. Covers(ReadyCeiling[Home[t]], Ends(Home[t]))
    BY Names DEF SendersExcluded
  <2> QED
    BY <1>1, <2>1, <2>2 DEF Covers
<1>4. Cell(b) >= ReadyCeiling[Home[t]] /\ Cell(b) \in 0..255
  BY <1>1, Cells DEF IInv
<1>5. ReadyCeiling[Home[t]] \in 0..255 /\ LogicalPriority(c) \in 0..255
  BY <1>1, Names, NamesAssumption, Priorities
<1>6. \A x, y, z \in 0..255 : ~(x >= y /\ z >= x /\ z < y)
  OBVIOUS
<1> QED
  BY <1>1, <1>3, <1>4, <1>5, <1>6, ZenonT(60)

-----------------------------------------------------------------------------
(* What one place per slot entails.                                        *)

LEMMA TaskFacts ==
    ASSUME Rings, NEW t \in Tasks
    PROVE  /\ FreeSize[t] \in Nat \ {0} /\ FreeSize[t] \in 1..128
           /\ Capacity[t] \in 1..128 /\ Capacity[t] <= FreeSize[t]
           /\ GoodRing(free[t], FreeSize[t], FreeItems(t))
           /\ Slots(t) \subseteq 0..127
<1>1. /\ FreeSize[t] \in 1..128 /\ Capacity[t] \in 1..128
      /\ FreeSize[t] >= Capacity[t]
  BY NamesAssumption, AnalysisAssumption
<1>2. GoodRing(free[t], FreeSize[t], FreeItems(t))
  BY DEF Rings
<1>3. Slots(t) \subseteq 0..127
  BY <1>1 DEF Slots
<1> QED
  BY <1>1, <1>2, <1>3

LEMMA DispatcherFacts ==
    ASSUME Rings, NEW d \in Dispatchers
    PROVE  /\ ReadySize[d] \in Nat \ {0} /\ ReadySize[d] \in 1..128
           /\ GoodRing(ready[d], ReadySize[d], ReadyItems)
BY NamesAssumption DEF Rings

LEMMA OneHolder ==
    ASSUME TokensOK, LocalsOK, NEW c \in Contexts, pc[c] \in Holds
    PROVE  LET t == op[c].task
               i == op[c].slot
           IN  /\ t \in Tasks /\ i \in Slots(t)
               /\ Where(t, i) = {<<"held", c>>}
               /\ FreeAt(t, i) = {} /\ ReadyAt(t, i) = {} /\ <<t, i>> \notin timers
               /\ \A b \in Contexts : Holding(b, t, i) => b = c
<1> DEFINE t == op[c].task
           i == op[c].slot
<1>1. t \in Tasks /\ i \in Slots(t) /\ Holding(c, t, i)
  BY DEF LocalsOK, RoleOK, Holding, Holds
<1> HIDE DEF t, i
<1>2. \E w : Where(t, i) = {w}
  BY <1>1 DEF TokensOK
<1>3. <<"held", c>> \in HeldAt(t, i)
  BY <1>1 DEF HeldAt
<1>4. Where(t, i) = {<<"held", c>>}
  BY <1>2, <1>3 DEF Where
<1>5. FreeAt(t, i) = {}
  <2> SUFFICES ASSUME NEW x \in FreeAt(t, i) PROVE FALSE
    OBVIOUS
  <2>1. x = <<"held", c>>
    BY <1>4 DEF Where
  <2>2. \E p : x = <<"free", p>>
    BY DEF FreeAt, Marks
  <2> QED
    BY <2>1, <2>2
<1>6. ReadyAt(t, i) = {}
  <2> SUFFICES ASSUME NEW x \in ReadyAt(t, i) PROVE FALSE
    OBVIOUS
  <2>1. x = <<"held", c>>
    BY <1>4 DEF Where
  <2>2. \E p : x = <<"ready", p>>
    BY DEF ReadyAt, Marks
  <2> QED
    BY <2>1, <2>2
<1>7. <<t, i>> \notin timers
  <2> SUFFICES ASSUME <<t, i>> \in timers PROVE FALSE
    OBVIOUS
  <2>1. <<"timer", <<t, i>>>> \in TimerAt(t, i)
    BY DEF TimerAt
  <2>2. <<"timer", <<t, i>>>> = <<"held", c>>
    BY <1>4, <2>1 DEF Where
  <2> QED
    BY <2>2
<1>8. ASSUME NEW b \in Contexts, Holding(b, t, i) PROVE b = c
  <2>1. <<"held", b>> \in HeldAt(t, i)
    BY <1>8 DEF HeldAt
  <2>2. <<"held", b>> = <<"held", c>>
    BY <1>4, <2>1 DEF Where
  <2> QED
    BY <2>2
<1> QED
  BY <1>1, <1>4, <1>5, <1>6, <1>7, <1>8 DEF t, i

LEMMA ReadyDistinct ==
    ASSUME TokensOK, EntriesOK, NEW d \in Dispatchers,
           NEW p \in Live(ready[d], ReadySize[d]), NEW q \in Live(ready[d], ReadySize[d]),
           ready[d].buf[p] = ready[d].buf[q]
    PROVE  p = q
<1>1. ready[d].buf[p] \in Messages(d)
  BY DEF EntriesOK
<1>2. PICK t \in Tasks : /\ Home[t] = d
                        /\ \E i \in Slots(t) : ready[d].buf[p] = <<t, i>>
  BY <1>1 DEF Messages, Served
<1>6. PICK i \in Slots(t) : ready[d].buf[p] = <<t, i>>
  BY <1>2
<1>3. <<"ready", p>> \in ReadyAt(t, i) /\ <<"ready", q>> \in ReadyAt(t, i)
  BY <1>2, <1>6 DEF ReadyAt, Marks
<1>4. PICK w : Where(t, i) = {w}
  BY DEF TokensOK
<1>5. <<"ready", p>> = <<"ready", q>>
  BY <1>3, <1>4 DEF Where
<1> QED
  BY <1>5

LEMMA FreeDistinct ==
    ASSUME TokensOK, EntriesOK, NEW t \in Tasks,
           NEW p \in Live(free[t], FreeSize[t]), NEW q \in Live(free[t], FreeSize[t]),
           free[t].buf[p] = free[t].buf[q]
    PROVE  p = q
<1>1. free[t].buf[p] \in Slots(t)
  BY DEF EntriesOK
<1> DEFINE i == free[t].buf[p]
<1>3. <<"free", p>> \in FreeAt(t, i) /\ <<"free", q>> \in FreeAt(t, i)
  BY DEF FreeAt, Marks
<1>4. PICK w : Where(t, i) = {w}
  BY <1>1 DEF TokensOK
<1>5. <<"free", p>> = <<"free", q>>
  BY <1>3, <1>4 DEF Where
<1> QED
  BY <1>5

(* A queue has room for a slot that a context holds.                       *)
LEMMA RoomReady ==
    ASSUME Rings, TokensOK, EntriesOK, LocalsOK, NEW c \in Contexts, pc[c] \in Holds
    PROVE  LET d == Home[op[c].task]
           IN  d \in Dispatchers /\ Filled(ready[d]) < ReadySize[d]
<1> DEFINE t == op[c].task
           i == op[c].slot
           d == Home[t]
           x == <<t, i>>
           S == Messages(d)
           r == ready[d]
           n == ReadySize[d]
<1>1. t \in Tasks /\ i \in Slots(t) /\ ReadyAt(t, i) = {}
  BY OneHolder
<1>2. d \in Dispatchers /\ x \in S
  BY <1>1, Names DEF Messages, Served
<1>3. IsFiniteSet(S)
  BY <1>2, MessagesFinite
<1>4. n \in Nat \ {0} /\ GoodRing(r, n, ReadyItems)
  BY <1>2, DispatcherFacts
<1>5. Filled(r) <= n /\ \A p \in Live(r, n) : r.buf[p] \in S
  BY <1>2 DEF EntriesOK
<1>6. \A p \in Live(r, n) : r.buf[p] # x
  BY <1>1 DEF ReadyAt, Marks
<1>7. \A p, q \in Live(r, n) : r.buf[p] = r.buf[q] => p = q
  BY <1>2, ReadyDistinct
<1>8. \A p \in Live(r, n) : r.buf[p] \in S \ {x}
  BY <1>5, <1>6
<1>9. n >= Cardinality(S) /\ Cardinality(S) \in Nat /\ n \in Nat
  BY <1>2, <1>3, <1>4, AnalysisAssumption, FS_CardinalityType
<1> HIDE DEF S, x, r, n, d
<1>10. Filled(r) < Cardinality(S)
  BY <1>2, <1>3, <1>4, <1>5, <1>7, <1>8, Room
<1>11. Filled(r) \in 0..n
  BY <1>4, <1>5, LivePositions
<1>12. Filled(r) < n
  BY <1>9, <1>10, <1>11
<1> QED
  BY <1>2, <1>12 DEF r, n, d

LEMMA RoomFree ==
    ASSUME Rings, TokensOK, EntriesOK, LocalsOK, NEW c \in Contexts, pc[c] \in Holds
    PROVE  LET t == op[c].task
           IN  t \in Tasks /\ Filled(free[t]) < FreeSize[t]
<1> DEFINE t == op[c].task
           i == op[c].slot
           S == Slots(t)
           r == free[t]
           n == FreeSize[t]
<1>1. t \in Tasks /\ i \in S /\ FreeAt(t, i) = {}
  BY OneHolder
<1>3. IsFiniteSet(S) /\ Cardinality(S) = Capacity[t]
  BY <1>1, SlotsCount
<1>4. /\ n \in Nat \ {0} /\ GoodRing(r, n, FreeItems(t))
      /\ Capacity[t] \in Nat /\ Capacity[t] <= n
  BY <1>1, TaskFacts
<1>5. Filled(r) <= n /\ \A p \in Live(r, n) : r.buf[p] \in S
  BY <1>1 DEF EntriesOK
<1>6. \A p \in Live(r, n) : r.buf[p] # i
  BY <1>1 DEF FreeAt, Marks
<1>7. \A p, q \in Live(r, n) : r.buf[p] = r.buf[q] => p = q
  BY <1>1, FreeDistinct
<1>8. \A p \in Live(r, n) : r.buf[p] \in S \ {i}
  BY <1>5, <1>6
<1> HIDE DEF S, i, r, n
<1>10. Filled(r) < Cardinality(S)
  BY <1>1, <1>3, <1>4, <1>5, <1>7, <1>8, Room
<1>11. Filled(r) \in 0..n
  BY <1>4, <1>5, LivePositions
<1>12. Filled(r) < n
  BY <1>3, <1>4, <1>10, <1>11
<1> QED
  BY <1>1, <1>12 DEF r, n

-----------------------------------------------------------------------------
(* Steps.  First what all of them share.                                   *)

Shapes ==
    /\ active \subseteq Contexts
    /\ body = [c \in Contexts |-> body[c]] /\ pc = [c \in Contexts |-> pc[c]]
    /\ op = [c \in Contexts |-> op[c]]
    /\ \A c \in Contexts : op[c] = [task |-> op[c].task, slot |-> op[c].slot,
                                    at |-> op[c].at, input |-> op[c].input]
    /\ free = [t \in Tasks |-> free[t]] /\ ready = [d \in Dispatchers |-> ready[d]]
    /\ inputs = [t \in Tasks |-> inputs[t]]

LEMMA ShapesHold == ASSUME IInv PROVE Shapes
<1>1. /\ active \in SUBSET Contexts
      /\ body \in [Contexts -> Bodies \cup {"loop"}]
      /\ pc \in [Contexts -> {"body", "leaving"} \cup Sending \cup Dispatching]
      /\ op \in [Contexts -> [task : Tasks \cup {Nothing}, slot : 0..127,
                              at : 0..511, input : Bodies \cup {Nothing}]]
  BY DEF IInv, TypeOK
<1>2. \A c \in Contexts : op[c] = [task |-> op[c].task, slot |-> op[c].slot,
                                   at |-> op[c].at, input |-> op[c].input]
  BY <1>1
<1>3. /\ body = [c \in Contexts |-> body[c]] /\ pc = [c \in Contexts |-> pc[c]]
      /\ op = [c \in Contexts |-> op[c]]
  BY <1>1
<1>4. /\ free = [t \in Tasks |-> free[t]] /\ ready = [d \in Dispatchers |-> ready[d]]
      /\ inputs = [t \in Tasks |-> inputs[t]]
  BY DEF IInv, Rings
<1> QED
  BY <1>1, <1>2, <1>3, <1>4 DEF Shapes

LEMMA DispatchShape == ASSUME IInv PROVE ShapeOK
<1>1. \A d \in Dispatchers :
          ready[d] = [head |-> ready[d].head, tail |-> ready[d].tail,
                      vacant |-> ready[d].vacant, buf |-> ready[d].buf]
  BY DEF IInv, Rings, GoodRing
<1> QED
  BY <1>1, ShapesHold DEF Shapes, ShapeOK

(* Only c moves.                                                           *)
OnlyMoves(c) == \A b \in Contexts \ {c} : pc'[b] = pc[b] /\ op'[b] = op[b]

LEMMA OrderFrame ==
    ASSUME IInv, NEW c, Running(c), active' \subseteq active, OnlyMoves(c)
    PROVE  OrderOK'
<1> SUFFICES ASSUME NEW x \in active, NEW y \in active, x # y
             PROVE  /\ LogicalPriority(x) # LogicalPriority(y)
                    /\ LogicalPriority(x) < LogicalPriority(y) =>
                          Cell(x)' < LogicalPriority(y)
  BY DEF OrderOK
<1>1. /\ LogicalPriority(x) # LogicalPriority(y)
      /\ LogicalPriority(x) < LogicalPriority(y) => Cell(x) < LogicalPriority(y)
  BY DEF IInv, OrderOK
<1>2. x \in Contexts /\ y \in Contexts
  BY DEF IInv, TypeOK
<1>3. CASE x = c
  <2>1. LogicalPriority(y) < LogicalPriority(x)
    BY <1>3 DEF Running
  <2>2. LogicalPriority(x) \in 0..255 /\ LogicalPriority(y) \in 0..255
    BY <1>2, Priorities
  <2>3. \A k, l \in 0..255 : k < l => ~(l < k)
    OBVIOUS
  <2> QED
    BY <1>1, <2>1, <2>2, <2>3, Zenon
<1>4. CASE x # c
  <2>1. pc'[x] = pc[x] /\ op'[x] = op[x]
    BY <1>2, <1>4 DEF OnlyMoves
  <2>2. Cell(x)' = Cell(x)
    BY <2>1, SMTT(30), ZenonT(30) DEF Cell
  <2> QED
    BY <1>1, <2>2
<1> QED
  BY <1>3, <1>4

(* What the end of a queue must keep for a context that is inside of it.   *)
LEMMA LocalFrame ==
    ASSUME IInv, NEW b \in Contexts, pc'[b] = pc[b], op'[b] = op[b], body'[b] = body[b],
           LET t == op[b].task
               d == Home[t]
           IN  /\ pc[b] = "taking" => /\ First(free'[t]) = First(free[t])
                                      /\ free'[t].head = free[t].head
                                      /\ Filled(free'[t]) > 0
               /\ pc[b] = "publishing" =>
                     /\ ready'[d].tail = ready[d].tail
                     /\ ready'[d].buf[ready[d].tail % ReadySize[d]]
                           = ready[d].buf[ready[d].tail % ReadySize[d]]
               /\ pc[b] = "taken" => /\ First(ready'[b]) = First(ready[b])
                                     /\ ready'[b].head = ready[b].head
                                     /\ Filled(ready'[b]) > 0
               /\ pc[b] = "freed" =>
                     /\ free'[t].tail = free[t].tail
                     /\ free'[t].buf[free[t].tail % FreeSize[t]]
                           = free[t].buf[free[t].tail % FreeSize[t]]
    PROVE  (RoleOK(b) /\ EndsOK(b))'
<1>1. RoleOK(b) /\ EndsOK(b)
  BY ZenonT(60) DEF IInv, LocalsOK
<1>2. RoleOK(b)'
  BY <1>1 DEF RoleOK, Caller, Sender
<1>3. pc[b] = "taking" => TakingOK(b)'
  <2> SUFFICES ASSUME pc[b] = "taking" PROVE TakingOK(b)'
    OBVIOUS
  <2>1. TakingOK(b)
    BY <1>1 DEF EndsOK
  <2>2. op[b].task \in Tasks /\ Caller(b, op[b].task)'
    BY <2>1 DEF TakingOK, Caller
  <2>3. /\ op[b].slot = First(free'[op[b].task]) /\ op[b].at = free'[op[b].task].head
        /\ Filled(free'[op[b].task]) > 0
    BY <2>1 DEF TakingOK
  <2> QED
    BY <2>2, <2>3, Zenon DEF TakingOK
<1>4. pc[b] = "publishing" => PublishingOK(b)'
  BY <1>1, ZenonT(30) DEF EndsOK, PublishingOK
<1>5. pc[b] = "taken" => TakenOK(b)'
  BY <1>1, ZenonT(60) DEF EndsOK, TakenOK, First, Size, Filled
<1>6. pc[b] = "freed" => FreedOK(b)'
  BY <1>1 DEF EndsOK, FreedOK
<1> QED
  BY <1>2, <1>3, <1>4, <1>5, <1>6, ZenonT(60) DEF EndsOK

(* The places of a slot, when the queues, the timers and the holders are   *)
(* what they were.                                                         *)
LEMMA FreeAtSame ==
    ASSUME NEW t, NEW i, free'[t] = free[t] PROVE FreeAt(t, i)' = FreeAt(t, i)
BY DEF FreeAt, Marks, Live, Pos, Filled, Size

LEMMA ReadyAtSame ==
    ASSUME NEW t, NEW i, ready'[Home[t]] = ready[Home[t]]
    PROVE  ReadyAt(t, i)' = ReadyAt(t, i)
BY DEF ReadyAt, Marks, Live, Pos, Filled, Size

LEMMA HeldAtSame ==
    ASSUME NEW c, OnlyMoves(c), NEW t, NEW i, Holding(c, t, i)' <=> Holding(c, t, i)
    PROVE  HeldAt(t, i)' = HeldAt(t, i)
<1>1. \A b \in Contexts \ {c} : Holding(b, t, i)' <=> Holding(b, t, i)
  BY DEF OnlyMoves, Holding
<1>2. {b \in Contexts : Holding(b, t, i)}' = {b \in Contexts : Holding(b, t, i)}
  BY <1>1
<1> QED
  BY <1>2 DEF HeldAt

LEMMA HeldAtGains ==
    ASSUME NEW c \in Contexts, OnlyMoves(c), NEW t, NEW i,
           Holding(c, t, i)', ~Holding(c, t, i)
    PROVE  HeldAt(t, i)' = HeldAt(t, i) \cup {<<"held", c>>}
<1>1. \A b \in Contexts \ {c} : Holding(b, t, i)' <=> Holding(b, t, i)
  BY DEF OnlyMoves, Holding
<1>2. {b \in Contexts : Holding(b, t, i)}' = {b \in Contexts : Holding(b, t, i)} \cup {c}
  BY <1>1
<1> QED
  BY <1>2 DEF HeldAt

LEMMA HeldAtLoses ==
    ASSUME NEW c \in Contexts, OnlyMoves(c), NEW t, NEW i,
           ~Holding(c, t, i)', Holding(c, t, i)
    PROVE  HeldAt(t, i)' = HeldAt(t, i) \ {<<"held", c>>}
<1>1. \A b \in Contexts \ {c} : Holding(b, t, i)' <=> Holding(b, t, i)
  BY DEF OnlyMoves, Holding
<1>2. {b \in Contexts : Holding(b, t, i)}' = {b \in Contexts : Holding(b, t, i)} \ {c}
  BY <1>1
<1> QED
  BY <1>2 DEF HeldAt

LEMMA TokensMove ==
    ASSUME TokensOK, NEW t0, NEW i0, NEW a, NEW w, a \in Where(t0, i0),
           Where(t0, i0)' = (Where(t0, i0) \ {a}) \cup {w},
           \A t \in Tasks : \A i \in Slots(t) :
              <<t, i>> # <<t0, i0>> => Where(t, i)' = Where(t, i)
    PROVE  TokensOK'
<1>1. ASSUME NEW t \in Tasks, NEW i \in Slots(t) PROVE \E v : Where(t, i)' = {v}
  <2>1. PICK v : Where(t, i) = {v}
    BY DEF TokensOK
  <2>2. CASE <<t, i>> = <<t0, i0>>
    <3>1. t = t0 /\ i = i0
      BY <2>2
    <3>2. Where(t, i)' = {w}
      BY <2>1, <3>1
    <3> QED
      BY <3>2
  <2>3. CASE <<t, i>> # <<t0, i0>>
    BY <2>1, <2>3
  <2> QED
    BY <2>2, <2>3
<1> QED
  BY <1>1 DEF TokensOK

LEMMA TokensStay ==
    ASSUME TokensOK, \A t \in Tasks : \A i \in Slots(t) : Where(t, i)' = Where(t, i)
    PROVE  TokensOK'
<1> SUFFICES ASSUME NEW t \in Tasks, NEW i \in Slots(t) PROVE \E w : Where(t, i)' = {w}
  BY DEF TokensOK
<1>1. PICK w : Where(t, i) = {w}
  BY DEF TokensOK
<1> QED
  BY <1>1

Queues == Rings /\ EntriesOK /\ LocalsOK /\ TokensOK

LEMMA QuietLocal ==
    ASSUME IInv, NEW b \in Contexts, pc'[b] = pc[b], op'[b] = op[b], body'[b] = body[b],
           free' = free, ready' = ready
    PROVE  (RoleOK(b) /\ EndsOK(b))'
<1>1. /\ pc[b] = "taking" => Filled(free[op[b].task]) > 0
      /\ pc[b] = "taken" => Filled(ready[b]) > 0
  BY DEF IInv, LocalsOK, EndsOK, TakingOK, TakenOK
<1> QED
  BY <1>1, LocalFrame

LEMMA QuietRings ==
    ASSUME Rings, EntriesOK, free' = free, ready' = ready,
           inputs' = [t \in Tasks |-> inputs'[t]],
           \A x \in timers' : x \in UNION {{t} \X Slots(t) : t \in ScheduledTasks}
    PROVE  Rings' /\ EntriesOK'
<1>1. Rings'
  BY DEF Rings, GoodRing
<1>2. EntriesOK'
  BY DEF EntriesOK, Live, Pos, Filled, Size
<1> QED
  BY <1>1, <1>2

(* Starting and ending contexts leaves every queue alone.                  *)
LEMMA ControlStep ==
    ASSUME IInv, free' = free, ready' = ready, inputs' = inputs, timers' = timers, op' = op,
           \A b \in Contexts :
              \/ pc'[b] = pc[b] /\ body'[b] = body[b]
              \/ pc[b] \in {"body", "leaving"} /\ pc'[b] \in {"body", "leaving"}
    PROVE  Queues'
<1>1. Rings' /\ EntriesOK'
  <2>1. inputs = [t \in Tasks |-> inputs[t]]
    BY DEF IInv, Rings
  <2>2. \A x \in timers : x \in UNION {{t} \X Slots(t) : t \in ScheduledTasks}
    BY DEF IInv, EntriesOK
  <2> QED
    BY <2>1, <2>2, QuietRings DEF IInv
<1>2. LocalsOK'
  <2> SUFFICES ASSUME NEW b \in Contexts PROVE (RoleOK(b) /\ EndsOK(b))'
    BY DEF LocalsOK
  <2>1. CASE pc'[b] = pc[b] /\ body'[b] = body[b]
    BY <2>1, QuietLocal
  <2>2. CASE pc'[b] \in {"body", "leaving"}
    BY <2>2 DEF RoleOK, EndsOK, Holds
  <2> QED
    BY <2>1, <2>2
<1>3. TokensOK'
  <2>1. ASSUME NEW t, NEW i PROVE HeldAt(t, i)' = HeldAt(t, i)
    <3>1. \A b \in Contexts : Holding(b, t, i)' <=> Holding(b, t, i)
      BY DEF Holding
    <3> QED
      BY <3>1 DEF HeldAt
  <2>2. \A t, i : TimerAt(t, i)' = TimerAt(t, i)
    BY DEF TimerAt
  <2>3. \A t \in Tasks : \A i \in Slots(t) : Where(t, i)' = Where(t, i)
    BY <2>1, <2>2, FreeAtSame, ReadyAtSame DEF Where
  <2> QED
    BY <2>3 DEF TokensOK, IInv
<1> QED
  BY <1>1, <1>2, <1>3 DEF Queues

(* c proceeds between two accesses to the queues, with what it holds.      *)
LEMMA QuietStep ==
    ASSUME IInv, NEW c \in Contexts, OnlyMoves(c),
           free' = free, ready' = ready, timers' = timers, body' = body,
           inputs' = [t \in Tasks |-> inputs'[t]],
           \A t, i : Holding(c, t, i)' <=> Holding(c, t, i),
           (RoleOK(c) /\ EndsOK(c))'
    PROVE  Queues'
<1>1. Rings' /\ EntriesOK'
  <2>2. \A x \in timers : x \in UNION {{t} \X Slots(t) : t \in ScheduledTasks}
    BY DEF IInv, EntriesOK
  <2> QED
    BY <2>2, QuietRings DEF IInv
<1>2. LocalsOK'
  <2> SUFFICES ASSUME NEW b \in Contexts, b # c PROVE (RoleOK(b) /\ EndsOK(b))'
    BY DEF LocalsOK
  <2> QED
    BY QuietLocal DEF OnlyMoves
<1>3. TokensOK'
  <2>1. \A t, i : HeldAt(t, i)' = HeldAt(t, i)
    BY HeldAtSame
  <2>2. \A t, i : TimerAt(t, i)' = TimerAt(t, i)
    BY DEF TimerAt
  <2>3. \A t \in Tasks : \A i \in Slots(t) : Where(t, i)' = Where(t, i)
    BY <2>1, <2>2, FreeAtSame, ReadyAtSame DEF Where
  <2> QED
    BY <2>3 DEF TokensOK, IInv
<1> QED
  BY <1>1, <1>2, <1>3 DEF Queues

-----------------------------------------------------------------------------
(* Step by step: the actions that leave the rings alone.                   *)

LEMMA AtFacts ==
    ASSUME Shapes, NEW c, NEW step, At(c, step)
    PROVE  Running(c) /\ c \in active /\ c \in Contexts /\ pc[c] = step
BY DEF At, Running, Shapes

LEMMA CallQueues ==
    ASSUME IInv, NEW c \in Contexts, NEW t \in Tasks, Call(c, t) PROVE Queues'
<1> USE ShapesHold DEF Shapes
<1>1. /\ pc[c] = "body" /\ pc'[c] = "taking"
      /\ free' = free /\ ready' = ready /\ timers' = timers /\ body' = body
      /\ inputs' = inputs
      /\ body[c] # "loop" /\ t \in Spawns[body[c]] \cup Schedules[body[c]]
      /\ Filled(free[t]) > 0
      /\ op'[c] = [task |-> t, slot |-> First(free[t]), at |-> free[t].head,
                   input |-> body[c]]
  BY AtFacts DEF Call, Goto
<1>2. OnlyMoves(c)
  BY DEF Call, Goto, OnlyMoves
<1>3. \A u, i : Holding(c, u, i)' <=> Holding(c, u, i)
  BY <1>1 DEF Holding
<1>4. (RoleOK(c) /\ EndsOK(c))'
  <2>2. /\ op'[c].task = t /\ op'[c].slot = First(free[t])
        /\ op'[c].at = free[t].head
    BY <1>1
  <2>3. First(free[t])' = First(free[t]) /\ Filled(free[t])' = Filled(free[t])
    BY <1>1 DEF First, Filled, Size
  <2>1. TakingOK(c)'
    BY <1>1, <2>2, <2>3 DEF TakingOK, Caller
  <2> QED
    BY <1>1, <2>1 DEF RoleOK, EndsOK, Holds
<1> QED
  BY <1>1, <1>2, <1>3, <1>4, QuietStep

LEMMA WriteQueues == ASSUME IInv, NEW c \in Contexts, Write(c) PROVE Queues'
<1> USE ShapesHold DEF Shapes
<1> DEFINE t == op[c].task
<1>1. /\ pc[c] = "writing" /\ op' = op
      /\ free' = free /\ ready' = ready /\ timers' = timers /\ body' = body
      /\ \/ t \in Spawns[body[c]] /\ pc'[c] = "posting"
         \/ t \in Schedules[body[c]] /\ pc'[c] = "arming"
  BY AtFacts DEF Write, Goto
<1>2. inputs' = [u \in Tasks |-> inputs'[u]]
  BY DEF Write
<1>3. OnlyMoves(c)
  BY DEF Write, Goto, OnlyMoves
<1>4. \A u, i : Holding(c, u, i)' <=> Holding(c, u, i)
  BY <1>1 DEF Holding
<1>5. (RoleOK(c) /\ EndsOK(c))'
  <2>1. RoleOK(c)
    BY DEF IInv, LocalsOK
  <2>2. t \in Tasks /\ op[c].slot \in Slots(t) /\ body[c] # "loop"
    BY <1>1, <2>1 DEF RoleOK, Holds, Caller
  <2>3. body[c] \in Bodies
    BY <2>2 DEF IInv, TypeOK
  <2>4. t \in Schedules[body[c]] => t \in ScheduledTasks
    BY <2>2, <2>3 DEF ScheduledTasks
  <2>5. CASE t \in Spawns[body[c]] /\ pc'[c] = "posting"
    BY <1>1, <2>2, <2>5 DEF RoleOK, EndsOK, Sender
  <2>6. CASE t \in Schedules[body[c]] /\ pc'[c] = "arming"
    BY <1>1, <2>2, <2>4, <2>6 DEF RoleOK, EndsOK
  <2> QED
    BY <1>1, <2>5, <2>6
<1> QED
  BY <1>1, <1>2, <1>3, <1>4, <1>5, QuietStep

LEMMA PendQueues == ASSUME IInv, NEW c \in Contexts, Pend(c) PROVE Queues'
<1> USE ShapesHold DEF Shapes
<1>1. /\ pc[c] = "pending" /\ pc'[c] = "body"
      /\ free' = free /\ ready' = ready /\ timers' = timers /\ body' = body
      /\ inputs' = inputs
  BY AtFacts DEF Pend, Goto
<1>2. OnlyMoves(c)
  BY DEF Pend, Goto, OnlyMoves
<1>3. \A u, i : Holding(c, u, i)' <=> Holding(c, u, i)
  BY <1>1 DEF Holding
<1>4. (RoleOK(c) /\ EndsOK(c))'
  BY <1>1 DEF RoleOK, EndsOK, Holds
<1> QED
  BY <1>1, <1>2, <1>3, <1>4, QuietStep

LEMMA PollQueues ==
    ASSUME IInv, NEW d \in Dispatchers, d \in Contexts, Poll(d) PROVE Queues'
<1> USE ShapesHold DEF Shapes
<1>1. /\ pc[d] = "body"
      /\ free' = free /\ ready' = ready /\ timers' = timers /\ body' = body
      /\ inputs' = inputs
  BY AtFacts DEF Poll
<1>2. OnlyMoves(d)
  BY DEF Poll, Goto, OnlyMoves
<1>3. \/ pc'[d] = "leaving"
      \/ /\ pc'[d] = "taken" /\ Filled(ready[d]) # 0
         /\ op'[d] = [task |-> First(ready[d])[1], slot |-> First(ready[d])[2],
                      at |-> ready[d].head, input |-> Nothing]
  BY DEF Poll, Goto
<1>4. \A u, i : Holding(d, u, i)' <=> Holding(d, u, i)
  BY <1>1, <1>3 DEF Holding
<1>5. CASE pc'[d] = "leaving"
  <2>1. (RoleOK(d) /\ EndsOK(d))'
    BY <1>5 DEF RoleOK, EndsOK, Holds
  <2> QED
    BY <1>1, <1>2, <1>4, <2>1, QuietStep
<1>6. CASE pc'[d] = "taken"
  <2>1. /\ Filled(ready[d]) # 0
        /\ op'[d] = [task |-> First(ready[d])[1], slot |-> First(ready[d])[2],
                     at |-> ready[d].head, input |-> Nothing]
    BY <1>3, <1>6
  <2>2. /\ ReadySize[d] \in Nat \ {0}
        /\ GoodRing(ready[d], ReadySize[d], ReadyItems)
        /\ Filled(ready[d]) <= ReadySize[d]
    BY DispatcherFacts DEF IInv, EntriesOK
  <2>3. Filled(ready[d]) > 0 /\ First(ready[d]) \in ReadyItems
    <3>1. Filled(ready[d]) \in 0..ReadySize[d] /\ Size(ready[d]) = ReadySize[d]
      BY <2>2, LivePositions, RingFacts
    <3>2. Filled(ready[d]) > 0
      BY <2>1, <3>1
    <3>3. First(ready[d]) = ready[d].buf[Pos(ready[d], ReadySize[d], 1)]
      BY <2>2, <3>1, LivePositions DEF First
    <3>4. 1 \in 1..ReadySize[d]
      BY <2>2
    <3>5. Pos(ready[d], ReadySize[d], 1) \in 0..ReadySize[d]-1
      BY <2>2, <3>4, LivePositions
    <3> QED
      BY <2>2, <3>2, <3>3, <3>5 DEF GoodRing
  <2>4. <<op'[d].task, op'[d].slot>> = First(ready[d])
    BY <2>1, <2>3 DEF ReadyItems
  <2>5. op'[d].at = ready[d].head
    BY <2>1
  <2>6. TakenOK(d)'
    BY <1>1, <2>3, <2>4, <2>5, Zenon DEF TakenOK, First, Filled, Size
  <2>7. (RoleOK(d) /\ EndsOK(d))'
    BY <1>6, <2>6 DEF RoleOK, EndsOK, Holds
  <2> QED
    BY <1>1, <1>2, <1>4, <2>7, QuietStep
<1> QED
  BY <1>3, <1>5, <1>6

LEMMA ReadQueues ==
    ASSUME IInv, NEW d \in Dispatchers, d \in Contexts, Read(d) PROVE Queues'
<1> USE ShapesHold DEF Shapes
<1>1. /\ pc[d] = "reading" /\ pc'[d] = "freeing"
      /\ free' = free /\ ready' = ready /\ timers' = timers /\ body' = body
  BY AtFacts DEF Read, Goto
<1>2. op'[d].task = op[d].task /\ op'[d].slot = op[d].slot
  <2>1. op[d] = [task |-> op[d].task, slot |-> op[d].slot,
                 at |-> op[d].at, input |-> op[d].input]
    OBVIOUS
  <2>2. \E x : op'[d] = [op[d] EXCEPT !.input = x]
    BY DEF Read
  <2> QED
    BY <2>1, <2>2
<1>3. OnlyMoves(d)
  BY DEF Read, Goto, OnlyMoves
<1>4. inputs' = [u \in Tasks |-> inputs'[u]]
  BY DEF Read
<1>5. \A u, i : Holding(d, u, i)' <=> Holding(d, u, i)
  BY <1>1, <1>2 DEF Holding
<1>6. (RoleOK(d) /\ EndsOK(d))'
  <2>1. RoleOK(d)
    BY DEF IInv, LocalsOK
  <2> QED
    BY <1>1, <1>2, <2>1 DEF RoleOK, EndsOK, Holds
<1> QED
  BY <1>1, <1>3, <1>4, <1>5, <1>6, QuietStep

LEMMA ArmQueues ==
    ASSUME IInv, NEW c \in Contexts, Arm(c),
           NEW t0, NEW i0, Holding(c, t0, i0)
    PROVE  Queues'
<1> USE ShapesHold DEF Shapes
<1> DEFINE x0 == <<t0, i0>>
<1>1. /\ pc[c] = "arming" /\ pc'[c] = "body"
      /\ free' = free /\ ready' = ready /\ body' = body /\ inputs' = inputs
      /\ timers' = timers \cup {x0}
  BY AtFacts DEF Arm, Goto, Holding
<1>2. OnlyMoves(c)
  BY DEF Arm, Goto, OnlyMoves
<1>3. /\ t0 \in Tasks /\ i0 \in Slots(t0) /\ Where(t0, i0) = {<<"held", c>>}
      /\ x0 \notin timers /\ FreeAt(t0, i0) = {} /\ ReadyAt(t0, i0) = {}
  BY <1>1, OneHolder DEF Holds, IInv, Holding
<1>4. t0 \in ScheduledTasks
  BY <1>1 DEF IInv, LocalsOK, RoleOK, Holding
<1>5. Rings' /\ EntriesOK'
  <2>1. \A x \in timers' : x \in UNION {{t} \X Slots(t) : t \in ScheduledTasks}
    BY <1>1, <1>3, <1>4 DEF IInv, EntriesOK
  <2> QED
    BY <1>1, <2>1, QuietRings DEF IInv
<1>6. LocalsOK'
  <2>1. (RoleOK(c) /\ EndsOK(c))'
    BY <1>1 DEF RoleOK, EndsOK, Holds
  <2>2. ASSUME NEW b \in Contexts, b # c PROVE (RoleOK(b) /\ EndsOK(b))'
    BY <1>1, <1>2, <2>2, QuietLocal DEF OnlyMoves
  <2> QED
    BY <2>1, <2>2 DEF LocalsOK
<1>7. TokensOK'
  <2>1. ASSUME NEW t, NEW i, <<t, i>> # x0 PROVE Where(t, i)' = Where(t, i)
    <3>1. ~Holding(c, t, i) /\ ~Holding(c, t, i)'
      BY <1>1, <2>1 DEF Holding
    <3>2. HeldAt(t, i)' = HeldAt(t, i)
      BY <1>2, <3>1, HeldAtSame
    <3>3. TimerAt(t, i)' = TimerAt(t, i)
      BY <1>1, <2>1 DEF TimerAt
    <3> QED
      BY <1>1, <3>2, <3>3, FreeAtSame, ReadyAtSame DEF Where
  <2>2. Where(t0, i0)' = (Where(t0, i0) \ {<<"held", c>>}) \cup {<<"timer", x0>>}
    <3>1. Holding(c, t0, i0) /\ ~Holding(c, t0, i0)'
      BY <1>1 DEF Holding
    <3>2. HeldAt(t0, i0)' = HeldAt(t0, i0) \ {<<"held", c>>}
      BY <1>2, <3>1, HeldAtLoses
    <3>3. TimerAt(t0, i0)' = {<<"timer", x0>>}
      BY <1>1 DEF TimerAt
    <3>4. FreeAt(t0, i0)' = FreeAt(t0, i0) /\ ReadyAt(t0, i0)' = ReadyAt(t0, i0)
      BY <1>1, FreeAtSame, ReadyAtSame
    <3>5. /\ FreeAt(t0, i0) = {} /\ ReadyAt(t0, i0) = {}
          /\ TimerAt(t0, i0) = {}
      BY <1>3 DEF TimerAt
    <3> QED
      BY <3>2, <3>3, <3>4, <3>5 DEF Where
  <2>3. <<"held", c>> \in Where(t0, i0)
    BY <1>3
  <2>4. \A t \in Tasks : \A i \in Slots(t) :
           <<t, i>> # <<t0, i0>> => Where(t, i)' = Where(t, i)
    BY <2>1
  <2>5. TokensOK
    BY DEF IInv
  <2> DEFINE a == <<"held", c>>
             w == <<"timer", x0>>
  <2>6. a \in Where(t0, i0) /\ Where(t0, i0)' = (Where(t0, i0) \ {a}) \cup {w}
    BY <2>2, <2>3, Zenon
  <2> HIDE DEF a, w
  <2> QED
    BY <2>4, <2>5, <2>6, TokensMove
<1> QED
  BY <1>5, <1>6, <1>7 DEF Queues

LEMMA FireQueues ==
    ASSUME IInv, NEW t0 \in Tasks, NEW i0 \in Slots(t0), Fire(<<t0, i0>>) PROVE Queues'
<1> USE ShapesHold DEF Shapes
<1> DEFINE c == "SysTick"
           x0 == <<t0, i0>>
<1>1. /\ pc[c] = "body" /\ pc'[c] = "posting" /\ c \in Contexts
      /\ free' = free /\ ready' = ready /\ body' = body /\ inputs' = inputs
      /\ x0 \in timers /\ timers' = timers \ {x0}
      /\ op'[c].task = t0 /\ op'[c].slot = i0
  BY AtFacts DEF Fire, Goto, Idle
<1>2. OnlyMoves(c)
  BY DEF Fire, Goto, OnlyMoves
<1>4. t0 \in ScheduledTasks
  BY <1>1 DEF IInv, EntriesOK
<1>5. Rings' /\ EntriesOK'
  <2>1. \A x \in timers' : x \in UNION {{t} \X Slots(t) : t \in ScheduledTasks}
    BY <1>1 DEF IInv, EntriesOK
  <2> QED
    BY <1>1, <2>1, QuietRings DEF IInv
<1>6. LocalsOK'
  <2>1. (RoleOK(c) /\ EndsOK(c))'
    BY <1>1, <1>4 DEF RoleOK, EndsOK, Holds, Sender
  <2>2. ASSUME NEW b \in Contexts, b # c PROVE (RoleOK(b) /\ EndsOK(b))'
    BY <1>1, <1>2, <2>2, QuietLocal DEF OnlyMoves
  <2> QED
    BY <2>1, <2>2 DEF LocalsOK
<1>7. TokensOK'
  <2>1. ASSUME NEW t, NEW i, <<t, i>> # x0 PROVE Where(t, i)' = Where(t, i)
    <3>1. ~Holding(c, t, i) /\ ~Holding(c, t, i)'
      BY <1>1, <2>1 DEF Holding
    <3>2. HeldAt(t, i)' = HeldAt(t, i)
      BY <1>2, <3>1, HeldAtSame
    <3>3. TimerAt(t, i)' = TimerAt(t, i)
      BY <1>1, <2>1 DEF TimerAt
    <3> QED
      BY <1>1, <3>2, <3>3, FreeAtSame, ReadyAtSame DEF Where
  <2>2. Where(t0, i0)' = (Where(t0, i0) \ {<<"timer", x0>>}) \cup {<<"held", c>>}
    <3>1. ~Holding(c, t0, i0) /\ Holding(c, t0, i0)'
      BY <1>1 DEF Holding
    <3>2. HeldAt(t0, i0)' = HeldAt(t0, i0) \cup {<<"held", c>>}
      BY <1>1, <1>2, <3>1, HeldAtGains
    <3>3. TimerAt(t0, i0)' = {} /\ TimerAt(t0, i0) = {<<"timer", x0>>}
      BY <1>1 DEF TimerAt
    <3>4. FreeAt(t0, i0)' = FreeAt(t0, i0) /\ ReadyAt(t0, i0)' = ReadyAt(t0, i0)
      BY <1>1, FreeAtSame, ReadyAtSame
    <3>5. /\ <<"timer", x0>> \notin FreeAt(t0, i0) /\ <<"timer", x0>> \notin HeldAt(t0, i0)
          /\ <<"timer", x0>> \notin ReadyAt(t0, i0)
      BY DEF FreeAt, ReadyAt, HeldAt, Marks
    <3> QED
      BY <3>2, <3>3, <3>4, <3>5 DEF Where
  <2>3. <<"timer", x0>> \in Where(t0, i0)
    BY <1>1 DEF Where, TimerAt
  <2>4. \A t \in Tasks : \A i \in Slots(t) :
           <<t, i>> # <<t0, i0>> => Where(t, i)' = Where(t, i)
    BY <2>1
  <2>5. TokensOK
    BY DEF IInv
  <2> QED
    BY <2>2, <2>3, <2>4, <2>5, TokensMove, ZenonT(40)
<1> QED
  BY <1>5, <1>6, <1>7 DEF Queues

-----------------------------------------------------------------------------
(* Step by step: the actions on a ring.                                    *)

LEMMA MarksPut ==
    ASSUME NEW n \in Nat \ {0}, NEW Items, NEW r, GoodRing(r, n, Items), Filled(r) < n,
           NEW y \in Items, NEW name, NEW x
    PROVE  Marks(name, Put(r, y), n, x) = Marks(name, r, n, x)
<1> DEFINE s == Put(r, y)
<1>1. Live(s, n) = Live(r, n) /\ \A q \in Live(r, n) : s.buf[q] = r.buf[q]
  BY PutRing
<1> HIDE DEF s
<1> QED
  BY <1>1 DEF Marks, s

LEMMA MarksTail ==
    ASSUME NEW n \in Nat \ {0}, NEW Items, NEW r, GoodRing(r, n, Items), Filled(r) < n,
           NEW name, NEW x, r.buf[r.tail % n] = x
    PROVE  Marks(name, MoveTail(r, r.tail), n, x) =
              Marks(name, r, n, x) \cup {<<name, r.tail % n>>}
<1> DEFINE s == MoveTail(r, r.tail)
           p == r.tail % n
<1>1. Live(s, n) = Live(r, n) \cup {p} /\ s.buf = r.buf
  BY TailRing
<1> HIDE DEF s, p
<1> QED
  BY <1>1 DEF Marks, s, p

LEMMA MarksTailOther ==
    ASSUME NEW n \in Nat \ {0}, NEW Items, NEW r, GoodRing(r, n, Items), Filled(r) < n,
           NEW name, NEW x, r.buf[r.tail % n] # x
    PROVE  Marks(name, MoveTail(r, r.tail), n, x) = Marks(name, r, n, x)
<1> DEFINE s == MoveTail(r, r.tail)
           p == r.tail % n
<1>1. Live(s, n) = Live(r, n) \cup {p} /\ s.buf = r.buf
  BY TailRing
<1> HIDE DEF s, p
<1> QED
  BY <1>1 DEF Marks, s, p

LEMMA MarksHead ==
    ASSUME NEW n \in Nat \ {0}, NEW Items, NEW r, GoodRing(r, n, Items),
           Filled(r) > 0, Filled(r) <= n, NEW name, NEW x
    PROVE  LET s == MoveHead(r, r.head)
               rest == Marks(name, r, n, x) \ {<<name, r.head % n>>}
           IN  /\ First(r) = x => <<name, r.head % n>> \in Marks(name, r, n, x)
               /\ Marks(name, s, n, x) = rest
               /\ First(r) # x => <<name, r.head % n>> \notin Marks(name, r, n, x)
<1> DEFINE s == MoveHead(r, r.head)
           p == r.head % n
<1>1. /\ Live(s, n) = Live(r, n) \ {p}
      /\ \A q \in 0..n-1 : q # p => s.buf[q] = r.buf[q]
  BY HeadRing
<1>2. p \in Live(r, n) /\ First(r) = r.buf[p]
  BY LivePositions, RingFacts DEF First
<1>3. Live(r, n) \subseteq 0..n-1
  BY LiveBounds
<1>4. \A q \in Live(s, n) : s.buf[q] = r.buf[q]
  BY <1>1, <1>3
<1> HIDE DEF s, p
<1>5. First(r) = x => <<name, p>> \in Marks(name, r, n, x)
  BY <1>2 DEF Marks
<1>6. Marks(name, s, n, x) = Marks(name, r, n, x) \ {<<name, p>>}
  BY <1>1, <1>4 DEF Marks
<1>7. First(r) # x => <<name, p>> \notin Marks(name, r, n, x)
  BY <1>2 DEF Marks
<1> QED
  BY <1>5, <1>6, <1>7 DEF s, p

LEMMA MarksHeadOther ==
    ASSUME NEW n \in Nat \ {0}, NEW Items, NEW r, GoodRing(r, n, Items),
           Filled(r) > 0, Filled(r) <= n, NEW name, NEW x, First(r) # x
    PROVE  Marks(name, MoveHead(r, r.head), n, x) = Marks(name, r, n, x)
<1>1. /\ <<name, r.head % n>> \notin Marks(name, r, n, x)
      /\ Marks(name, MoveHead(r, r.head), n, x) =
            Marks(name, r, n, x) \ {<<name, r.head % n>>}
  BY MarksHead, SMTT(30), ZenonT(30)
<1> QED
  BY <1>1

LEMMA LocalFree ==
    ASSUME IInv, NEW b \in Contexts, pc'[b] = pc[b], op'[b] = op[b], body'[b] = body[b],
           ready' = ready, NEW t0 \in Tasks, \A t \in Tasks \ {t0} : free'[t] = free[t],
           pc[b] = "taking" /\ op[b].task = t0 =>
              /\ First(free'[t0]) = First(free[t0]) /\ free'[t0].head = free[t0].head
              /\ Filled(free'[t0]) > 0,
           pc[b] = "freed" /\ op[b].task = t0 =>
              /\ free'[t0].tail = free[t0].tail
              /\ free'[t0].buf[free[t0].tail % FreeSize[t0]]
                    = free[t0].buf[free[t0].tail % FreeSize[t0]]
    PROVE  (RoleOK(b) /\ EndsOK(b))'
<1>1. /\ pc[b] = "taking" => op[b].task \in Tasks /\ Filled(free[op[b].task]) > 0
      /\ pc[b] = "taken" => Filled(ready[b]) > 0
      /\ pc[b] = "freed" => op[b].task \in Tasks
  BY DEF IInv, LocalsOK, EndsOK, RoleOK, TakingOK, TakenOK, Holds
<1>2. pc[b] = "taking" => /\ First(free'[op[b].task]) = First(free[op[b].task])
                          /\ free'[op[b].task].head = free[op[b].task].head
                          /\ Filled(free'[op[b].task]) > 0
  <2>1. CASE op[b].task = t0
    BY <2>1
  <2>2. CASE op[b].task # t0
    BY <1>1, <2>2, SMTT(30), ZenonT(30)
  <2> QED
    BY <2>1, <2>2
<1>3. pc[b] = "freed" =>
        LET t == op[b].task IN
        /\ free'[t].tail = free[t].tail
        /\ free'[t].buf[free[t].tail % FreeSize[t]] = free[t].buf[free[t].tail % FreeSize[t]]
  <2>1. CASE op[b].task = t0
    BY <2>1
  <2>2. CASE op[b].task # t0
    BY <1>1, <2>2
  <2> QED
    BY <2>1, <2>2
<1> QED
  BY <1>1, <1>2, <1>3, LocalFrame

LEMMA LocalReady ==
    ASSUME IInv, NEW b \in Contexts, pc'[b] = pc[b], op'[b] = op[b], body'[b] = body[b],
           free' = free, NEW d0 \in Dispatchers,
           \A d \in Dispatchers \ {d0} : ready'[d] = ready[d],
           pc[b] = "publishing" /\ Home[op[b].task] = d0 =>
              /\ ready'[d0].tail = ready[d0].tail
              /\ ready'[d0].buf[ready[d0].tail % ReadySize[d0]]
                    = ready[d0].buf[ready[d0].tail % ReadySize[d0]],
           pc[b] = "taken" /\ b = d0 =>
              /\ First(ready'[d0]) = First(ready[d0]) /\ ready'[d0].head = ready[d0].head
              /\ Filled(ready'[d0]) > 0
    PROVE  (RoleOK(b) /\ EndsOK(b))'
<1>1. /\ pc[b] = "taking" => Filled(free[op[b].task]) > 0
      /\ pc[b] = "taken" => b \in Dispatchers /\ Filled(ready[b]) > 0
      /\ pc[b] = "publishing" => Home[op[b].task] \in Dispatchers
  BY Names DEF IInv, LocalsOK, EndsOK, RoleOK, TakingOK, TakenOK, Holds
<1>2. pc[b] = "taken" => /\ First(ready'[b]) = First(ready[b])
                         /\ ready'[b].head = ready[b].head
                         /\ Filled(ready'[b]) > 0
  <2>1. CASE b = d0
    BY <2>1
  <2>2. CASE b # d0
    BY <1>1, <2>2
  <2> QED
    BY <2>1, <2>2
<1>3. pc[b] = "publishing" =>
        LET d == Home[op[b].task] IN
        /\ ready'[d].tail = ready[d].tail
        /\ ready'[d].buf[ready[d].tail % ReadySize[d]]
              = ready[d].buf[ready[d].tail % ReadySize[d]]
  <2>1. CASE Home[op[b].task] = d0
    BY <2>1, SMTT(30), ZenonT(30)
  <2>2. CASE Home[op[b].task] # d0
    BY <1>1, <2>2
  <2> QED
    BY <2>1, <2>2, ZenonT(30)
<1> QED
  BY <1>1, <1>2, <1>3, LocalFrame, ZenonT(30)

Carries(c, t, i) == op[c].task = t /\ op[c].slot = i

(* Tokens that change between the free queue of t0 and a holder.           *)
LEMMA FreeOthers ==
    ASSUME NEW c, OnlyMoves(c), ready' = ready, timers' = timers,
           NEW t, NEW i, free'[t] = free[t], ~Holding(c, t, i), ~Holding(c, t, i)'
    PROVE  Where(t, i)' = Where(t, i)
<1>1. HeldAt(t, i)' = HeldAt(t, i)
  BY HeldAtSame
<1>2. TimerAt(t, i)' = TimerAt(t, i)
  BY DEF TimerAt
<1> QED
  BY <1>1, <1>2, FreeAtSame, ReadyAtSame DEF Where

LEMMA TakenQueues ==
    ASSUME IInv, NEW c \in Contexts, Taken(c), NEW t0, NEW i0, Carries(c, t0, i0)
    PROVE  Queues'
<1> USE ShapesHold DEF Shapes
<1> DEFINE n == FreeSize[t0]
           p == free[t0].head % n
<1>1. /\ Running(c) /\ c \in active /\ pc[c] = "taking" /\ pc'[c] = "writing" /\ op' = op
      /\ ready' = ready /\ body' = body /\ inputs' = inputs /\ timers' = timers
      /\ free' = [free EXCEPT ![op[c].task] = MoveHead(@, op[c].at)]
  BY AtFacts DEF Taken, Goto
<1>2. OnlyMoves(c)
  BY DEF Taken, Goto, OnlyMoves
<1>3. /\ t0 \in Tasks /\ Caller(c, t0) /\ i0 = First(free[t0])
      /\ op[c].at = free[t0].head /\ Filled(free[t0]) > 0
  BY <1>1 DEF IInv, LocalsOK, EndsOK, TakingOK, Carries
<1>4. /\ free'[t0] = MoveHead(free[t0], free[t0].head)
      /\ \A t \in Tasks \ {t0} : free'[t] = free[t]
      /\ free' = [t \in Tasks |-> free'[t]]
  BY <1>1, <1>3 DEF Carries
<1>5. /\ n \in Nat \ {0} /\ GoodRing(free[t0], n, FreeItems(t0))
      /\ Filled(free[t0]) <= n
      /\ \A q \in Live(free[t0], n) : free[t0].buf[q] \in Slots(t0)
  BY <1>3, TaskFacts DEF IInv, EntriesOK
<1>6. /\ GoodRing(free'[t0], n, FreeItems(t0)) /\ free'[t0].tail = free[t0].tail
      /\ Filled(free'[t0]) = Filled(free[t0]) - 1
      /\ Live(free'[t0], n) = Live(free[t0], n) \ {p}
      /\ \A q \in 0..n-1 : q # p => free'[t0].buf[q] = free[t0].buf[q]
  <2> HIDE DEF n
  <2> QED
    BY <1>3, <1>4, <1>5, HeadRing
<1>7. /\ Live(free[t0], n) \subseteq 0..n-1 /\ p \in Live(free[t0], n)
      /\ Filled(free[t0]) \in 0..n
  <2> HIDE DEF n
  <2> QED
    BY <1>3, <1>5, LiveBounds, LivePositions
<1>8. i0 \in Slots(t0)
  <2>1. First(free[t0]) = free[t0].buf[p]
    BY <1>5, RingFacts DEF First
  <2> QED
    BY <1>3, <1>5, <1>7, <2>1
<1> HIDE DEF n, p
<1>9. Rings'
  <2>1. \A t \in Tasks : GoodRing(free'[t], FreeSize[t], FreeItems(t))
    BY <1>4, <1>6 DEF IInv, Rings, n
  <2> QED
    BY <1>1, <1>4, <2>1 DEF IInv, Rings
<1>10. EntriesOK'
  <2>1. ASSUME NEW t \in Tasks
        PROVE  /\ Filled(free'[t]) <= FreeSize[t]
               /\ \A q \in Live(free'[t], FreeSize[t]) : free'[t].buf[q] \in Slots(t)
    <3>1. CASE t = t0
      <4>1. Filled(free'[t0]) <= n
        BY <1>5, <1>6, <1>7
      <4>2. \A q \in Live(free'[t0], n) : free'[t0].buf[q] \in Slots(t0)
        BY <1>5, <1>6, <1>7
      <4> QED
        BY <3>1, <4>1, <4>2 DEF n
    <3>2. CASE t # t0
      BY <1>4, <3>2 DEF IInv, EntriesOK
    <3> QED
      BY <3>1, <3>2
  <2>2. ASSUME NEW d \in Dispatchers
        PROVE  /\ Filled(ready'[d]) <= ReadySize[d]
               /\ \A q \in Live(ready'[d], ReadySize[d]) : ready'[d].buf[q] \in Messages(d)
    BY <1>1 DEF IInv, EntriesOK
  <2>3. \A x \in timers' : x \in UNION {{t} \X Slots(t) : t \in ScheduledTasks}
    BY <1>1 DEF IInv, EntriesOK
  <2> QED
    BY <2>1, <2>2, <2>3 DEF EntriesOK, Live, Pos, Filled, Size
<1>11. LocalsOK'
  <2>1. (RoleOK(c) /\ EndsOK(c))'
    BY <1>1, <1>3, <1>8 DEF RoleOK, EndsOK, Holds, Caller, Carries
  <2>2. ASSUME NEW b \in Contexts, b # c PROVE (RoleOK(b) /\ EndsOK(b))'
    <3>1. pc'[b] = pc[b] /\ op'[b] = op[b] /\ body'[b] = body[b]
      BY <1>1, <1>2, <2>2 DEF OnlyMoves
    <3>2. ~(pc[b] = "taking" /\ op[b].task = t0)
      <4>1. pc[b] = "taking" => b \in active
        BY DEF IInv, StackOK
      <4> QED
        BY <1>1, <1>3, <2>2, <4>1, OneTaker
    <3>3. pc[b] = "freed" /\ op[b].task = t0 =>
             /\ free'[t0].tail = free[t0].tail
             /\ free'[t0].buf[free[t0].tail % n] = free[t0].buf[free[t0].tail % n]
      <4> SUFFICES ASSUME pc[b] = "freed", op[b].task = t0
                   PROVE  free'[t0].buf[free[t0].tail % n] = free[t0].buf[free[t0].tail % n]
        BY <1>6
      <4>1. Filled(free[t0]) < n
        <5>1. pc[b] \in Holds
          BY DEF Holds
        <5>2. Filled(free[op[b].task]) < FreeSize[op[b].task]
          BY <5>1, RoomFree DEF IInv
        <5> QED
          BY <5>2 DEF n
      <4>2. free[t0].tail % n \in 0..n-1 /\ free[t0].tail % n \notin Live(free[t0], n)
        BY <1>5, <4>1, LivePositions
      <4> QED
        BY <1>6, <1>7, <4>2
    <3> QED
      BY <1>1, <1>3, <1>4, <3>1, <3>2, <3>3, LocalFree DEF n
  <2> QED
    BY <2>1, <2>2 DEF LocalsOK
<1>12. TokensOK'
  <2>1. ASSUME NEW t \in Tasks, NEW i, <<t, i>> # <<t0, i0>> PROVE Where(t, i)' = Where(t, i)
    <3>1. ~Holding(c, t, i) /\ ~Holding(c, t, i)'
      BY <1>1, <2>1 DEF Holding, Carries
    <3>2. CASE t # t0
      BY <1>1, <1>2, <1>4, <3>1, <3>2, FreeOthers
    <3>3. CASE t = t0
      <4>1. First(free[t0]) # i
        BY <1>3, <2>1, <3>3
      <4>2. FreeAt(t0, i)' = FreeAt(t0, i)
        <5>1. Marks("free", MoveHead(free[t0], free[t0].head), n, i) =
                 Marks("free", free[t0], n, i)
          BY <1>3, <1>5, <4>1, MarksHeadOther
        <5> QED
          BY <1>4, <5>1 DEF FreeAt, n
      <4>3. HeldAt(t0, i)' = HeldAt(t0, i)
        BY <1>2, <3>1, <3>3, HeldAtSame
      <4>4. TimerAt(t0, i)' = TimerAt(t0, i) /\ ReadyAt(t0, i)' = ReadyAt(t0, i)
        BY <1>1, ReadyAtSame DEF TimerAt
      <4> QED
        BY <3>3, <4>2, <4>3, <4>4 DEF Where
    <3> QED
      BY <3>2, <3>3
  <2>2. /\ <<"free", p>> \in FreeAt(t0, i0)
        /\ FreeAt(t0, i0)' = FreeAt(t0, i0) \ {<<"free", p>>}
    BY <1>3, <1>4, <1>5, MarksHead DEF FreeAt, n, p
  <2>3. HeldAt(t0, i0)' = HeldAt(t0, i0) \cup {<<"held", c>>}
    <3>1. ~Holding(c, t0, i0) /\ Holding(c, t0, i0)'
      BY <1>1 DEF Holding, Carries
    <3> QED
      BY <1>2, <3>1, HeldAtGains
  <2>4. TimerAt(t0, i0)' = TimerAt(t0, i0) /\ ReadyAt(t0, i0)' = ReadyAt(t0, i0)
    BY <1>1, ReadyAtSame DEF TimerAt
  <2>5. /\ <<"free", p>> \notin ReadyAt(t0, i0) /\ <<"free", p>> \notin TimerAt(t0, i0)
        /\ <<"free", p>> \notin HeldAt(t0, i0)
    BY DEF ReadyAt, TimerAt, HeldAt, Marks
  <2>6. PICK a : a = <<"free", p>>
    OBVIOUS
  <2>7. /\ a \in Where(t0, i0)
        /\ Where(t0, i0)' = (Where(t0, i0) \ {a}) \cup {<<"held", c>>}
    BY <2>2, <2>3, <2>4, <2>5, <2>6 DEF Where
  <2>8. \A t \in Tasks : \A i \in Slots(t) :
           <<t, i>> # <<t0, i0>> => Where(t, i)' = Where(t, i)
    BY <2>1
  <2>9. TokensOK
    BY DEF IInv
  <2> QED
    BY <2>7, <2>8, <2>9, TokensMove
<1> QED
  BY <1>9, <1>10, <1>11, <1>12 DEF Queues

LEMMA PutFirst ==
    ASSUME NEW n \in Nat \ {0}, NEW Items, NEW r, GoodRing(r, n, Items), Filled(r) < n,
           Filled(r) > 0, NEW x \in Items
    PROVE  First(Put(r, x)) = First(r)
<1> DEFINE s == Put(r, x)
<1>1. /\ GoodRing(s, n, Items) /\ s.head = r.head
      /\ \A q \in Live(r, n) : s.buf[q] = r.buf[q]
  BY PutRing
<1>2. Size(r) = n /\ Size(s) = n /\ Filled(r) <= n
  BY <1>1, RingFacts
<1>3. r.head % n \in Live(r, n)
  BY <1>2, LivePositions
<1> HIDE DEF s
<1> QED
  BY <1>1, <1>2, <1>3 DEF First, s

LEMMA TailFirst ==
    ASSUME NEW n \in Nat \ {0}, NEW Items, NEW r, GoodRing(r, n, Items), Filled(r) < n
    PROVE  First(MoveTail(r, r.tail)) = First(r)
<1> DEFINE s == MoveTail(r, r.tail)
<1>1. GoodRing(s, n, Items) /\ s.head = r.head /\ s.buf = r.buf
  BY TailRing
<1>2. Size(r) = n /\ Size(s) = n
  BY <1>1, RingFacts
<1> HIDE DEF s
<1> QED
  BY <1>1, <1>2 DEF First, s

LEMMA FreeQueues ==
    ASSUME IInv, NEW c \in Contexts, Free(c), NEW t0, NEW i0, Carries(c, t0, i0)
    PROVE  Queues'
<1> USE ShapesHold DEF Shapes
<1> DEFINE n == FreeSize[t0]
           p == free[t0].tail % n
<1>1. /\ Running(c) /\ c \in active /\ pc[c] = "freeing" /\ pc'[c] = "freed"
      /\ ready' = ready /\ body' = body /\ inputs' = inputs /\ timers' = timers
      /\ free' = [free EXCEPT ![op[c].task] = Put(@, op[c].slot)]
      /\ op' = [op EXCEPT ![c].at = free[op[c].task].tail]
  BY AtFacts DEF Free, Goto
<1>2. OnlyMoves(c)
  BY DEF Free, Goto, OnlyMoves
<1>3. t0 \in Tasks /\ i0 \in Slots(t0) /\ c \in Dispatchers /\ Home[t0] = c
  BY <1>1 DEF IInv, LocalsOK, RoleOK, Holds, Carries
<1>4. /\ free'[t0] = Put(free[t0], i0)
      /\ \A t \in Tasks \ {t0} : free'[t] = free[t]
      /\ free' = [t \in Tasks |-> free'[t]]
      /\ op'[c].task = t0 /\ op'[c].slot = i0 /\ op'[c].at = free[t0].tail
  <2>1. op[c] = [task |-> op[c].task, slot |-> op[c].slot,
                 at |-> op[c].at, input |-> op[c].input]
    OBVIOUS
  <2>2. op'[c] = [op[c] EXCEPT !.at = free[op[c].task].tail]
    BY <1>1
  <2> QED
    BY <1>1, <1>3, <2>1, <2>2 DEF Carries
<1>5. /\ n \in Nat \ {0} /\ GoodRing(free[t0], n, FreeItems(t0)) /\ i0 \in FreeItems(t0)
      /\ \A q \in Live(free[t0], n) : free[t0].buf[q] \in Slots(t0)
  BY <1>3, TaskFacts DEF IInv, EntriesOK, FreeItems
<1>6. Filled(free[t0]) < n
  <2>1. pc[c] \in Holds
    BY <1>1 DEF Holds
  <2>2. Filled(free[op[c].task]) < FreeSize[op[c].task]
    BY <2>1, RoomFree DEF IInv
  <2> QED
    BY <2>2 DEF Carries
<1>7. /\ GoodRing(free'[t0], n, FreeItems(t0))
      /\ free'[t0].head = free[t0].head /\ free'[t0].tail = free[t0].tail
      /\ Filled(free'[t0]) = Filled(free[t0])
      /\ Live(free'[t0], n) = Live(free[t0], n)
      /\ free'[t0].buf[p] = i0
      /\ \A q \in Live(free[t0], n) : free'[t0].buf[q] = free[t0].buf[q]
  <2> HIDE DEF n
  <2> QED
    BY <1>4, <1>5, <1>6, PutRing DEF p
<1> HIDE DEF n, p
<1>8. Rings'
  <2>1. \A t \in Tasks : GoodRing(free'[t], FreeSize[t], FreeItems(t))
    BY <1>4, <1>7 DEF IInv, Rings, n
  <2> QED
    BY <1>1, <1>4, <2>1 DEF IInv, Rings
<1>9. EntriesOK'
  <2>1. ASSUME NEW t \in Tasks
        PROVE  /\ Filled(free'[t]) <= FreeSize[t]
               /\ \A q \in Live(free'[t], FreeSize[t]) : free'[t].buf[q] \in Slots(t)
    <3>1. CASE t = t0
      <4>1. Filled(free'[t0]) <= n
        BY <1>3, <1>7 DEF IInv, EntriesOK, n
      <4>2. \A q \in Live(free'[t0], n) : free'[t0].buf[q] \in Slots(t0)
        BY <1>5, <1>7
      <4> QED
        BY <3>1, <4>1, <4>2 DEF n
    <3>2. CASE t # t0
      BY <1>4, <3>2 DEF IInv, EntriesOK
    <3> QED
      BY <3>1, <3>2
  <2>2. ASSUME NEW d \in Dispatchers
        PROVE  /\ Filled(ready'[d]) <= ReadySize[d]
               /\ \A q \in Live(ready'[d], ReadySize[d]) : ready'[d].buf[q] \in Messages(d)
    BY <1>1 DEF IInv, EntriesOK
  <2>3. \A x \in timers' : x \in UNION {{t} \X Slots(t) : t \in ScheduledTasks}
    BY <1>1 DEF IInv, EntriesOK
  <2> QED
    BY <2>1, <2>2, <2>3 DEF EntriesOK, Live, Pos, Filled, Size
<1>10. LocalsOK'
  <2>1. (RoleOK(c) /\ EndsOK(c))'
    <3>1. FreedOK(c)'
      BY <1>4, <1>7 DEF FreedOK, n, p
    <3> QED
      BY <1>1, <1>3, <1>4, <3>1 DEF RoleOK, EndsOK, Holds
  <2>2. ASSUME NEW b \in Contexts, b # c PROVE (RoleOK(b) /\ EndsOK(b))'
    <3>1. pc'[b] = pc[b] /\ op'[b] = op[b] /\ body'[b] = body[b]
      BY <1>1, <1>2, <2>2 DEF OnlyMoves
    <3>2. pc[b] = "taking" /\ op[b].task = t0 =>
             /\ First(free'[t0]) = First(free[t0]) /\ free'[t0].head = free[t0].head
             /\ Filled(free'[t0]) > 0
      <4> SUFFICES ASSUME pc[b] = "taking", op[b].task = t0
                   PROVE  First(free'[t0]) = First(free[t0]) /\ Filled(free'[t0]) > 0
        BY <1>7
      <4>1. Filled(free[t0]) > 0
        BY DEF IInv, LocalsOK, EndsOK, TakingOK
      <4> QED
        BY <1>4, <1>5, <1>6, <1>7, <4>1, PutFirst
    <3>3. ~(pc[b] = "freed" /\ op[b].task = t0)
      BY <1>3, <2>2 DEF IInv, LocalsOK, RoleOK
    <3> QED
      BY <1>1, <1>3, <1>4, <3>1, <3>2, <3>3, LocalFree
  <2> QED
    BY <2>1, <2>2 DEF LocalsOK
<1>11. TokensOK'
  <2>1. ASSUME NEW t \in Tasks, NEW i PROVE Where(t, i)' = Where(t, i)
    <3>1. Holding(c, t, i)' <=> Holding(c, t, i)
      BY <1>1, <1>4 DEF Holding, Carries
    <3>2. HeldAt(t, i)' = HeldAt(t, i)
      BY <1>2, <3>1, HeldAtSame
    <3>3. TimerAt(t, i)' = TimerAt(t, i) /\ ReadyAt(t, i)' = ReadyAt(t, i)
      BY <1>1, ReadyAtSame DEF TimerAt
    <3>4. FreeAt(t, i)' = FreeAt(t, i)
      <4>1. CASE t = t0
        <5>1. Marks("free", Put(free[t0], i0), n, i) = Marks("free", free[t0], n, i)
          BY <1>5, <1>6, MarksPut
        <5> QED
          BY <1>4, <4>1, <5>1 DEF FreeAt, n
      <4>2. CASE t # t0
        BY <1>4, <4>2, FreeAtSame
      <4> QED
        BY <4>1, <4>2
    <3> QED
      BY <3>2, <3>3, <3>4 DEF Where
  <2>2. \A t \in Tasks : \A i \in Slots(t) : Where(t, i)' = Where(t, i)
    BY <2>1
  <2>3. TokensOK
    BY DEF IInv
  <2> QED
    BY <2>2, <2>3, TokensStay
<1> QED
  BY <1>8, <1>9, <1>10, <1>11 DEF Queues

LEMMA RunQueues ==
    ASSUME IInv, NEW c \in Contexts, Run(c), NEW t0, NEW i0, Carries(c, t0, i0)
    PROVE  Queues'
<1> USE ShapesHold DEF Shapes
<1> DEFINE n == FreeSize[t0]
           p == free[t0].tail % n
<1>1. /\ Running(c) /\ c \in active /\ pc[c] = "freed" /\ pc'[c] = "body"
      /\ ready' = ready /\ inputs' = inputs /\ timers' = timers
      /\ free' = [free EXCEPT ![op[c].task] = MoveTail(@, op[c].at)]
      /\ \A b \in Contexts \ {c} : body'[b] = body[b]
  BY AtFacts DEF Run, Goto
<1>2. OnlyMoves(c)
  BY SMTT(30), ZenonT(30) DEF Run, Goto, OnlyMoves
<1>3. /\ t0 \in Tasks /\ i0 \in Slots(t0) /\ c \in Dispatchers /\ Home[t0] = c
      /\ op[c].at = free[t0].tail /\ free[t0].buf[p] = i0
  BY <1>1 DEF IInv, LocalsOK, RoleOK, EndsOK, FreedOK, Holds, Carries
<1>4. /\ free'[t0] = MoveTail(free[t0], free[t0].tail)
      /\ \A t \in Tasks \ {t0} : free'[t] = free[t]
      /\ free' = [t \in Tasks |-> free'[t]]
  BY <1>1, <1>3 DEF Carries
<1>5. /\ n \in Nat \ {0} /\ GoodRing(free[t0], n, FreeItems(t0))
      /\ \A q \in Live(free[t0], n) : free[t0].buf[q] \in Slots(t0)
  BY <1>3, TaskFacts DEF IInv, EntriesOK
<1>6. Filled(free[t0]) < n /\ Filled(free[t0]) \in 0..n
  <2>1. pc[c] \in Holds
    BY <1>1 DEF Holds
  <2>2. Filled(free[op[c].task]) < FreeSize[op[c].task]
    BY <2>1, RoomFree DEF IInv
  <2>3. Filled(free[t0]) < n /\ Filled(free[t0]) <= n
    BY <1>3, <2>2 DEF Carries, IInv, EntriesOK
  <2> HIDE DEF n
  <2> QED
    BY <1>5, <2>3, LivePositions
<1>7. /\ GoodRing(free'[t0], n, FreeItems(t0))
      /\ free'[t0].head = free[t0].head /\ free'[t0].buf = free[t0].buf
      /\ Filled(free'[t0]) = Filled(free[t0]) + 1
      /\ Live(free'[t0], n) = Live(free[t0], n) \cup {p}
  <2> HIDE DEF n
  <2> QED
    BY <1>4, <1>5, <1>6, TailRing DEF p
<1> HIDE DEF n, p
<1>8. Rings'
  <2>1. \A t \in Tasks : GoodRing(free'[t], FreeSize[t], FreeItems(t))
    BY <1>4, <1>7 DEF IInv, Rings, n
  <2> QED
    BY <1>1, <1>4, <2>1 DEF IInv, Rings
<1>9. EntriesOK'
  <2>1. ASSUME NEW t \in Tasks
        PROVE  /\ Filled(free'[t]) <= FreeSize[t]
               /\ \A q \in Live(free'[t], FreeSize[t]) : free'[t].buf[q] \in Slots(t)
    <3>1. CASE t = t0
      <4>1. Filled(free'[t0]) <= n
        BY <1>5, <1>6, <1>7
      <4>2. \A q \in Live(free'[t0], n) : free'[t0].buf[q] \in Slots(t0)
        BY <1>3, <1>5, <1>7
      <4> QED
        BY <3>1, <4>1, <4>2 DEF n
    <3>2. CASE t # t0
      BY <1>4, <3>2 DEF IInv, EntriesOK
    <3> QED
      BY <3>1, <3>2
  <2>2. ASSUME NEW d \in Dispatchers
        PROVE  /\ Filled(ready'[d]) <= ReadySize[d]
               /\ \A q \in Live(ready'[d], ReadySize[d]) : ready'[d].buf[q] \in Messages(d)
    BY <1>1 DEF IInv, EntriesOK
  <2>3. \A x \in timers' : x \in UNION {{t} \X Slots(t) : t \in ScheduledTasks}
    BY <1>1 DEF IInv, EntriesOK
  <2> QED
    BY <2>1, <2>2, <2>3 DEF EntriesOK, Live, Pos, Filled, Size
<1>10. LocalsOK'
  <2>1. (RoleOK(c) /\ EndsOK(c))'
    BY <1>1 DEF RoleOK, EndsOK, Holds
  <2>2. ASSUME NEW b \in Contexts, b # c PROVE (RoleOK(b) /\ EndsOK(b))'
    <3>1. pc'[b] = pc[b] /\ op'[b] = op[b] /\ body'[b] = body[b]
      BY <1>1, <1>2, <2>2 DEF OnlyMoves
    <3>2. /\ First(free'[t0]) = First(free[t0]) /\ free'[t0].head = free[t0].head
          /\ Filled(free'[t0]) > 0
      <4>1. First(free'[t0]) = First(free[t0])
        BY <1>4, <1>5, <1>6, TailFirst
      <4>2. Filled(free'[t0]) > 0
        BY <1>5, <1>6, <1>7
      <4> QED
        BY <1>7, <4>1, <4>2
    <3>3. ~(pc[b] = "freed" /\ op[b].task = t0)
      BY <1>3, <2>2 DEF IInv, LocalsOK, RoleOK
    <3> QED
      BY <1>1, <1>3, <1>4, <3>1, <3>2, <3>3, LocalFree
  <2> QED
    BY <2>1, <2>2 DEF LocalsOK
<1>11. TokensOK'
  <2>1. ASSUME NEW t \in Tasks, NEW i, <<t, i>> # <<t0, i0>> PROVE Where(t, i)' = Where(t, i)
    <3>1. ~Holding(c, t, i) /\ ~Holding(c, t, i)'
      BY <1>1, <2>1 DEF Holding, Carries
    <3>2. CASE t # t0
      BY <1>1, <1>2, <1>4, <3>1, <3>2, FreeOthers
    <3>3. CASE t = t0
      <4>1. free[t0].buf[free[t0].tail % n] # i
        BY <1>3, <2>1, <3>3 DEF p
      <4>2. FreeAt(t0, i)' = FreeAt(t0, i)
        <5>1. Marks("free", MoveTail(free[t0], free[t0].tail), n, i) =
                 Marks("free", free[t0], n, i)
          BY <1>5, <1>6, <4>1, MarksTailOther
        <5> QED
          BY <1>4, <5>1 DEF FreeAt, n
      <4>3. HeldAt(t0, i)' = HeldAt(t0, i)
        BY <1>2, <3>1, <3>3, HeldAtSame
      <4>4. TimerAt(t0, i)' = TimerAt(t0, i) /\ ReadyAt(t0, i)' = ReadyAt(t0, i)
        BY <1>1, ReadyAtSame DEF TimerAt
      <4> QED
        BY <3>3, <4>2, <4>3, <4>4 DEF Where
    <3> QED
      BY <3>2, <3>3
  <2>2. FreeAt(t0, i0)' = FreeAt(t0, i0) \cup {<<"free", p>>}
    <3>1. Marks("free", MoveTail(free[t0], free[t0].tail), n, i0) =
             Marks("free", free[t0], n, i0) \cup {<<"free", free[t0].tail % n>>}
      BY <1>3, <1>5, <1>6, MarksTail DEF p
    <3> QED
      BY <1>4, <3>1 DEF FreeAt, n, p
  <2>3. /\ HeldAt(t0, i0)' = HeldAt(t0, i0) \ {<<"held", c>>}
        /\ <<"held", c>> \in HeldAt(t0, i0)
    <3>1. Holding(c, t0, i0) /\ ~Holding(c, t0, i0)'
      BY <1>1 DEF Holding, Carries
    <3> QED
      BY <1>2, <3>1, HeldAtLoses DEF HeldAt
  <2>4. TimerAt(t0, i0)' = TimerAt(t0, i0) /\ ReadyAt(t0, i0)' = ReadyAt(t0, i0)
    BY <1>1, ReadyAtSame DEF TimerAt
  <2>5. /\ <<"held", c>> \notin ReadyAt(t0, i0) /\ <<"held", c>> \notin TimerAt(t0, i0)
        /\ <<"held", c>> \notin FreeAt(t0, i0)
    BY DEF ReadyAt, TimerAt, FreeAt, Marks
  <2>6. PICK w : w = <<"free", p>>
    OBVIOUS
  <2>7. /\ <<"held", c>> \in Where(t0, i0)
        /\ Where(t0, i0)' = (Where(t0, i0) \ {<<"held", c>>}) \cup {w}
    BY <2>2, <2>3, <2>4, <2>5, <2>6 DEF Where
  <2>8. \A t \in Tasks : \A i \in Slots(t) :
           <<t, i>> # <<t0, i0>> => Where(t, i)' = Where(t, i)
    BY <2>1
  <2>9. TokensOK
    BY DEF IInv
  <2> QED
    BY <2>7, <2>8, <2>9, TokensMove
<1> QED
  BY <1>8, <1>9, <1>10, <1>11 DEF Queues

LEMMA ReadyOthers ==
    ASSUME NEW c, OnlyMoves(c), free' = free, timers' = timers,
           NEW t, NEW i, ReadyAt(t, i)' = ReadyAt(t, i),
           ~Holding(c, t, i), ~Holding(c, t, i)'
    PROVE  Where(t, i)' = Where(t, i)
<1>1. HeldAt(t, i)' = HeldAt(t, i)
  BY HeldAtSame
<1>2. TimerAt(t, i)' = TimerAt(t, i)
  BY DEF TimerAt
<1> QED
  BY <1>1, <1>2, FreeAtSame DEF Where

(* The rest of the invariant when the ring of d0 changes and stays good.   *)
LEMMA ReadyRest ==
    ASSUME IInv, free' = free, inputs' = inputs, timers' = timers, NEW d0 \in Dispatchers,
           ready' = [d \in Dispatchers |-> ready'[d]],
           \A d \in Dispatchers \ {d0} : ready'[d] = ready[d],
           GoodRing(ready'[d0], ReadySize[d0], ReadyItems),
           Filled(ready'[d0]) <= ReadySize[d0],
           \A q \in Live(ready'[d0], ReadySize[d0]) : ready'[d0].buf[q] \in Messages(d0)
    PROVE  Rings' /\ EntriesOK'
<1>1. Rings'
  <2>1. \A d \in Dispatchers : GoodRing(ready'[d], ReadySize[d], ReadyItems)
    BY DEF IInv, Rings
  <2> QED
    BY <2>1 DEF IInv, Rings
<1>2. EntriesOK'
  <2>1. ASSUME NEW t \in Tasks
        PROVE  /\ Filled(free'[t]) <= FreeSize[t]
               /\ \A q \in Live(free'[t], FreeSize[t]) : free'[t].buf[q] \in Slots(t)
    BY DEF IInv, EntriesOK
  <2>2. ASSUME NEW d \in Dispatchers
        PROVE  /\ Filled(ready'[d]) <= ReadySize[d]
               /\ \A q \in Live(ready'[d], ReadySize[d]) : ready'[d].buf[q] \in Messages(d)
    <3>1. CASE d = d0
      BY <3>1
    <3>2. CASE d # d0
      BY <3>2 DEF IInv, EntriesOK
    <3> QED
      BY <3>1, <3>2
  <2>3. \A x \in timers' : x \in UNION {{t} \X Slots(t) : t \in ScheduledTasks}
    BY DEF IInv, EntriesOK
  <2> QED
    BY <2>1, <2>2, <2>3 DEF EntriesOK, Live, Pos, Filled, Size
<1> QED
  BY <1>1, <1>2

LEMMA PostQueues ==
    ASSUME IInv, SendersExcluded, NEW c \in Contexts, Post(c),
           NEW t0, NEW i0, Carries(c, t0, i0)
    PROVE  Queues'
<1> USE ShapesHold DEF Shapes
<1>0. PICK d0 : d0 = Home[t0]
  OBVIOUS
<1> DEFINE n == ReadySize[d0]
           p == ready[d0].tail % n
           x0 == <<t0, i0>>
<1>1. /\ Running(c) /\ c \in active /\ pc[c] = "posting" /\ pc'[c] = "publishing"
      /\ free' = free /\ body' = body /\ inputs' = inputs /\ timers' = timers
      /\ ready' = [ready EXCEPT ![d0] = Put(@, x0)]
      /\ op' = [op EXCEPT ![c].at = ready[d0].tail]
  BY <1>0, AtFacts DEF Post, Goto, Carries
<1>2. OnlyMoves(c)
  BY DEF Post, Goto, OnlyMoves
<1>3. t0 \in Tasks /\ i0 \in Slots(t0) /\ d0 \in Dispatchers /\ Sender(c, t0)
  BY <1>0, <1>1, Names DEF IInv, LocalsOK, RoleOK, Holds, Carries
<1>4. /\ ready'[d0] = Put(ready[d0], x0)
      /\ \A d \in Dispatchers \ {d0} : ready'[d] = ready[d]
      /\ ready' = [d \in Dispatchers |-> ready'[d]]
      /\ op'[c].task = t0 /\ op'[c].slot = i0 /\ op'[c].at = ready[d0].tail
  <2>1. op[c] = [task |-> op[c].task, slot |-> op[c].slot,
                 at |-> op[c].at, input |-> op[c].input]
    OBVIOUS
  <2>2. op'[c] = [op[c] EXCEPT !.at = ready[d0].tail]
    BY <1>1
  <2> QED
    BY <1>1, <1>3, <2>1, <2>2 DEF Carries
<1>5. /\ n \in Nat \ {0} /\ GoodRing(ready[d0], n, ReadyItems) /\ x0 \in ReadyItems
      /\ \A q \in Live(ready[d0], n) : ready[d0].buf[q] \in Messages(d0)
  <2>1. i0 \in 0..255
    BY <1>3, TaskFacts DEF IInv
  <2> QED
    BY <1>3, <2>1, DispatcherFacts DEF IInv, EntriesOK, ReadyItems
<1>6. Filled(ready[d0]) < n
  <2>1. pc[c] \in Holds
    BY <1>1 DEF Holds
  <2>2. Filled(ready[Home[op[c].task]]) < ReadySize[Home[op[c].task]]
    BY <2>1, RoomReady DEF IInv
  <2> QED
    BY <1>0, <2>2 DEF Carries
<1>7. /\ GoodRing(ready'[d0], n, ReadyItems)
      /\ ready'[d0].head = ready[d0].head /\ ready'[d0].tail = ready[d0].tail
      /\ Filled(ready'[d0]) = Filled(ready[d0])
      /\ Live(ready'[d0], n) = Live(ready[d0], n)
      /\ ready'[d0].buf[p] = x0
      /\ \A q \in Live(ready[d0], n) : ready'[d0].buf[q] = ready[d0].buf[q]
  <2> HIDE DEF n, x0
  <2> QED
    BY <1>4, <1>5, <1>6, PutRing DEF p
<1> HIDE DEF n, p, x0
<1>8. Rings' /\ EntriesOK'
  <2>1. Filled(ready'[d0]) <= n
    BY <1>3, <1>7 DEF IInv, EntriesOK, n
  <2>2. \A q \in Live(ready'[d0], n) : ready'[d0].buf[q] \in Messages(d0)
    BY <1>5, <1>7
  <2> QED
    BY <1>1, <1>3, <1>4, <1>7, <2>1, <2>2, ReadyRest DEF n
<1>10. LocalsOK'
  <2>1. (RoleOK(c) /\ EndsOK(c))'
    <3>1. PublishingOK(c)'
      BY <1>0, <1>4, <1>7, ZenonT(30) DEF PublishingOK, n, p, x0
    <3>2. Sender(c, t0)'
      BY <1>1, <1>3 DEF Sender
    <3> QED
      BY <1>1, <1>3, <1>4, <3>1, <3>2 DEF RoleOK, EndsOK, Holds
  <2>2. ASSUME NEW b \in Contexts, b # c PROVE (RoleOK(b) /\ EndsOK(b))'
    <3>1. pc'[b] = pc[b] /\ op'[b] = op[b] /\ body'[b] = body[b]
      BY <1>1, <1>2, <2>2 DEF OnlyMoves
    <3>2. pc[b] = "taken" /\ b = d0 =>
             /\ First(ready'[d0]) = First(ready[d0]) /\ ready'[d0].head = ready[d0].head
             /\ Filled(ready'[d0]) > 0
      <4> SUFFICES ASSUME pc[b] = "taken", b = d0
                   PROVE  First(ready'[d0]) = First(ready[d0]) /\ Filled(ready'[d0]) > 0
        BY <1>7
      <4>1. Filled(ready[d0]) > 0
        BY DEF IInv, LocalsOK, EndsOK, TakenOK
      <4> QED
        BY <1>4, <1>5, <1>6, <1>7, <4>1, PutFirst
    <3>3. ~(pc[b] = "publishing" /\ Home[op[b].task] = d0)
      <4>1. pc[b] = "publishing" => b \in active
        BY DEF IInv, StackOK
      <4> QED
        BY <1>0, <1>1, <1>3, <2>2, <4>1, OneSender
    <3> QED
      BY <1>1, <1>3, <1>4, <3>1, <3>2, <3>3, LocalReady
  <2> QED
    BY <2>1, <2>2 DEF LocalsOK
<1>11. TokensOK'
  <2>1. ASSUME NEW t \in Tasks, NEW i PROVE Where(t, i)' = Where(t, i)
    <3>1. Holding(c, t, i)' <=> Holding(c, t, i)
      BY <1>1, <1>4 DEF Holding, Carries
    <3>2. HeldAt(t, i)' = HeldAt(t, i)
      BY <1>2, <3>1, HeldAtSame
    <3>3. TimerAt(t, i)' = TimerAt(t, i) /\ FreeAt(t, i)' = FreeAt(t, i)
      BY <1>1, FreeAtSame DEF TimerAt
    <3>4. ReadyAt(t, i)' = ReadyAt(t, i)
      <4>1. CASE Home[t] = d0
        <5>1. Marks("ready", Put(ready[d0], x0), n, <<t, i>>) =
                 Marks("ready", ready[d0], n, <<t, i>>)
          BY <1>5, <1>6, MarksPut
        <5> QED
          BY <1>4, <4>1, <5>1 DEF ReadyAt, n
      <4>2. CASE Home[t] # d0
        BY <1>4, <4>2, ReadyAtSame, Names
      <4> QED
        BY <4>1, <4>2
    <3> QED
      BY <3>2, <3>3, <3>4 DEF Where
  <2>2. \A t \in Tasks : \A i \in Slots(t) : Where(t, i)' = Where(t, i)
    BY <2>1
  <2>3. TokensOK
    BY DEF IInv
  <2> QED
    BY <2>2, <2>3, TokensStay
<1> QED
  BY <1>8, <1>10, <1>11 DEF Queues

LEMMA PublishQueues ==
    ASSUME IInv, SendersExcluded, NEW c \in Contexts, Publish(c),
           NEW t0, NEW i0, Carries(c, t0, i0)
    PROVE  Queues'
<1> USE ShapesHold DEF Shapes
<1>0. PICK d0 : d0 = Home[t0]
  OBVIOUS
<1> DEFINE n == ReadySize[d0]
           p == ready[d0].tail % n
           x0 == <<t0, i0>>
<1>1. /\ Running(c) /\ c \in active /\ pc[c] = "publishing" /\ pc'[c] = "pending"
      /\ free' = free /\ body' = body /\ inputs' = inputs /\ timers' = timers /\ op' = op
      /\ ready' = [ready EXCEPT ![d0] = MoveTail(@, op[c].at)]
  BY <1>0, AtFacts DEF Publish, Goto, Carries
<1>2. OnlyMoves(c)
  BY DEF Publish, Goto, OnlyMoves
<1>3. /\ t0 \in Tasks /\ i0 \in Slots(t0) /\ d0 \in Dispatchers /\ Sender(c, t0)
      /\ op[c].at = ready[d0].tail /\ ready[d0].buf[p] = x0
  BY <1>0, <1>1, Names, ZenonT(30) DEF IInv, LocalsOK, RoleOK, EndsOK, PublishingOK, Holds, Carries
<1>4. /\ ready'[d0] = MoveTail(ready[d0], ready[d0].tail)
      /\ \A d \in Dispatchers \ {d0} : ready'[d] = ready[d]
      /\ ready' = [d \in Dispatchers |-> ready'[d]]
  BY <1>1, <1>3
<1>5. /\ n \in Nat \ {0} /\ GoodRing(ready[d0], n, ReadyItems)
      /\ \A q \in Live(ready[d0], n) : ready[d0].buf[q] \in Messages(d0)
      /\ x0 \in Messages(d0)
  <2>1. n \in Nat \ {0} /\ GoodRing(ready[d0], n, ReadyItems)
    BY <1>3, DispatcherFacts DEF IInv
  <2>2. \A q \in Live(ready[d0], n) : ready[d0].buf[q] \in Messages(d0)
    BY <1>3 DEF IInv, EntriesOK
  <2>4. t0 \in Served(d0) /\ x0 \in {t0} \X Slots(t0)
    BY <1>0, <1>3, ZenonT(30) DEF Served
  <2>3. x0 \in Messages(d0)
    BY <2>4, Zenon DEF Messages
  <2> QED
    BY <2>1, <2>2, <2>3
<1>6. Filled(ready[d0]) < n /\ Filled(ready[d0]) \in 0..n
  <2>1. pc[c] \in Holds
    BY <1>1 DEF Holds
  <2>2. Filled(ready[Home[op[c].task]]) < ReadySize[Home[op[c].task]]
    BY <2>1, RoomReady DEF IInv
  <2>3. Filled(ready[d0]) < n /\ Filled(ready[d0]) <= n
    BY <1>0, <1>3, <2>2, ZenonT(30) DEF Carries, IInv, EntriesOK
  <2> HIDE DEF n
  <2> QED
    BY <1>5, <2>3, LivePositions
<1>7. /\ GoodRing(ready'[d0], n, ReadyItems)
      /\ ready'[d0].head = ready[d0].head /\ ready'[d0].buf = ready[d0].buf
      /\ Filled(ready'[d0]) = Filled(ready[d0]) + 1
      /\ Live(ready'[d0], n) = Live(ready[d0], n) \cup {p}
  <2> HIDE DEF n
  <2> QED
    BY <1>4, <1>5, <1>6, TailRing DEF p
<1> HIDE DEF n, p, x0
<1>8. Rings' /\ EntriesOK'
  <2>1. Filled(ready'[d0]) <= n
    BY <1>5, <1>6, <1>7
  <2>2. \A q \in Live(ready'[d0], n) : ready'[d0].buf[q] \in Messages(d0)
    BY <1>3, <1>5, <1>7
  <2> QED
    BY <1>1, <1>3, <1>4, <1>7, <2>1, <2>2, ReadyRest DEF n
<1>10. LocalsOK'
  <2>1. (RoleOK(c) /\ EndsOK(c))'
    BY <1>1 DEF RoleOK, EndsOK, Holds
  <2>2. ASSUME NEW b \in Contexts, b # c PROVE (RoleOK(b) /\ EndsOK(b))'
    <3>1. pc'[b] = pc[b] /\ op'[b] = op[b] /\ body'[b] = body[b]
      BY <1>1, <1>2, <2>2 DEF OnlyMoves
    <3>2. /\ First(ready'[d0]) = First(ready[d0]) /\ ready'[d0].head = ready[d0].head
          /\ Filled(ready'[d0]) > 0
      <4>1. First(ready'[d0]) = First(ready[d0])
        BY <1>4, <1>5, <1>6, TailFirst
      <4>2. Filled(ready'[d0]) > 0
        BY <1>5, <1>6, <1>7
      <4> QED
        BY <1>7, <4>1, <4>2
    <3>3. ~(pc[b] = "publishing" /\ Home[op[b].task] = d0)
      <4>1. pc[b] = "publishing" => b \in active
        BY DEF IInv, StackOK
      <4> QED
        BY <1>0, <1>1, <1>3, <2>2, <4>1, OneSender
    <3> QED
      BY <1>1, <1>3, <1>4, <3>1, <3>2, <3>3, LocalReady
  <2> QED
    BY <2>1, <2>2 DEF LocalsOK
<1>11. TokensOK'
  <2>1. ASSUME NEW t \in Tasks, NEW i, <<t, i>> # <<t0, i0>> PROVE Where(t, i)' = Where(t, i)
    <3>1. ~Holding(c, t, i) /\ ~Holding(c, t, i)'
      BY <1>1, <2>1 DEF Holding, Carries
    <3>2. ReadyAt(t, i)' = ReadyAt(t, i)
      <4>1. CASE Home[t] = d0
        <5>1. ready[d0].buf[ready[d0].tail % n] # <<t, i>>
          BY <1>3, <2>1 DEF p, x0
        <5>2. Marks("ready", MoveTail(ready[d0], ready[d0].tail), n, <<t, i>>) =
                 Marks("ready", ready[d0], n, <<t, i>>)
          BY <1>5, <1>6, <5>1, MarksTailOther
        <5> QED
          BY <1>4, <4>1, <5>2 DEF ReadyAt, n
      <4>2. CASE Home[t] # d0
        BY <1>4, <4>2, ReadyAtSame, Names
      <4> QED
        BY <4>1, <4>2
    <3> QED
      BY <1>1, <1>2, <3>1, <3>2, ReadyOthers
  <2>2. ReadyAt(t0, i0)' = ReadyAt(t0, i0) \cup {<<"ready", p>>}
    <3>1. Marks("ready", MoveTail(ready[d0], ready[d0].tail), n, x0) =
             Marks("ready", ready[d0], n, x0) \cup {<<"ready", ready[d0].tail % n>>}
      BY <1>3, <1>5, <1>6, MarksTail DEF p
    <3> QED
      BY <1>0, <1>4, <3>1 DEF ReadyAt, n, p, x0
  <2>3. /\ HeldAt(t0, i0)' = HeldAt(t0, i0) \ {<<"held", c>>}
        /\ <<"held", c>> \in HeldAt(t0, i0)
    <3>1. Holding(c, t0, i0) /\ ~Holding(c, t0, i0)'
      BY <1>1 DEF Holding, Carries
    <3> QED
      BY <1>2, <3>1, HeldAtLoses DEF HeldAt
  <2>4. TimerAt(t0, i0)' = TimerAt(t0, i0) /\ FreeAt(t0, i0)' = FreeAt(t0, i0)
    BY <1>1, FreeAtSame DEF TimerAt
  <2>5. /\ <<"held", c>> \notin ReadyAt(t0, i0) /\ <<"held", c>> \notin TimerAt(t0, i0)
        /\ <<"held", c>> \notin FreeAt(t0, i0)
    BY DEF ReadyAt, TimerAt, FreeAt, Marks
  <2>6. PICK w : w = <<"ready", p>>
    OBVIOUS
  <2>7. /\ <<"held", c>> \in Where(t0, i0)
        /\ Where(t0, i0)' = (Where(t0, i0) \ {<<"held", c>>}) \cup {w}
    BY <2>2, <2>3, <2>4, <2>5, <2>6 DEF Where
  <2>8. \A t \in Tasks : \A i \in Slots(t) :
           <<t, i>> # <<t0, i0>> => Where(t, i)' = Where(t, i)
    BY <2>1
  <2>9. TokensOK
    BY DEF IInv
  <2> QED
    BY <2>7, <2>8, <2>9, TokensMove
<1> QED
  BY <1>8, <1>10, <1>11 DEF Queues

LEMMA RemoveQueues ==
    ASSUME IInv, NEW c \in Dispatchers, Remove(c), NEW t0, NEW i0, Carries(c, t0, i0)
    PROVE  Queues'
<1> USE ShapesHold DEF Shapes
<1> DEFINE n == ReadySize[c]
           p == ready[c].head % n
           x0 == <<t0, i0>>
<1>1. /\ Running(c) /\ c \in active /\ pc[c] = "taken" /\ pc'[c] = "reading"
      /\ c \in Contexts
      /\ free' = free /\ body' = body /\ inputs' = inputs /\ timers' = timers /\ op' = op
      /\ ready' = [ready EXCEPT ![c] = MoveHead(@, op[c].at)]
  BY AtFacts DEF Remove, Goto
<1>2. OnlyMoves(c)
  BY DEF Remove, Goto, OnlyMoves
<1>3. /\ x0 = First(ready[c]) /\ op[c].at = ready[c].head /\ Filled(ready[c]) > 0
  BY <1>1 DEF IInv, LocalsOK, EndsOK, TakenOK, Carries
<1>4. /\ ready'[c] = MoveHead(ready[c], ready[c].head)
      /\ \A d \in Dispatchers \ {c} : ready'[d] = ready[d]
      /\ ready' = [d \in Dispatchers |-> ready'[d]]
  BY <1>1, <1>3
<1>5. /\ n \in Nat \ {0} /\ GoodRing(ready[c], n, ReadyItems)
      /\ Filled(ready[c]) <= n
      /\ \A q \in Live(ready[c], n) : ready[c].buf[q] \in Messages(c)
  BY DispatcherFacts DEF IInv, EntriesOK
<1>6. /\ Live(ready[c], n) \subseteq 0..n-1 /\ p \in Live(ready[c], n)
      /\ Filled(ready[c]) \in 0..n
  <2> HIDE DEF n
  <2> QED
    BY <1>3, <1>5, LiveBounds, LivePositions
<1>7. /\ GoodRing(ready'[c], n, ReadyItems) /\ ready'[c].tail = ready[c].tail
      /\ Filled(ready'[c]) = Filled(ready[c]) - 1
      /\ Live(ready'[c], n) = Live(ready[c], n) \ {p}
      /\ \A q \in 0..n-1 : q # p => ready'[c].buf[q] = ready[c].buf[q]
  <2> HIDE DEF n
  <2> QED
    BY <1>3, <1>4, <1>5, HeadRing
<1>8. t0 \in Tasks /\ i0 \in Slots(t0) /\ Home[t0] = c
  <2>1. First(ready[c]) = ready[c].buf[p]
    BY <1>5, RingFacts DEF First
  <2>2. x0 \in Messages(c)
    BY <1>3, <1>5, <1>6, <2>1
  <2> QED
    BY <2>2 DEF Messages, Served
<1> HIDE DEF n, p, x0
<1>9. Rings' /\ EntriesOK'
  <2>1. Filled(ready'[c]) <= n
    BY <1>5, <1>6, <1>7
  <2>2. \A q \in Live(ready'[c], n) : ready'[c].buf[q] \in Messages(c)
    BY <1>5, <1>6, <1>7
  <2> QED
    BY <1>1, <1>4, <1>7, <2>1, <2>2, ReadyRest DEF n
<1>11. LocalsOK'
  <2>1. (RoleOK(c) /\ EndsOK(c))'
    BY <1>1, <1>8 DEF RoleOK, EndsOK, Holds, Carries
  <2>2. ASSUME NEW b \in Contexts, b # c PROVE (RoleOK(b) /\ EndsOK(b))'
    <3>1. pc'[b] = pc[b] /\ op'[b] = op[b] /\ body'[b] = body[b]
      BY <1>1, <1>2, <2>2 DEF OnlyMoves
    <3>3. pc[b] = "publishing" /\ Home[op[b].task] = c =>
             /\ ready'[c].tail = ready[c].tail
             /\ ready'[c].buf[ready[c].tail % n] = ready[c].buf[ready[c].tail % n]
      <4> SUFFICES ASSUME pc[b] = "publishing", Home[op[b].task] = c
                   PROVE  ready'[c].buf[ready[c].tail % n] = ready[c].buf[ready[c].tail % n]
        BY <1>7
      <4>1. Filled(ready[c]) < n
        <5>1. pc[b] \in Holds
          BY DEF Holds
        <5>2. Filled(ready[Home[op[b].task]]) < ReadySize[Home[op[b].task]]
          BY <5>1, RoomReady DEF IInv
        <5> QED
          BY <5>2 DEF n
      <4>2. ready[c].tail % n \in 0..n-1 /\ ready[c].tail % n \notin Live(ready[c], n)
        BY <1>5, <4>1, LivePositions
      <4> QED
        BY <1>6, <1>7, <4>2
    <3> QED
      BY <1>1, <1>4, <2>2, <3>1, <3>3, LocalReady DEF n
  <2> QED
    BY <2>1, <2>2 DEF LocalsOK
<1>12. TokensOK'
  <2>1. ASSUME NEW t \in Tasks, NEW i, <<t, i>> # <<t0, i0>> PROVE Where(t, i)' = Where(t, i)
    <3>1. ~Holding(c, t, i) /\ ~Holding(c, t, i)'
      BY <1>1, <2>1 DEF Holding, Carries
    <3>2. ReadyAt(t, i)' = ReadyAt(t, i)
      <4>1. CASE Home[t] = c
        <5>1. First(ready[c]) # <<t, i>>
          BY <1>3, <2>1 DEF x0
        <5>2. Marks("ready", MoveHead(ready[c], ready[c].head), n, <<t, i>>) =
                 Marks("ready", ready[c], n, <<t, i>>)
          BY <1>3, <1>5, <5>1, MarksHeadOther
        <5> QED
          BY <1>4, <4>1, <5>2 DEF ReadyAt, n
      <4>2. CASE Home[t] # c
        BY <1>4, <4>2, ReadyAtSame, Names
      <4> QED
        BY <4>1, <4>2
    <3> QED
      BY <1>1, <1>2, <3>1, <3>2, ReadyOthers
  <2>2. /\ <<"ready", p>> \in ReadyAt(t0, i0)
        /\ ReadyAt(t0, i0)' = ReadyAt(t0, i0) \ {<<"ready", p>>}
    BY <1>3, <1>4, <1>5, <1>8, MarksHead DEF ReadyAt, n, p, x0
  <2>3. HeldAt(t0, i0)' = HeldAt(t0, i0) \cup {<<"held", c>>}
    <3>1. ~Holding(c, t0, i0) /\ Holding(c, t0, i0)'
      BY <1>1 DEF Holding, Carries
    <3> QED
      BY <1>1, <1>2, <3>1, HeldAtGains
  <2>4. TimerAt(t0, i0)' = TimerAt(t0, i0) /\ FreeAt(t0, i0)' = FreeAt(t0, i0)
    BY <1>1, FreeAtSame DEF TimerAt
  <2>5. /\ <<"ready", p>> \notin FreeAt(t0, i0) /\ <<"ready", p>> \notin TimerAt(t0, i0)
        /\ <<"ready", p>> \notin HeldAt(t0, i0)
    BY DEF FreeAt, TimerAt, HeldAt, Marks
  <2>6. PICK a : a = <<"ready", p>>
    OBVIOUS
  <2>7. /\ a \in Where(t0, i0)
        /\ Where(t0, i0)' = (Where(t0, i0) \ {a}) \cup {<<"held", c>>}
    BY <2>2, <2>3, <2>4, <2>5, <2>6 DEF Where
  <2>8. \A t \in Tasks : \A i \in Slots(t) :
           <<t, i>> # <<t0, i0>> => Where(t, i)' = Where(t, i)
    BY <2>1
  <2>9. TokensOK
    BY DEF IInv
  <2> QED
    BY <2>7, <2>8, <2>9, TokensMove
<1> QED
  BY <1>9, <1>11, <1>12 DEF Queues

-----------------------------------------------------------------------------
(* Types.                                                                  *)

OpType == [task : Tasks \cup {Nothing}, slot : 0..127, at : 0..511,
           input : Bodies \cup {Nothing}]

Typed ==
    /\ active \in SUBSET Contexts /\ pending \in SUBSET Preemptors
    /\ body \in [Contexts -> Bodies \cup {"loop"}]
    /\ pc \in [Contexts -> {"body", "leaving"} \cup Sending \cup Dispatching]
    /\ op \in [Contexts -> OpType]
    /\ \A t \in Tasks : inputs[t] \in [Slots(t) -> Bodies \cup {Nothing}]

LEMMA Counters ==
    ASSUME Rings
    PROVE  /\ \A t \in Tasks : free[t].head \in 0..511 /\ free[t].tail \in 0..511
           /\ \A d \in Dispatchers : ready[d].head \in 0..511 /\ ready[d].tail \in 0..511
<1>2. ASSUME NEW t \in Tasks PROVE free[t].head \in 0..511 /\ free[t].tail \in 0..511
  <2>1. FreeSize[t] \in 1..128 /\ GoodRing(free[t], FreeSize[t], FreeItems(t))
    BY TaskFacts
  <2> DEFINE n == FreeSize[t]
             h == free[t].head
             l == free[t].tail
  <2>2. n \in 1..128 /\ h \in 0..2*n-1 /\ l \in 0..2*n-1
    BY <2>1 DEF GoodRing
  <2> HIDE DEF n, h, l
  <2>3. h \in 0..511 /\ l \in 0..511
    BY <2>2
  <2> QED
    BY <2>3 DEF h, l
<1>3. ASSUME NEW d \in Dispatchers PROVE ready[d].head \in 0..511 /\ ready[d].tail \in 0..511
  <2>1. ReadySize[d] \in 1..128 /\ GoodRing(ready[d], ReadySize[d], ReadyItems)
    BY DispatcherFacts
  <2> DEFINE n == ReadySize[d]
             h == ready[d].head
             l == ready[d].tail
  <2>2. n \in 1..128 /\ h \in 0..2*n-1 /\ l \in 0..2*n-1
    BY <2>1, SMTT(30), ZenonT(30) DEF GoodRing
  <2> HIDE DEF n, h, l
  <2>3. h \in 0..511 /\ l \in 0..511
    BY <2>2
  <2> QED
    BY <2>3 DEF h, l
<1> QED
  BY <1>2, <1>3

LEMMA FirstFree ==
    ASSUME Rings, EntriesOK, NEW t \in Tasks, Filled(free[t]) > 0
    PROVE  First(free[t]) \in Slots(t) /\ First(free[t]) \in 0..127
<1> DEFINE r == free[t]
           n == FreeSize[t]
<1>1. /\ n \in Nat \ {0} /\ GoodRing(r, n, FreeItems(t)) /\ Filled(r) <= n
      /\ \A p \in Live(r, n) : r.buf[p] \in Slots(t)
      /\ Slots(t) \subseteq 0..127
  BY TaskFacts DEF EntriesOK
<1> HIDE DEF r, n
<1>2. r.head % n \in Live(r, n) /\ First(r) = r.buf[r.head % n]
  BY <1>1, LivePositions, RingFacts, SMTT(10), ZenonT(60) DEF First, r
<1> QED
  BY <1>1, <1>2 DEF r

LEMMA FirstReady ==
    ASSUME Rings, EntriesOK, NEW d \in Dispatchers, Filled(ready[d]) > 0
    PROVE  First(ready[d]) \in Messages(d)
<1> DEFINE r == ready[d]
           n == ReadySize[d]
<1>1. /\ n \in Nat \ {0} /\ GoodRing(r, n, ReadyItems) /\ Filled(r) <= n
      /\ \A p \in Live(r, n) : r.buf[p] \in Messages(d)
  BY DispatcherFacts DEF EntriesOK
<1> HIDE DEF r, n
<1>2. r.head % n \in Live(r, n) /\ First(r) = r.buf[r.head % n]
  BY <1>1, LivePositions, RingFacts DEF First, r
<1> QED
  BY <1>1, <1>2 DEF r

LEMMA TypesHold == ASSUME TypeOK PROVE Typed
BY DEF TypeOK, Typed, OpType

LEMMA TypesFollow ==
    ASSUME Typed', Rings', EntriesOK' PROVE TypeOK'
<1>1. ASSUME NEW t \in Tasks PROVE RingType(free[t], FreeSize[t], Slots(t) \cup {NoSlot})'
  BY DEF Rings, GoodRing, RingType, FreeItems
<1>2. ASSUME NEW d \in Dispatchers
      PROVE  RingType(ready[d], ReadySize[d], (Tasks \cup {Nothing}) \X (0..255))'
  BY SMTT(5), ZenonT(60) DEF Rings, GoodRing, RingType, ReadyItems
<1>3. \A x \in timers' : x[1] \in Tasks /\ x[2] \in Slots(x[1])
  BY DEF EntriesOK, ScheduledTasks
<1> QED
  BY <1>1, <1>2, <1>3 DEF Typed, TypeOK, OpType

LEMMA TypeStep == ASSUME IInv, [Next]_vars PROVE Typed'
<1> Typed /\ Rings /\ EntriesOK /\ Shapes
  BY TypesHold, ShapesHold DEF IInv
<1> USE Names DEF Typed
<1> DEFINE Steps == {"body", "leaving"} \cup Sending \cup Dispatching
<1>1. ASSUME NEW c \in Contexts, NEW step \in Steps, Goto(c, step)
      PROVE  pc' \in [Contexts -> Steps]
  BY <1>1 DEF Goto
<1>2. Idle \in OpType
  BY DEF Idle, OpType
<1>16. ASSUME NEW o \in OpType, NEW k \in 0..511 PROVE [o EXCEPT !.at = k] \in OpType
  BY SMTT(30), ZenonT(30) DEF OpType
<1>17. ASSUME NEW o \in OpType, NEW b \in Bodies \cup {Nothing}
       PROVE  [o EXCEPT !.input = b] \in OpType
  BY SMTT(30), ZenonT(30) DEF OpType
<1>3. ASSUME NEW c \in Contexts, NEW o \in OpType, op' = [op EXCEPT ![c] = o]
      PROVE  op' \in [Contexts -> OpType]
  BY <1>3
<1>4. CASE FinishInit \/ Tick \/ \E h \in Handlers : Arrive(h)
  BY <1>4 DEF FinishInit, Tick, Arrive
<1>5. ASSUME NEW h \in Preemptors, Preempt(h) \/ Return(h) \/ Finish(h) PROVE Typed'
  BY <1>1, <1>5 DEF Preempt, Return, Finish
<1>6. ASSUME NEW c \in Contexts, NEW t \in Tasks, Call(c, t) PROVE Typed'
  <2>1. Goto(c, "taking") /\ body[c] \in Bodies /\ Filled(free[t]) > 0
    BY <1>6, SMTT(30), ZenonT(30) DEF Call
  <2>2. [task |-> t, slot |-> First(free[t]), at |-> free[t].head, input |-> body[c]]
           \in OpType
    BY <2>1, FirstFree, Counters, SMTT(30), ZenonT(30) DEF OpType
  <2>3. op' \in [Contexts -> OpType]
    BY <1>3, <1>6, <2>2 DEF Call
  <2> QED
    BY <1>1, <1>6, <2>1, <2>3 DEF Call, Sending
<1>7. ASSUME NEW c \in Contexts, Taken(c) \/ Remove(c) \/ Publish(c) PROVE Typed'
  BY <1>1, <1>7 DEF Taken, Remove, Publish, Sending, Dispatching
<1>8. ASSUME NEW c \in Contexts, Arm(c) \/ Pend(c) \/ Run(c) PROVE Typed'
  <2>1. op' \in [Contexts -> OpType]
    BY <1>2, <1>3, <1>8 DEF Arm, Pend, Run
  <2>2. Goto(c, "body") /\ UNCHANGED <<active, inputs>>
    BY <1>8 DEF Arm, Pend, Run
  <2>3. pc[c] \in {"pending", "freed"} => op[c].task \in Tasks
    BY DEF IInv, StackOK, LocalsOK, RoleOK, PutsMessages, Holds
  <2>4. CASE Arm(c)
    BY <1>1, <2>1, <2>2, <2>4 DEF Arm
  <2>5. CASE Pend(c)
    BY <1>1, <2>1, <2>2, <2>3, <2>5, AtFacts DEF Pend
  <2>6. CASE Run(c)
    BY <1>1, <2>1, <2>2, <2>3, <2>6, AtFacts DEF Run, Bodies
  <2> QED
    BY <1>8, <2>4, <2>5, <2>6
<1>9. ASSUME NEW c \in Contexts, Post(c) PROVE Typed'
  <2>1. pc[c] = "posting" /\ Goto(c, "publishing")
    BY <1>9, AtFacts DEF Post
  <2>2. ready[Home[op[c].task]].tail \in 0..511
    <3>1. op[c].task \in Tasks
      BY <2>1 DEF IInv, LocalsOK, RoleOK, Holds
    <3>2. Home[op[c].task] \in Dispatchers
      BY <3>1
    <3> QED
      BY <3>2, Counters, ZenonT(60)
  <2>4. [op[c] EXCEPT !.at = ready[Home[op[c].task]].tail] \in OpType
    BY <1>16, <2>2, ZenonT(30)
  <2>3. op' \in [Contexts -> OpType]
    BY <1>3, <1>9, <2>4 DEF Post
  <2> QED
    BY <1>1, <1>9, <2>1, <2>3 DEF Post, Sending
<1>10. ASSUME NEW c \in Contexts, Free(c) PROVE Typed'
  <2>1. pc[c] = "freeing" /\ Goto(c, "freed")
    BY <1>10, AtFacts, SMTT(30), ZenonT(30) DEF Free
  <2>2. free[op[c].task].tail \in 0..511
    BY <2>1, Counters, ZenonT(40) DEF IInv, LocalsOK, RoleOK, Holds
  <2>4. [op[c] EXCEPT !.at = free[op[c].task].tail] \in OpType
    BY <1>16, <2>2, ZenonT(30)
  <2>3. op' \in [Contexts -> OpType]
    BY <1>3, <1>10, <2>4 DEF Free
  <2> QED
    BY <1>1, <1>10, <2>1, <2>3 DEF Free, Dispatching
<1>11. ASSUME NEW c \in Contexts, Write(c) PROVE Typed'
  <2>1. pc[c] = "writing" /\ (Goto(c, "posting") \/ Goto(c, "arming"))
    BY <1>11, AtFacts DEF Write
  <2>2. op[c].task \in Tasks /\ op[c].slot \in Slots(op[c].task)
    BY <2>1 DEF IInv, LocalsOK, RoleOK, Holds
  <2>3. op[c].input \in Bodies \cup {Nothing}
    BY DEF OpType
  <2>4. \A t \in Tasks : inputs'[t] \in [Slots(t) -> Bodies \cup {Nothing}]
    BY <1>11, <2>2, <2>3 DEF Write
  <2> QED
    BY <1>1, <1>11, <2>1, <2>4 DEF Write, Sending
<1>12. ASSUME NEW c \in Contexts, Read(c) PROVE Typed'
  <2>1. pc[c] = "reading" /\ Goto(c, "freeing")
    BY <1>12, AtFacts DEF Read
  <2>2. op[c].task \in Tasks /\ op[c].slot \in Slots(op[c].task)
    BY <2>1 DEF IInv, LocalsOK, RoleOK, Holds
  <2>3. inputs[op[c].task][op[c].slot] \in Bodies \cup {Nothing}
    BY <2>2
  <2>6. [op[c] EXCEPT !.input = inputs[op[c].task][op[c].slot]] \in OpType
    BY <1>17, <2>3
  <2>4. op' \in [Contexts -> OpType]
    BY <1>3, <1>12, <2>6 DEF Read
  <2>5. \A t \in Tasks : inputs'[t] \in [Slots(t) -> Bodies \cup {Nothing}]
    BY <1>12, <2>2 DEF Read
  <2> QED
    BY <1>1, <1>12, <2>1, <2>4, <2>5 DEF Read, Dispatching
<1>13. ASSUME NEW c \in Dispatchers, Poll(c) PROVE Typed'
  <2>1. CASE Goto(c, "leaving") /\ UNCHANGED op
    BY <1>1, <1>13, <2>1 DEF Poll
  <2>2. CASE Filled(ready[c]) # 0 /\ Goto(c, "taken")
    <3>1. Filled(ready[c]) > 0
      <4>1. /\ ReadySize[c] \in Nat \ {0} /\ Filled(ready[c]) <= ReadySize[c]
            /\ GoodRing(ready[c], ReadySize[c], ReadyItems)
        BY DispatcherFacts DEF EntriesOK
      <4>2. Filled(ready[c]) \in 0..ReadySize[c]
        BY <4>1, LivePositions
      <4> QED
        BY <2>2, <4>2
    <3>6. PICK t \in Tasks : \E i \in Slots(t) : First(ready[c]) = <<t, i>>
      BY <3>1, FirstReady DEF Messages, Served
    <3>2. PICK i \in Slots(t) : First(ready[c]) = <<t, i>>
      BY <3>6, SMTT(30), ZenonT(30)
    <3>3. [task |-> t, slot |-> i, at |-> ready[c].head, input |-> Nothing] \in OpType
      BY TaskFacts, Counters, SMTT(30), ZenonT(30) DEF OpType
    <3>4. op' = [op EXCEPT ![c] = [task |-> t, slot |-> i, at |-> ready[c].head,
                                   input |-> Nothing]]
      BY <1>13, <2>2, <3>2 DEF Poll
    <3>5. op' \in [Contexts -> OpType]
      BY <1>3, <3>3, <3>4
    <3> QED
      BY <1>1, <1>13, <2>2, <3>5 DEF Poll, Dispatching
  <2> QED
    BY <1>13, <2>1, <2>2 DEF Poll
<1>14. ASSUME NEW t \in Tasks, NEW i \in Slots(t), Fire(<<t, i>>) PROVE Typed'
  <2>3. i \in 0..127
    BY TaskFacts
  <2>1. [Idle EXCEPT !.task = t, !.slot = i] \in OpType
    <3>1. [Idle EXCEPT !.task = t, !.slot = i] =
             [task |-> t, slot |-> i, at |-> 0, input |-> Nothing]
      <4> DEFINE o == [Idle EXCEPT !.task = t]
      <4>1. [Idle EXCEPT !.task = t, !.slot = i] = [o EXCEPT !.slot = i]
        OBVIOUS
      <4>2. o = [task |-> t, slot |-> 0, at |-> 0, input |-> Nothing]
        BY DEF Idle
      <4> HIDE DEF o
      <4> QED
        BY <4>1, <4>2
    <3>2. [task |-> t, slot |-> i, at |-> 0, input |-> Nothing] \in OpType
      BY <2>3 DEF OpType
    <3> QED
      BY <3>1, <3>2
  <2>2. op' \in [Contexts -> OpType]
    BY <1>3, <1>14, <2>1 DEF Fire
  <2> QED
    BY <1>1, <1>14, <2>2 DEF Fire, Sending
<1>15. CASE UNCHANGED vars
  BY <1>15 DEF vars
<1> QED
  BY <1>4, <1>5, <1>6, <1>7, <1>8, <1>9, <1>10, <1>11, <1>12, <1>13, <1>14, <1>15
     DEF Next, Proceed, End

-----------------------------------------------------------------------------
(* The stack.                                                              *)

LEMMA Below == \A x, y, z \in 0..255 : y >= x /\ y < z => x # z /\ ~(z < x)
OBVIOUS

LEMMA OrderStep == ASSUME IInv, [Next]_vars PROVE OrderOK'
<1> USE ShapesHold, Names DEF Shapes
<1>1. CASE FinishInit
  <2>1. active' = {"idle"}
    BY <1>1 DEF FinishInit
  <2> QED
    BY <2>1 DEF OrderOK
<1>2. CASE \/ Tick \/ \E h \in Handlers : Arrive(h)
           \/ \E h \in Preemptors : Finish(h)
  <2>1. active' = active /\ pc' = pc /\ op' = op
    BY <1>2 DEF Tick, Arrive, Finish, vars
  <2>2. \A c : Cell(c)' = Cell(c)
    BY <2>1 DEF Cell
  <2> QED
    BY <2>1, <2>2 DEF IInv, OrderOK
<1>3. ASSUME NEW h \in Preemptors, Preempt(h) PROVE OrderOK'
  <2>1. /\ h \notin active /\ active' = active \cup {h} /\ pc' = pc /\ op' = op
        /\ \A c \in active : Cell(c) < Priority[h]
    BY <1>3 DEF Preempt
  <2>2. \A c : Cell(c)' = Cell(c)
    BY <2>1 DEF Cell
  <2>3. LogicalPriority(h) = Priority[h] /\ Priority[h] \in 0..255
    BY Priorities
  <2>4. ASSUME NEW c \in active
        PROVE  /\ Cell(c) < LogicalPriority(h)
               /\ LogicalPriority(c) # LogicalPriority(h)
               /\ ~(LogicalPriority(h) < LogicalPriority(c))
    <3>1. c \in Contexts
      OBVIOUS
    <3>2. Cell(c) \in 0..255 /\ Cell(c) >= LogicalPriority(c)
      BY <3>1, Cells DEF IInv
    <3>3. LogicalPriority(c) \in 0..255 /\ LogicalPriority(h) \in 0..255
      BY <2>3, <3>1, Priorities
    <3>4. Cell(c) < LogicalPriority(h)
      BY <2>1, <2>3
    <3> QED
      BY <3>2, <3>3, <3>4, Below, Zenon
  <2> SUFFICES ASSUME NEW x \in active', NEW y \in active', x # y
               PROVE  /\ LogicalPriority(x) # LogicalPriority(y)
                      /\ LogicalPriority(x) < LogicalPriority(y) =>
                            Cell(x) < LogicalPriority(y)
    BY <2>2 DEF OrderOK
  <2>5. CASE x \in active /\ y \in active
    BY <2>5 DEF IInv, OrderOK
  <2>6. CASE x \in active /\ y = h
    BY <2>4, <2>6
  <2>7. CASE x = h /\ y \in active
    BY <2>4, <2>7
  <2> QED
    BY <2>1, <2>5, <2>6, <2>7
<1>4. ASSUME NEW h \in Preemptors, Return(h) PROVE OrderOK'
  <2>1. Running(h) /\ active' \subseteq active
    BY <1>4 DEF Return, At
  <2>2. OnlyMoves(h)
    BY <1>4 DEF Return, Goto, OnlyMoves
  <2> QED
    BY <2>1, <2>2, OrderFrame
<1>5. ASSUME NEW c \in Contexts, Proceed(c) PROVE OrderOK'
  <2>1. Running(c) /\ active' \subseteq active
    BY <1>5 DEF Proceed, Taken, Write, Arm, Post, Publish, Pend, Poll, Remove, Read,
                Free, Run, At
  <2>2. OnlyMoves(c)
    <3>1. CASE Taken(c) \/ Write(c) \/ Arm(c)
      BY <3>1 DEF Taken, Write, Arm, Goto, OnlyMoves
    <3>2. CASE Post(c) \/ Publish(c) \/ Pend(c)
      BY <3>2 DEF Post, Publish, Pend, Goto, OnlyMoves
    <3>3. CASE Poll(c) \/ Remove(c)
      BY <3>3 DEF Poll, Remove, Goto, OnlyMoves
    <3>4. CASE Read(c)
      BY <3>4 DEF Read, Goto, OnlyMoves
    <3>5. CASE Free(c)
      BY <3>5 DEF Free, Goto, OnlyMoves
    <3>6. CASE Run(c)
      BY <3>6 DEF Run, Goto, OnlyMoves
    <3> QED
      BY <1>5, <3>1, <3>2, <3>3, <3>4, <3>5, <3>6 DEF Proceed
  <2> QED
    BY <2>1, <2>2, OrderFrame
<1>6. ASSUME NEW c \in Contexts, NEW t \in Tasks, Call(c, t) PROVE OrderOK'
  <2>1. Running(c) /\ active' \subseteq active
    BY <1>6 DEF Call, At
  <2>2. OnlyMoves(c)
    BY <1>6 DEF Call, Goto, OnlyMoves
  <2> QED
    BY <2>1, <2>2, OrderFrame
<1>7. ASSUME NEW x, Fire(x) PROVE OrderOK'
  <2>1. Running("SysTick") /\ active' \subseteq active
    BY <1>7 DEF Fire, At
  <2>2. OnlyMoves("SysTick")
    BY <1>7 DEF Fire, Goto, OnlyMoves
  <2> QED
    BY <2>1, <2>2, OrderFrame
<1>8. CASE UNCHANGED vars
  <2>1. active' = active /\ pc' = pc /\ op' = op
    BY <1>8 DEF vars
  <2>2. \A c : Cell(c)' = Cell(c)
    BY <2>1 DEF Cell
  <2> QED
    BY <2>1, <2>2 DEF IInv, OrderOK
<1> QED
  BY <1>1, <1>2, <1>3, <1>4, <1>5, <1>6, <1>7, <1>8 DEF Next, End

(* A dispatcher executes tasks of its own.                                 *)
LEMMA BodiesStep == ASSUME IInv, [Next]_vars PROVE BodiesOK'
<1> USE ShapesHold, Names DEF Shapes
<1> BodiesOK
  BY DEF IInv
<1>1. ASSUME NEW d \in Dispatchers, NEW x, body' = [body EXCEPT ![d] = x],
             x = "loop" \/ (x \in Tasks /\ Home[x] = d)
      PROVE  BodiesOK'
  <2>1. \A c \in Contexts \ {d} : body'[c] = body[c]
    BY <1>1
  <2>2. body'[d] = x
    BY <1>1
  <2>3. Handlers \subseteq Contexts /\ Dispatchers \subseteq Contexts
    OBVIOUS
  <2>4. d \notin {"init", "idle", "SysTick"} \cup Handlers
    BY NamesAssumption
  <2> QED
    BY <1>1, <2>1, <2>2, <2>3, <2>4 DEF BodiesOK
<1>2. ASSUME NEW d \in Dispatchers, Run(d) PROVE BodiesOK'
  <2>1. pc[d] = "freed" /\ body' = [body EXCEPT ![d] = op[d].task]
    BY <1>2, AtFacts DEF Run
  <2>2. op[d].task \in Tasks /\ Home[op[d].task] = d
    BY <2>1 DEF IInv, LocalsOK, RoleOK, Holds
  <2> QED
    BY <1>1, <2>1, <2>2
<1>3. ASSUME NEW d \in Dispatchers, Finish(d) PROVE BodiesOK'
  BY <1>1, <1>3 DEF Finish
<1>4. ASSUME body' = body PROVE BodiesOK'
  BY <1>4 DEF BodiesOK
<1>5. FinishInit \/ Tick \/ (\E h \in Handlers : Arrive(h)) \/ UNCHANGED vars => body' = body
  BY DEF FinishInit, Tick, Arrive, vars
<1>6. \A h : Preempt(h) \/ Return(h) => body' = body
  BY DEF Preempt, Return
<1>7. \A c : Taken(c) \/ Write(c) \/ Arm(c) \/ Post(c) \/ Publish(c) \/ Pend(c) \/ Poll(c)
             \/ Remove(c) \/ Read(c) \/ Free(c) => body' = body
  BY DEF Taken, Write, Arm, Post, Publish, Pend, Poll, Remove, Read, Free
<1>8. \A c, t : Call(c, t) => body' = body
  BY DEF Call
<1>9. \A x : Fire(x) => body' = body
  BY DEF Fire
<1> QED
  BY <1>2, <1>3, <1>4, <1>5, <1>6, <1>7, <1>8, <1>9 DEF Next, Proceed, End

-----------------------------------------------------------------------------
(* The invariant is inductive.                                             *)

LEMMA QueuesStep == ASSUME IInv, SendersExcluded, [Next]_vars PROVE Queues'
<1> USE Names
<1> Shapes
  BY ShapesHold
<1>1. CASE FinishInit \/ Tick \/ \E h \in Handlers : Arrive(h)
  BY <1>1, ControlStep DEF FinishInit, Tick, Arrive
<1>2. ASSUME NEW h \in Preemptors, Preempt(h) PROVE Queues'
  BY <1>2, ControlStep DEF Preempt
<1>3. ASSUME NEW h \in Preemptors, Return(h) PROVE Queues'
  <2>1. pc[h] \in {"body", "leaving"} /\ pc' = [pc EXCEPT ![h] = "body"] /\ h \in Contexts
    BY <1>3, AtFacts DEF Return, Goto
  <2>2. \A b \in Contexts :
           \/ pc'[b] = pc[b] /\ body'[b] = body[b]
           \/ pc[b] \in {"body", "leaving"} /\ pc'[b] \in {"body", "leaving"}
    BY <1>3, <2>1 DEF Return, Shapes
  <2> QED
    BY <1>3, <2>2, ControlStep DEF Return
<1>4. ASSUME NEW h \in Preemptors, Finish(h) PROVE Queues'
  <2>1. pc[h] = "body" /\ pc' = pc /\ body' = [body EXCEPT ![h] = "loop"] /\ h \in Contexts
    BY <1>4, AtFacts DEF Finish
  <2>2. \A b \in Contexts :
           \/ pc'[b] = pc[b] /\ body'[b] = body[b]
           \/ pc[b] \in {"body", "leaving"} /\ pc'[b] \in {"body", "leaving"}
    BY <2>1 DEF Shapes
  <2> QED
    BY <1>4, <2>2, ControlStep DEF Finish
<1>5. ASSUME NEW c \in Contexts, Proceed(c) PROVE Queues'
  <2>1. PICK t0 : t0 = op[c].task
    OBVIOUS
  <2>2. PICK i0 : i0 = op[c].slot
    OBVIOUS
  <2>3. Carries(c, t0, i0)
    BY <2>1, <2>2 DEF Carries
  <2>4. CASE Arm(c)
    <3>1. Holding(c, t0, i0)
      BY <2>1, <2>2, <2>4, AtFacts DEF Arm, Holding
    <3> QED
      BY <2>4, <3>1, ArmQueues
  <2>5. CASE Taken(c) \/ Post(c) \/ Publish(c) \/ Write(c) \/ Pend(c)
    BY <2>3, <2>5, TakenQueues, PostQueues, PublishQueues, WriteQueues, PendQueues
  <2>6. CASE c \in Dispatchers /\ (Poll(c) \/ Remove(c) \/ Read(c) \/ Free(c) \/ Run(c))
    BY <2>3, <2>6, PollQueues, RemoveQueues, ReadQueues, FreeQueues, RunQueues
  <2> QED
    BY <1>5, <2>4, <2>5, <2>6 DEF Proceed
<1>6. ASSUME NEW c \in Contexts, NEW t \in Tasks, Call(c, t) PROVE Queues'
  BY <1>6, CallQueues
<1>7. ASSUME NEW t \in Tasks, NEW i \in Slots(t), Fire(<<t, i>>) PROVE Queues'
  BY <1>7, FireQueues
<1>8. CASE UNCHANGED vars
  BY <1>8, ControlStep DEF vars
<1> QED
  BY <1>1, <1>2, <1>3, <1>4, <1>5, <1>6, <1>7, <1>8 DEF Next, End

LEMMA SlotsInductive == ASSUME IInv, SendersExcluded, [Next]_vars PROVE IInv'
<1>1. Queues'
  BY QueuesStep
<1>2. TypeOK'
  BY <1>1, TypeStep, TypesFollow DEF Queues
<1>3. StackOK'
  BY DispatchShape, StackStep DEF IInv
<1>4. OrderOK' /\ BodiesOK'
  BY OrderStep, BodiesStep
<1> QED
  BY <1>1, <1>2, <1>3, <1>4 DEF IInv, Queues

-----------------------------------------------------------------------------
(* It holds when init starts: every slot waits in its free queue.          *)

LEMMA InitRings ==
    ASSUME Init
    PROVE  /\ Rings
           /\ \A t \in Tasks : Filled(free[t]) = Capacity[t]
                               /\ Live(free[t], FreeSize[t]) = Slots(t)
                               /\ \A i \in Slots(t) : free[t].buf[i] = i
           /\ \A d \in Dispatchers : Filled(ready[d]) = 0
                                     /\ Live(ready[d], ReadySize[d]) = {}
<1>1. ASSUME NEW t \in Tasks
      PROVE  /\ GoodRing(free[t], FreeSize[t], FreeItems(t))
             /\ Filled(free[t]) = Capacity[t]
             /\ Live(free[t], FreeSize[t]) = Slots(t)
             /\ \A i \in Slots(t) : free[t].buf[i] = i
  <2> DEFINE n == FreeSize[t]
             r == free[t]
             cap == Capacity[t]
  <2>1. n \in 1..128 /\ cap \in 1..128 /\ n >= cap
    BY NamesAssumption, AnalysisAssumption
  <2>2. r = [head |-> 0, tail |-> cap, vacant |-> NoSlot,
             buf |-> [k \in 0..n-1 |-> IF k \in Slots(t) THEN k ELSE NoSlot]]
    <3> DEFINE b == [k \in 0..n-1 |-> NoSlot]
               q == [Ring(n, NoSlot) EXCEPT !.tail = cap]
    <3>1. r = [q EXCEPT !.buf = [k \in DOMAIN @ |-> IF k \in Slots(t) THEN k ELSE NoSlot]]
      BY DEF Init
    <3>3. DOMAIN b = 0..n-1
      OBVIOUS
    <3>4. Ring(n, NoSlot) = [head |-> 0, tail |-> 0, vacant |-> NoSlot, buf |-> b]
      BY DEF Ring
    <3> HIDE DEF b
    <3>2. q = [head |-> 0, tail |-> cap, vacant |-> NoSlot, buf |-> b]
      BY <3>4
    <3> HIDE DEF q
    <3> QED
      BY <3>1, <3>2, <3>3
  <2>3. Slots(t) \subseteq 0..n-1
    BY <2>1, SMTT(30), ZenonT(30) DEF Slots
  <2>4. r.head = 0 /\ r.tail = cap /\ \A i \in Slots(t) : r.buf[i] = i
    BY <2>2, <2>3
  <2> HIDE DEF n, r, cap
  <2>5. GoodRing(r, n, FreeItems(t))
    <3>1. 0 \in 0..2*n-1 /\ cap \in 0..2*n-1
      BY <2>1
    <3>2. [k \in 0..n-1 |-> IF k \in Slots(t) THEN k ELSE NoSlot] \in [0..n-1 -> FreeItems(t)]
      BY DEF FreeItems
    <3> QED
      BY <2>2, <3>1, <3>2 DEF GoodRing, FreeItems
  <2>6. Filled(r) = cap
    <3>1. r.tail >= r.head => Filled(r) = r.tail - r.head
      BY <2>1, <2>5, RingFacts
    <3> QED
      BY <2>1, <2>4, <3>1
  <2>7. \A k \in 1..cap : Pos(r, n, k) = k - 1
    <3>1. \A k \in 1..n : r.head + k - 1 < n => Pos(r, n, k) = r.head + k - 1
      BY <2>1, <2>5, RingPositions
    <3> QED
      BY <2>1, <2>4, <3>1
  <2>8. Live(r, n) = {k - 1 : k \in 1..cap}
    BY <2>6, <2>7 DEF Live
  <2>9. {k - 1 : k \in 1..cap} = 0..cap-1
    <3>1. \A k \in 0..cap-1 : k + 1 \in 1..cap /\ k = (k + 1) - 1
      BY <2>1
    <3>2. \A k \in 1..cap : k - 1 \in 0..cap-1
      BY <2>1
    <3> QED
      BY <3>1, <3>2
  <2>10. Slots(t) = 0..cap-1
    BY DEF Slots, cap
  <2> QED
    BY <2>4, <2>5, <2>6, <2>8, <2>9, <2>10 DEF n, r, cap
<1>2. ASSUME NEW d \in Dispatchers
      PROVE  /\ GoodRing(ready[d], ReadySize[d], ReadyItems)
             /\ Filled(ready[d]) = 0 /\ Live(ready[d], ReadySize[d]) = {}
  <2> DEFINE n == ReadySize[d]
             r == ready[d]
  <2>1. n \in 1..128
    BY NamesAssumption
  <2>2. r = [head |-> 0, tail |-> 0, vacant |-> <<Nothing, NoSlot>>,
             buf |-> [k \in 0..n-1 |-> <<Nothing, NoSlot>>]]
    BY DEF Init, Ring
  <2>3. <<Nothing, NoSlot>> \in ReadyItems
    BY DEF ReadyItems, NoSlot
  <2> HIDE DEF n, r
  <2>4. GoodRing(r, n, ReadyItems)
    <3>1. 0 \in 0..2*n-1
      BY <2>1
    <3>2. [k \in 0..n-1 |-> <<Nothing, NoSlot>>] \in [0..n-1 -> ReadyItems]
      BY <2>3
    <3> QED
      BY <2>2, <2>3, <3>1, <3>2 DEF GoodRing
  <2>5. r.head = 0 /\ r.tail = 0
    BY <2>2
  <2>6. Filled(r) = 0
    <3>1. r.tail >= r.head => Filled(r) = r.tail - r.head
      BY <2>1, <2>4, RingFacts
    <3> QED
      BY <2>5, <3>1
  <2>7. Live(r, n) = {}
    BY <2>6 DEF Live
  <2> QED
    BY <2>4, <2>6, <2>7 DEF n, r
<1>3. /\ free = [t \in Tasks |-> free[t]] /\ ready = [d \in Dispatchers |-> ready[d]]
      /\ inputs = [t \in Tasks |-> inputs[t]]
  BY DEF Init
<1> QED
  BY <1>1, <1>2, <1>3 DEF Rings

LEMMA InitSlots == ASSUME Init PROVE IInv
<1> USE Names, InitRings
<1>1. /\ active = {"init"} /\ pending = {} /\ timers = {}
      /\ \A c \in Contexts : pc[c] = "body" /\ op[c] = Idle
      /\ \A c \in Contexts : body[c] = IF c \in Bodies THEN c ELSE "loop"
  BY ZenonT(30) DEF Init
<1>2. TypeOK
  <2>1. Idle \in [task : Tasks \cup {Nothing}, slot : 0..127, at : 0..511,
                  input : Bodies \cup {Nothing}]
    BY DEF Idle
  <2>2. /\ active \in SUBSET Contexts /\ pending \in SUBSET Preemptors
        /\ body \in [Contexts -> Bodies \cup {"loop"}]
        /\ pc \in [Contexts -> {"body", "leaving"} \cup Sending \cup Dispatching]
        /\ op \in [Contexts -> [task : Tasks \cup {Nothing}, slot : 0..127, at : 0..511,
                                input : Bodies \cup {Nothing}]]
    <3>1. active \in SUBSET Contexts /\ pending \in SUBSET Preemptors
      BY <1>1
    <3>2. body \in [Contexts -> Bodies \cup {"loop"}]
      BY ZenonT(30) DEF Init
    <3>3. pc \in [Contexts -> {"body", "leaving"} \cup Sending \cup Dispatching]
      BY ZenonT(30) DEF Init
    <3>4. op = [c \in Contexts |-> Idle]
      BY ZenonT(30) DEF Init
    <3> QED
      BY <2>1, <3>1, <3>2, <3>3, <3>4
  <2>3. ASSUME NEW t \in Tasks
        PROVE  /\ RingType(free[t], FreeSize[t], Slots(t) \cup {NoSlot})
               /\ inputs[t] \in [Slots(t) -> Bodies \cup {Nothing}]
    <3>1. RingType(free[t], FreeSize[t], Slots(t) \cup {NoSlot})
      BY DEF Rings, GoodRing, RingType, FreeItems
    <3>2. inputs[t] = [i \in Slots(t) |-> Nothing]
      BY ZenonT(30) DEF Init
    <3> QED
      BY <3>1, <3>2
  <2>4. ASSUME NEW d \in Dispatchers
        PROVE  RingType(ready[d], ReadySize[d], (Tasks \cup {Nothing}) \X (0..255))
    BY SMTT(5), ZenonT(60) DEF Rings, GoodRing, RingType, ReadyItems
  <2> QED
    BY <1>1, <2>2, <2>3, <2>4 DEF TypeOK
<1>3. StackOK /\ OrderOK
  BY <1>1 DEF StackOK, OrderOK, PutsMessages
<1>4. BodiesOK
  <2>1. \A c \in {"init", "idle"} \cup Handlers : c \in Contexts /\ c \in Bodies
    BY DEF Bodies
  <2>2. "SysTick" \in Contexts /\ "SysTick" \notin Bodies
    BY DEF Bodies
  <2>3. \A d \in Dispatchers : d \in Contexts /\ d \notin Bodies
    OBVIOUS
  <2> QED
    BY <1>1, <2>1, <2>2, <2>3 DEF BodiesOK
<1>5. EntriesOK
  <2>1. \A t \in Tasks : FreeSize[t] >= Capacity[t] /\ FreeSize[t] \in 1..128
                         /\ Capacity[t] \in 1..128
    BY NamesAssumption, AnalysisAssumption
  <2>2. \A d \in Dispatchers : ReadySize[d] \in 1..128
    BY NamesAssumption
  <2> QED
    BY <1>1, <2>1, <2>2 DEF EntriesOK
<1>6. LocalsOK
  BY <1>1 DEF LocalsOK, RoleOK, EndsOK, Holds
<1>7. TokensOK
  <2> SUFFICES ASSUME NEW t \in Tasks, NEW i \in Slots(t) PROVE \E w : Where(t, i) = {w}
    BY DEF TokensOK
  <2>1. FreeAt(t, i) = {<<"free", i>>}
    BY DEF FreeAt, Marks
  <2>2. ReadyAt(t, i) = {}
    BY DEF ReadyAt, Marks
  <2>3. TimerAt(t, i) = {} /\ HeldAt(t, i) = {}
    BY <1>1 DEF TimerAt, HeldAt, Holding
  <2> QED
    BY <2>1, <2>2, <2>3 DEF Where
<1> QED
  BY <1>2, <1>3, <1>4, <1>5, <1>6, <1>7 DEF IInv, Rings

-----------------------------------------------------------------------------
(* One place in the sense of the invariant is one in that of Places.       *)

Hits(r, x) == {k \in 1..Filled(r) : Contents(r)[k] = x}

LEMMA RingCount ==
    ASSUME NEW n \in Nat \ {0}, NEW Items, NEW r, GoodRing(r, n, Items), Filled(r) <= n,
           NEW name, NEW x
    PROVE  /\ Marks(name, r, n, x) = {} => Cardinality(Hits(r, x)) = 0
           /\ \A w : Marks(name, r, n, x) = {w} => Cardinality(Hits(r, x)) = 1
<1> DEFINE K == {k \in 1..Filled(r) : Contents(r)[k] = x}
           M == Marks(name, r, n, x)
<1>1. Size(r) = n
  BY RingFacts
<1>2. \A k \in 1..Filled(r) : Contents(r)[k] = r.buf[Pos(r, n, k)]
  BY <1>1 DEF Contents, Pos
<1>3. /\ Filled(r) \in 0..n
      /\ \A j, k \in 1..n : Pos(r, n, j) = Pos(r, n, k) => j = k
  BY LivePositions
<1>4. 1..Filled(r) \subseteq 1..n
  BY <1>3
<1>5. \A k \in K : <<name, Pos(r, n, k)>> \in M
  BY <1>2 DEF Marks, Live
<1>6. \A w \in M : \E k \in K : w = <<name, Pos(r, n, k)>>
  BY <1>2 DEF Marks, Live
<1>7. K \subseteq 1..n
  BY <1>4
<1> HIDE DEF K, M
<1>8. M = {} => Cardinality(K) = 0
  <2>1. M = {} => K = {}
    BY <1>5
  <2> QED
    BY <2>1, FS_EmptySet
<1>9. ASSUME NEW w, M = {w} PROVE Cardinality(K) = 1
  <2>1. PICK k \in K : w = <<name, Pos(r, n, k)>>
    BY <1>6, <1>9
  <2>2. ASSUME NEW j \in K PROVE j = k
    <3>1. <<name, Pos(r, n, j)>> = <<name, Pos(r, n, k)>>
      BY <1>5, <1>9, <2>1
    <3>2. Pos(r, n, j) = Pos(r, n, k)
      BY <3>1
    <3> QED
      BY <1>3, <1>7, <3>2
  <2>3. K = {k}
    BY <2>1, <2>2
  <2> QED
    BY <2>3, FS_Singleton
<1> QED
  BY <1>8, <1>9 DEF Hits, K, M

LEMMA OnePlace == ASSUME IInv, NEW t \in Tasks, NEW i \in Slots(t) PROVE Places(t, i) = 1
<1> DEFINE F == Hits(free[t], i)
           R == Hits(ready[Home[t]], <<t, i>>)
           T == {<<t, i>>} \cap timers
           H == {c \in Contexts : Holding(c, t, i)}
<1>1. PICK w : Where(t, i) = {w}
  BY DEF IInv, TokensOK
<1>2. /\ FreeAt(t, i) = {} => Cardinality(F) = 0
      /\ FreeAt(t, i) = {w} => Cardinality(F) = 1
  <2>1. /\ FreeSize[t] \in Nat \ {0} /\ GoodRing(free[t], FreeSize[t], FreeItems(t))
        /\ Filled(free[t]) <= FreeSize[t]
    BY TaskFacts DEF IInv, EntriesOK
  <2> QED
    BY <2>1, RingCount DEF FreeAt
<1>3. /\ ReadyAt(t, i) = {} => Cardinality(R) = 0
      /\ ReadyAt(t, i) = {w} => Cardinality(R) = 1
  <2> DEFINE d == Home[t]
  <2>1. /\ ReadySize[d] \in Nat \ {0} /\ GoodRing(ready[d], ReadySize[d], ReadyItems)
        /\ Filled(ready[d]) <= ReadySize[d]
    BY Names, DispatcherFacts DEF IInv, EntriesOK
  <2> QED
    BY <2>1, RingCount DEF ReadyAt
<1>4. /\ TimerAt(t, i) = {} => Cardinality(T) = 0
      /\ TimerAt(t, i) = {w} => Cardinality(T) = 1
  <2>1. TimerAt(t, i) = {} => T = {}
    <3>1. \A x \in T : <<"timer", x>> \in TimerAt(t, i)
      BY DEF TimerAt
    <3> HIDE DEF T
    <3> QED
      BY <3>1
  <2>2. TimerAt(t, i) = {w} => T = {<<t, i>>}
    BY DEF TimerAt
  <2> QED
    BY <2>1, <2>2, FS_EmptySet, FS_Singleton
<1>5. /\ HeldAt(t, i) = {} => Cardinality(H) = 0
      /\ HeldAt(t, i) = {w} => Cardinality(H) = 1
  <2>1. HeldAt(t, i) = {} => H = {}
    <3>1. \A x \in H : <<"held", x>> \in HeldAt(t, i)
      BY DEF HeldAt
    <3> HIDE DEF H
    <3> QED
      BY <3>1
  <2>2. HeldAt(t, i) = {w} => \E c : H = {c}
    <3> SUFFICES ASSUME HeldAt(t, i) = {w} PROVE \E c : H = {c}
      OBVIOUS
    <3>1. PICK c \in H : w = <<"held", c>>
      BY DEF HeldAt
    <3>2. ASSUME NEW b \in H PROVE b = c
      <4>1. <<"held", b>> = <<"held", c>>
        BY <3>1 DEF HeldAt
      <4> QED
        BY <4>1
    <3> QED
      BY <3>2
  <2> QED
    BY <2>1, <2>2, FS_EmptySet, FS_Singleton
<1>6. Places(t, i) = Cardinality(F) + Cardinality(R) + Cardinality(T) + Cardinality(H)
  BY DEF Places, Hits
<1>7. /\ \A x \in FreeAt(t, i) : x = w /\ \E p : x = <<"free", p>>
      /\ \A x \in ReadyAt(t, i) : x = w /\ \E p : x = <<"ready", p>>
      /\ \A x \in TimerAt(t, i) : x = w /\ \E p : x = <<"timer", p>>
      /\ \A x \in HeldAt(t, i) : x = w /\ \E p : x = <<"held", p>>
  BY <1>1 DEF Where, FreeAt, ReadyAt, TimerAt, HeldAt, Marks
<1>8. w \in FreeAt(t, i) \cup ReadyAt(t, i) \cup TimerAt(t, i) \cup HeldAt(t, i)
  BY <1>1 DEF Where
<1> HIDE DEF F, R, T, H
<1>9. CASE w \in FreeAt(t, i)
  <2>1. /\ FreeAt(t, i) = {w} /\ ReadyAt(t, i) = {} /\ TimerAt(t, i) = {}
        /\ HeldAt(t, i) = {}
    BY <1>7, <1>9
  <2> QED
    BY <1>2, <1>3, <1>4, <1>5, <1>6, <2>1
<1>10. CASE w \in ReadyAt(t, i)
  <2>1. /\ FreeAt(t, i) = {} /\ ReadyAt(t, i) = {w} /\ TimerAt(t, i) = {}
        /\ HeldAt(t, i) = {}
    BY <1>7, <1>10
  <2> QED
    BY <1>2, <1>3, <1>4, <1>5, <1>6, <2>1
<1>11. CASE w \in TimerAt(t, i)
  <2>1. /\ FreeAt(t, i) = {} /\ ReadyAt(t, i) = {} /\ TimerAt(t, i) = {w}
        /\ HeldAt(t, i) = {}
    BY <1>7, <1>11
  <2> QED
    BY <1>2, <1>3, <1>4, <1>5, <1>6, <2>1
<1>12. CASE w \in HeldAt(t, i)
  <2>1. /\ FreeAt(t, i) = {} /\ ReadyAt(t, i) = {} /\ TimerAt(t, i) = {}
        /\ HeldAt(t, i) = {w}
    BY <1>7, <1>12
  <2> QED
    BY <1>2, <1>3, <1>4, <1>5, <1>6, <2>1
<1> QED
  BY <1>8, <1>9, <1>10, <1>11, <1>12

-----------------------------------------------------------------------------

LEMMA AlwaysIInv == ASSUME SendersExcluded PROVE Spec => []IInv
<1>1. IInv /\ [Next]_vars => IInv'
  BY SendersExcluded, SlotsInductive
<1> QED
  BY <1>1, InitSlots, PTL DEF Spec

(* Counters of the queues stay below twice the sizes, entries of the timer *)
(* queue are slots of their tasks, and indices fit in a u8.                *)
THEOREM QueuesTyped == ASSUME SendersExcluded PROVE Spec => []TypeOK
<1>1. IInv => TypeOK
  BY DEF IInv
<1> QED
  BY <1>1, SendersExcluded, AlwaysIInv, PTL

(* The slots of an inbox are neither lost nor doubled: where the ceilings  *)
(* exclude the senders of each level from each other, every slot is in     *)
(* exactly one place, between any two accesses to the queues.              *)
THEOREM SlotsKept == ASSUME SendersExcluded PROVE Spec => []SlotsConserved
<1>1. IInv => SlotsConserved
  BY OnePlace DEF SlotsConserved
<1> QED
  BY <1>1, SendersExcluded, AlwaysIInv, PTL

(* enqueue_unchecked, which does not look, has room: whoever enqueues      *)
(* holds a slot that is not in the queue.                                  *)
THEOREM RoomKept == ASSUME SendersExcluded PROVE Spec => []RoomLeft
<1>1. ASSUME IInv PROVE RoomLeft
  <2> SUFFICES ASSUME NEW c \in active
               PROVE  /\ pc[c] \in {"posting", "publishing"} =>
                            Filled(ready[Home[op[c].task]]) < ReadySize[Home[op[c].task]]
                      /\ pc[c] \in {"freeing", "freed"} =>
                            Filled(free[op[c].task]) < FreeSize[op[c].task]
    BY DEF RoomLeft
  <2>1. c \in Contexts
    BY <1>1 DEF IInv, TypeOK
  <2>2. pc[c] \in {"posting", "publishing"} =>
           Filled(ready[Home[op[c].task]]) < ReadySize[Home[op[c].task]]
    BY <1>1, <2>1, RoomReady DEF IInv, Holds
  <2>3. pc[c] \in {"freeing", "freed"} => Filled(free[op[c].task]) < FreeSize[op[c].task]
    BY <1>1, <2>1, RoomFree DEF IInv, Holds
  <2> QED
    BY <2>2, <2>3
<1> QED
  BY <1>1, SendersExcluded, AlwaysIInv, PTL
=============================================================================
