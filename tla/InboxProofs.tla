----------------------------- MODULE InboxProofs -----------------------------
(***************************************************************************)
(* Dispatch implements Inbox: where ready queues exclude their senders,    *)
(* every message that spawn or schedule takes is handed to its task once,  *)
(* with its input and, within a level, in order.                           *)
(***************************************************************************)
EXTENDS DispatchProofs, SequenceTheorems

(* The state of the inbox (module Inbox) that Box puts together.           *)
Letters == [task : Tasks, from : Bodies]

Queue(d) ==
    [k \in 1..Filled(ready[d]) |->
        Sent(Contents(ready[d])[k][1], Contents(ready[d])[k][2])]

Timed(m) == Cardinality({x \in timers : Sent(x[1], x[2]) = m})

Underway == [t \in Tasks |-> Capacity[t] - Filled(free[t])]
Offers == [c \in Contexts |-> Offered(c)]
Mail == [d \in Dispatchers |-> Queue(d)]
Hands == [d \in Dispatchers |-> InHand(d)]
Waiting == [m \in Letters |-> Timed(m)]

Bar == <<Underway, Offers, Mail, Hands, Waiting>>

(* A slot has an input from when it is written until it is read, and a     *)
(* context keeps the input outside of that.                                *)
Loads == {"posting", "publishing", "arming", "reading"}

LoadedBy(c, t, i) == pc[c] \in Loads /\ Carries(c, t, i)

Loaded(t, i) ==
    \/ ReadyAt(t, i) # {}
    \/ <<t, i>> \in timers
    \/ \E c \in Contexts : LoadedBy(c, t, i)

InputsOK ==
    /\ IsFiniteSet(timers)
    /\ \A t \in Tasks : \A i \in Slots(t) : Loaded(t, i) => inputs[t][i] \in Bodies
    /\ \A c \in Contexts :
          pc[c] \in {"taking", "writing", "freeing", "freed"} => op[c].input \in Bodies

-----------------------------------------------------------------------------
(* Rings as sequences.                                                     *)

LEMMA IsAppend ==
    ASSUME NEW S, NEW q \in Seq(S), NEW m \in S, NEW n, n = Len(q) + 1,
           NEW p \in [1..n -> S], \A k \in 1..Len(q) : p[k] = q[k], p[n] = m
    PROVE  p = Append(q, m)
<1> DEFINE f == Len(q)
<1>1. f \in Nat
  BY LenProperties
<1>2. p \in Seq(S) /\ Len(p) = f + 1
  BY <1>1
<1>3. /\ Append(q, m) \in Seq(S) /\ Len(Append(q, m)) = f + 1
      /\ \A k \in 1..f : Append(q, m)[k] = q[k]
      /\ Append(q, m)[f + 1] = m
  BY <1>1
<1>4. \A k \in 1..f+1 : k \in 1..f \/ k = f + 1
  BY <1>1
<1>5. \A k \in 1..Len(p) : p[k] = Append(q, m)[k]
  BY <1>2, <1>3, <1>4
<1> QED
  BY <1>2, <1>3, <1>5, SeqEqual

LEMMA IsTail ==
    ASSUME NEW S, NEW q \in Seq(S), NEW n \in Nat, n = Len(q) - 1,
           NEW p \in [1..n -> S], \A k \in 1..n : p[k] = q[k + 1]
    PROVE  q # <<>> /\ Head(q) = q[1] /\ p = Tail(q)
<1>1. q # <<>> /\ Head(q) = q[1]
  BY LenProperties
<1>2. /\ Tail(q) \in Seq(S) /\ Len(Tail(q)) = n
      /\ \A k \in 1..n : Tail(q)[k] = q[k + 1]
  BY <1>1, HeadTailProperties
<1>3. p \in Seq(S) /\ Len(p) = n
  OBVIOUS
<1>4. p = Tail(q)
  BY <1>2, <1>3, SeqEqual
<1> QED
  BY <1>1, <1>4

LEMMA ContentsFacts ==
    ASSUME NEW n \in Nat \ {0}, NEW Items, NEW r, GoodRing(r, n, Items), Filled(r) <= n
    PROVE  /\ Filled(r) \in 0..n
           /\ Contents(r) = [k \in 1..Filled(r) |-> r.buf[Pos(r, n, k)]]
           /\ \A k \in 1..Filled(r) : Pos(r, n, k) \in Live(r, n)
           /\ Filled(r) > 0 => First(r) = Contents(r)[1]
<1>1. Filled(r) \in 0..n /\ r.head % n = Pos(r, n, 1)
  BY LivePositions
<1>2. Size(r) = n
  BY RingFacts
<1>3. Contents(r) = [k \in 1..Filled(r) |-> r.buf[Pos(r, n, k)]]
  BY <1>2 DEF Contents, Pos
<1>4. \A k \in 1..Filled(r) : Pos(r, n, k) \in Live(r, n)
  BY DEF Live
<1>5. Filled(r) > 0 => 1 \in 1..Filled(r)
  BY <1>1
<1>6. First(r) = r.buf[Pos(r, n, 1)]
  BY <1>1, <1>2 DEF First
<1> QED
  BY <1>1, <1>3, <1>4, <1>5, <1>6

LEMMA PutContents ==
    ASSUME NEW n \in Nat \ {0}, NEW Items, NEW r, GoodRing(r, n, Items), Filled(r) < n,
           NEW x \in Items
    PROVE  Contents(Put(r, x)) = Contents(r) /\ Filled(Put(r, x)) = Filled(r)
<1> DEFINE s == Put(r, x)
<1>1. /\ GoodRing(s, n, Items) /\ Filled(s) = Filled(r)
      /\ \A k : Pos(s, n, k) = Pos(r, n, k)
      /\ \A q \in Live(r, n) : s.buf[q] = r.buf[q]
  BY PutRing
<1> HIDE DEF s
<1>2. Filled(r) <= n /\ Filled(s) <= n
  BY <1>1, RingFacts
<1>3. /\ Contents(r) = [k \in 1..Filled(r) |-> r.buf[Pos(r, n, k)]]
      /\ \A k \in 1..Filled(r) : Pos(r, n, k) \in Live(r, n)
  BY <1>2, ContentsFacts
<1>4. Contents(s) = [k \in 1..Filled(s) |-> s.buf[Pos(s, n, k)]]
  BY <1>1, <1>2, ContentsFacts
<1>5. Contents(s) = Contents(r)
  BY <1>1, <1>3, <1>4
<1> QED
  BY <1>1, <1>5 DEF s

LEMMA TailContents ==
    ASSUME NEW n \in Nat \ {0}, NEW Items, NEW r, GoodRing(r, n, Items), Filled(r) < n
    PROVE  LET s == MoveTail(r, r.tail)
               f == Filled(r)
           IN  /\ Filled(s) = f + 1
               /\ \A k \in 1..f : Contents(s)[k] = Contents(r)[k]
               /\ Contents(s)[f + 1] = r.buf[r.tail % n]
<1> DEFINE s == MoveTail(r, r.tail)
           f == Filled(r)
<1>1. /\ GoodRing(s, n, Items) /\ Filled(s) = f + 1 /\ s.buf = r.buf
      /\ \A k : Pos(s, n, k) = Pos(r, n, k)
  BY TailRing
<1>2. f <= n
  BY RingFacts
<1>3. f \in 0..n /\ r.tail % n = Pos(r, n, f + 1)
  BY <1>2, LivePositions
<1> HIDE DEF s, f
<1>4. Filled(s) <= n
  BY <1>1, <1>3 DEF f
<1>5. Contents(r) = [k \in 1..f |-> r.buf[Pos(r, n, k)]]
  BY <1>2, ContentsFacts DEF f
<1>6. Contents(s) = [k \in 1..f+1 |-> s.buf[Pos(s, n, k)]]
  BY <1>1, <1>4, ContentsFacts
<1>7. 1..f \subseteq 1..f+1 /\ f + 1 \in 1..f+1
  BY <1>3
<1>8. \A k \in 1..f : Contents(s)[k] = Contents(r)[k]
  BY <1>1, <1>5, <1>6, <1>7
<1>9. Contents(s)[f + 1] = r.buf[r.tail % n]
  BY <1>1, <1>3, <1>6, <1>7
<1> QED
  BY <1>1, <1>8, <1>9 DEF s, f

LEMMA HeadContents ==
    ASSUME NEW n \in Nat \ {0}, NEW Items, NEW r, GoodRing(r, n, Items),
           Filled(r) > 0, Filled(r) <= n
    PROVE  LET s == MoveHead(r, r.head)
               f == Filled(r)
           IN  /\ Filled(s) = f - 1
               /\ \A k \in 1..f-1 : Contents(s)[k] = Contents(r)[k + 1]
<1> DEFINE s == MoveHead(r, r.head)
           f == Filled(r)
           p == r.head % n
<1>1. /\ GoodRing(s, n, Items) /\ Filled(s) = f - 1
      /\ \A k \in 1..Filled(s) : Pos(s, n, k) = Pos(r, n, k + 1)
      /\ \A q \in 0..n-1 : q # p => s.buf[q] = r.buf[q]
  BY HeadRing, SMTT(10), ZenonT(60)
<1>2. /\ f \in 0..n /\ f > 0 /\ p = Pos(r, n, 1)
      /\ \A k \in 1..n : Pos(r, n, k) \in 0..n-1
      /\ \A j, k \in 1..n : Pos(r, n, j) = Pos(r, n, k) => j = k
  BY LivePositions
<1> HIDE DEF s, p
<1>3. Contents(r) = [k \in 1..f |-> r.buf[Pos(r, n, k)]]
  BY ContentsFacts
<1> HIDE DEF f
<1>4. Filled(s) <= n
  BY <1>1, <1>2
<1>5. Contents(s) = [k \in 1..f-1 |-> s.buf[Pos(s, n, k)]]
  BY <1>1, <1>4, ContentsFacts
<1>6. ASSUME NEW k \in 1..f-1 PROVE Contents(s)[k] = Contents(r)[k + 1]
  <2>1. k + 1 \in 1..f /\ k + 1 \in 1..n /\ 1 \in 1..n /\ k + 1 # 1
    BY <1>2
  <2>2. Pos(r, n, k + 1) # p /\ Pos(r, n, k + 1) \in 0..n-1
    BY <1>2, <2>1, Zenon
  <2>3. Contents(s)[k] = s.buf[Pos(r, n, k + 1)]
    BY <1>1, <1>5
  <2>4. Contents(r)[k + 1] = r.buf[Pos(r, n, k + 1)]
    BY <1>3, <2>1
  <2> QED
    BY <1>1, <2>2, <2>3, <2>4
<1> QED
  BY <1>1, <1>6 DEF s, f

-----------------------------------------------------------------------------
(* What a step of c leaves alone.                                          *)

OwnInput(c) ==
    \A t \in Tasks : \A i \in Slots(t) : ~Holding(c, t, i) => inputs'[t][i] = inputs[t][i]

LEMMA ReadyFacts ==
    ASSUME IInv, NEW d \in Dispatchers
    PROVE  /\ ReadySize[d] \in Nat \ {0} /\ GoodRing(ready[d], ReadySize[d], ReadyItems)
           /\ Filled(ready[d]) <= ReadySize[d]
BY DispatcherFacts DEF IInv, EntriesOK

LEMMA EntryFacts ==
    ASSUME IInv, NEW d \in Dispatchers, NEW k \in 1..Filled(ready[d])
    PROVE  \E t \in Tasks : \E i \in Slots(t) :
              Contents(ready[d])[k] = <<t, i>> /\ Home[t] = d /\ ReadyAt(t, i) # {}
<1> DEFINE r == ready[d]
           n == ReadySize[d]
           x == Contents(r)[k]
<1>1. n \in Nat \ {0} /\ GoodRing(r, n, ReadyItems) /\ Filled(r) <= n
  BY ReadyFacts
<1>2. /\ Contents(r) = [j \in 1..Filled(r) |-> r.buf[Pos(r, n, j)]]
      /\ Pos(r, n, k) \in Live(r, n)
  BY <1>1, ContentsFacts
<1>3. x = r.buf[Pos(r, n, k)]
  BY <1>2
<1>4. x \in Messages(d)
  BY <1>2, <1>3 DEF IInv, EntriesOK
<1>5. PICK t \in Served(d) : x \in {t} \X Slots(t)
  BY <1>4 DEF Messages
<1>6. PICK i \in Slots(t) : x = <<t, i>>
  BY <1>5
<1>7. t \in Tasks /\ Home[t] = d
  BY DEF Served
<1>8. <<"ready", Pos(r, n, k)>> \in ReadyAt(t, i)
  BY <1>2, <1>3, <1>6, <1>7 DEF ReadyAt, Marks
<1> QED
  BY <1>6, <1>7, <1>8

LEMMA Unheld ==
    ASSUME IInv, NEW c \in Contexts, NEW t \in Tasks, NEW i \in Slots(t),
           \/ ReadyAt(t, i) # {} \/ <<t, i>> \in timers
           \/ \E b \in Contexts \ {c} : Holding(b, t, i)
    PROVE  ~Holding(c, t, i)
<1> SUFFICES ASSUME Holding(c, t, i) PROVE FALSE
  OBVIOUS
<1>1. pc[c] \in Holds /\ op[c].task = t /\ op[c].slot = i
  BY DEF Holding, Holds
<1>2. /\ ReadyAt(t, i) = {} /\ <<t, i>> \notin timers
      /\ \A b \in Contexts : Holding(b, t, i) => b = c
  BY <1>1, OneHolder DEF IInv
<1> QED
  BY <1>2

LEMMA EntryKept ==
    ASSUME IInv, NEW c \in Contexts, OwnInput(c), NEW d \in Dispatchers,
           NEW k \in 1..Filled(ready[d]), NEW x, x = Contents(ready[d])[k]
    PROVE  x[1] \in Tasks /\ inputs'[x[1]][x[2]] = inputs[x[1]][x[2]]
<1>1. PICK t \in Tasks : \E i \in Slots(t) : x = <<t, i>> /\ ReadyAt(t, i) # {}
  BY EntryFacts
<1>2. PICK i \in Slots(t) : x = <<t, i>> /\ ReadyAt(t, i) # {}
  BY <1>1
<1>3. ~Holding(c, t, i)
  BY <1>2, Unheld
<1> QED
  BY <1>2, <1>3 DEF OwnInput

LEMMA QueueType ==
    ASSUME IInv, InputsOK, NEW d \in Dispatchers
    PROVE  Queue(d) \in Seq(Letters) /\ Len(Queue(d)) = Filled(ready[d])
<1>1. Filled(ready[d]) \in Nat
  BY ReadyFacts, ContentsFacts
<1>2. ASSUME NEW k \in 1..Filled(ready[d])
      PROVE  Sent(Contents(ready[d])[k][1], Contents(ready[d])[k][2]) \in Letters
  <2>1. PICK t \in Tasks : \E i \in Slots(t) :
              Contents(ready[d])[k] = <<t, i>> /\ ReadyAt(t, i) # {}
    BY EntryFacts
  <2>2. PICK i \in Slots(t) : Contents(ready[d])[k] = <<t, i>> /\ ReadyAt(t, i) # {}
    BY <2>1
  <2>3. inputs[t][i] \in Bodies
    BY <2>2 DEF InputsOK, Loaded
  <2> QED
    BY <2>2, <2>3 DEF Sent, Letters
<1>3. Queue(d) \in [1..Filled(ready[d]) -> Letters]
  BY <1>2 DEF Queue
<1> QED
  BY <1>1, <1>3

LEMMA QueueNext ==
    ASSUME NEW d \in Dispatchers
    PROVE  Queue(d)' = [k \in 1..Filled(ready'[d]) |->
                          [task |-> Contents(ready'[d])[k][1],
                           from |-> inputs'[Contents(ready'[d])[k][1]][Contents(ready'[d])[k][2]]]]
BY DEF Queue, Sent, Contents, Filled, Size

LEMMA FrameQueue ==
    ASSUME IInv, NEW c \in Contexts, OwnInput(c), NEW d \in Dispatchers,
           Contents(ready'[d]) = Contents(ready[d]), Filled(ready'[d]) = Filled(ready[d])
    PROVE  Queue(d)' = Queue(d)
<1>1. \A k \in 1..Filled(ready[d]) :
         inputs'[Contents(ready[d])[k][1]][Contents(ready[d])[k][2]]
            = inputs[Contents(ready[d])[k][1]][Contents(ready[d])[k][2]]
  BY EntryKept
<1>2. Queue(d)' = [k \in 1..Filled(ready[d]) |->
                     [task |-> Contents(ready[d])[k][1],
                      from |-> inputs'[Contents(ready[d])[k][1]][Contents(ready[d])[k][2]]]]
  BY QueueNext
<1> QED
  BY <1>1, <1>2 DEF Queue, Sent

LEMMA TimerKept ==
    ASSUME IInv, NEW c \in Contexts, OwnInput(c), NEW x \in timers
    PROVE  x[1] \in Tasks /\ inputs'[x[1]][x[2]] = inputs[x[1]][x[2]]
<1>1. PICK t \in Tasks : x \in {t} \X Slots(t)
  BY DEF IInv, EntriesOK, ScheduledTasks
<1>2. PICK i \in Slots(t) : x = <<t, i>>
  BY <1>1
<1>3. ~Holding(c, t, i)
  BY <1>2, Unheld
<1> QED
  BY <1>2, <1>3 DEF OwnInput

LEMMA FrameTimed ==
    ASSUME IInv, NEW c \in Contexts, OwnInput(c), timers' = timers
    PROVE  Waiting' = Waiting
<1>1. \A x \in timers : inputs'[x[1]][x[2]] = inputs[x[1]][x[2]]
  BY TimerKept
<1>2. \A x \in timers : Sent(x[1], x[2])' = Sent(x[1], x[2])
  BY <1>1 DEF Sent
<1>3. \A m : {x \in timers : Sent(x[1], x[2]) = m}' = {x \in timers : Sent(x[1], x[2]) = m}
  BY <1>2
<1>4. \A m : Timed(m)' = Timed(m)
  BY <1>3 DEF Timed
<1> QED
  BY <1>4 DEF Waiting

LEMMA FrameOther ==
    ASSUME IInv, NEW c \in Contexts, OwnInput(c), OnlyMoves(c), NEW b \in Contexts, b # c
    PROVE  Offered(b)' = Offered(b) /\ InHand(b)' = InHand(b)
<1>1. pc'[b] = pc[b] /\ op'[b] = op[b]
  BY DEF OnlyMoves
<1>2. pc[b] \in {"posting", "publishing", "arming", "reading"} =>
         inputs'[op[b].task][op[b].slot] = inputs[op[b].task][op[b].slot]
  <2> SUFFICES ASSUME pc[b] \in {"posting", "publishing", "arming", "reading"}
               PROVE  inputs'[op[b].task][op[b].slot] = inputs[op[b].task][op[b].slot]
    OBVIOUS
  <2>1. PICK t : t = op[b].task
    OBVIOUS
  <2>2. PICK i : i = op[b].slot
    OBVIOUS
  <2>3. t \in Tasks /\ i \in Slots(t) /\ Holding(b, t, i)
    BY <2>1, <2>2 DEF IInv, LocalsOK, RoleOK, Holds, Holding
  <2>4. ~Holding(c, t, i)
    BY <2>3, Unheld
  <2> QED
    BY <2>1, <2>2, <2>3, <2>4 DEF OwnInput
<1> QED
  BY <1>1, <1>2 DEF Offered, InHand, Sent

(* A step that only moves c, and moves no message, is none of the inbox.   *)
LEMMA Stutter ==
    ASSUME IInv, NEW c \in Contexts, OwnInput(c), OnlyMoves(c), timers' = timers,
           \A t \in Tasks : Filled(free'[t]) = Filled(free[t]),
           \A d \in Dispatchers : /\ Contents(ready'[d]) = Contents(ready[d])
                                  /\ Filled(ready'[d]) = Filled(ready[d]),
           Offered(c)' = Offered(c), InHand(c)' = InHand(c)
    PROVE  Bar' = Bar
<1>1. Underway' = Underway
  <2>1. \A t \in Tasks : Filled(free[t])' = Filled(free[t])
    BY DEF Filled, Size
  <2> QED
    BY <2>1 DEF Underway
<1>2. \A b \in Contexts : Offered(b)' = Offered(b) /\ InHand(b)' = InHand(b)
  BY FrameOther
<1>3. Offers' = Offers /\ Hands' = Hands
  BY <1>2, Names DEF Offers, Hands
<1>4. Mail' = Mail
  BY FrameQueue DEF Mail
<1>5. Waiting' = Waiting
  BY FrameTimed
<1> QED
  BY <1>1, <1>3, <1>4, <1>5 DEF Bar

-----------------------------------------------------------------------------
(* Slots that may be taken have inputs.                                    *)

LEMMA InputsFrame ==
    ASSUME IInv, InputsOK, NEW c \in Contexts, OnlyMoves(c), inputs' = inputs,
           IsFiniteSet(timers'),
           \A t \in Tasks : \A i \in Slots(t) : ReadyAt(t, i)' # {} => Loaded(t, i),
           \A t \in Tasks : \A i \in Slots(t) : <<t, i>> \in timers' => Loaded(t, i),
           \A t \in Tasks : \A i \in Slots(t) : LoadedBy(c, t, i)' => Loaded(t, i),
           pc'[c] \in {"taking", "writing", "freeing", "freed"} => op'[c].input \in Bodies
    PROVE  InputsOK'
<1>1. ASSUME NEW t \in Tasks, NEW i \in Slots(t), NEW b \in Contexts, b # c,
             LoadedBy(b, t, i)'
      PROVE  Loaded(t, i)
  <2>1. LoadedBy(b, t, i)
    BY <1>1 DEF OnlyMoves, LoadedBy, Carries
  <2> QED
    BY <2>1 DEF Loaded
<1>2. ASSUME NEW t \in Tasks, NEW i \in Slots(t), Loaded(t, i)' PROVE Loaded(t, i)
  BY <1>1, <1>2 DEF Loaded
<1>3. \A b \in Contexts :
         pc'[b] \in {"taking", "writing", "freeing", "freed"} => op'[b].input \in Bodies
  BY DEF OnlyMoves, InputsOK
<1>4. \A t \in Tasks : \A i \in Slots(t) : Loaded(t, i)' => inputs'[t][i] \in Bodies
  BY <1>2 DEF InputsOK
<1> QED
  BY <1>3, <1>4 DEF InputsOK

LEMMA ReadyFrame ==
    ASSUME ready' = ready, NEW t, NEW i PROVE ReadyAt(t, i)' = ReadyAt(t, i)
BY ReadyAtSame

LEMMA HeldLoaded ==
    ASSUME NEW c \in Contexts, pc[c] \in Loads, NEW t, NEW i, Carries(c, t, i)
    PROVE  Loaded(t, i)
BY DEF Loaded, LoadedBy

(* Steps that move no entry and load no slot.                              *)
LEMMA InputsQuiet ==
    ASSUME IInv, InputsOK, NEW c \in Contexts, OnlyMoves(c), inputs' = inputs,
           ready' = ready, timers' = timers,
           pc'[c] \in Loads => pc[c] \in Loads /\ op'[c] = op[c],
           pc'[c] \in {"taking", "writing", "freeing", "freed"} => op'[c].input \in Bodies
    PROVE  InputsOK'
<1>1. ASSUME NEW t \in Tasks, NEW i \in Slots(t) PROVE ReadyAt(t, i)' # {} => Loaded(t, i)
  BY ReadyFrame DEF Loaded
<1>2. ASSUME NEW t \in Tasks, NEW i \in Slots(t) PROVE LoadedBy(c, t, i)' => Loaded(t, i)
  BY DEF Loaded, LoadedBy, Carries
<1>3. \A t \in Tasks : \A i \in Slots(t) : <<t, i>> \in timers' => Loaded(t, i)
  BY DEF Loaded
<1>4. IsFiniteSet(timers')
  BY DEF InputsOK
<1> QED
  BY <1>1, <1>2, <1>3, <1>4, InputsFrame

LEMMA CallInputs ==
    ASSUME IInv, InputsOK, NEW c \in Contexts, NEW t \in Tasks, Call(c, t) PROVE InputsOK'
<1> USE ShapesHold DEF Shapes
<1>1. /\ pc'[c] = "taking" /\ ready' = ready /\ timers' = timers /\ inputs' = inputs
      /\ body[c] # "loop" /\ op'[c].input = body[c]
  BY AtFacts DEF Call, Goto
<1>2. OnlyMoves(c)
  BY DEF Call, Goto, OnlyMoves
<1>3. body[c] \in Bodies
  BY <1>1 DEF IInv, TypeOK
<1> QED
  BY <1>1, <1>2, <1>3, InputsQuiet DEF Loads

LEMMA TakenInputs == ASSUME IInv, InputsOK, NEW c \in Contexts, Taken(c) PROVE InputsOK'
<1> USE ShapesHold DEF Shapes
<1>1. /\ pc[c] = "taking" /\ pc'[c] = "writing" /\ op' = op
      /\ ready' = ready /\ timers' = timers /\ inputs' = inputs
  BY AtFacts DEF Taken, Goto
<1>2. OnlyMoves(c)
  BY DEF Taken, Goto, OnlyMoves
<1>3. op[c].input \in Bodies
  BY <1>1 DEF InputsOK
<1> QED
  BY <1>1, <1>2, <1>3, InputsQuiet DEF Loads

LEMMA PendInputs == ASSUME IInv, InputsOK, NEW c \in Contexts, Pend(c) PROVE InputsOK'
<1> USE ShapesHold DEF Shapes
<1>1. pc'[c] = "body" /\ ready' = ready /\ timers' = timers /\ inputs' = inputs
  BY AtFacts DEF Pend, Goto
<1>2. OnlyMoves(c)
  BY DEF Pend, Goto, OnlyMoves
<1> QED
  BY <1>1, <1>2, InputsQuiet DEF Loads

LEMMA PollInputs == ASSUME IInv, InputsOK, NEW d \in Contexts, Poll(d) PROVE InputsOK'
<1> USE ShapesHold DEF Shapes
<1>1. /\ pc'[d] \in {"leaving", "taken"}
      /\ ready' = ready /\ timers' = timers /\ inputs' = inputs
  BY AtFacts DEF Poll, Goto
<1>2. OnlyMoves(d)
  BY DEF Poll, Goto, OnlyMoves
<1> QED
  BY <1>1, <1>2, InputsQuiet DEF Loads

LEMMA FreeInputs == ASSUME IInv, InputsOK, NEW d \in Contexts, Free(d) PROVE InputsOK'
<1> USE ShapesHold DEF Shapes
<1>1. /\ pc[d] = "freeing" /\ pc'[d] = "freed"
      /\ ready' = ready /\ timers' = timers /\ inputs' = inputs
  BY AtFacts DEF Free, Goto
<1>2. OnlyMoves(d)
  BY DEF Free, Goto, OnlyMoves
<1>3. op'[d].input = op[d].input
  <2>1. op[d] = [task |-> op[d].task, slot |-> op[d].slot,
                 at |-> op[d].at, input |-> op[d].input]
    OBVIOUS
  <2>2. \E x : op'[d] = [op[d] EXCEPT !.at = x]
    BY DEF Free
  <2> QED
    BY <2>1, <2>2
<1>4. op[d].input \in Bodies
  BY <1>1 DEF InputsOK
<1> QED
  BY <1>1, <1>2, <1>3, <1>4, InputsQuiet DEF Loads

LEMMA RunInputs == ASSUME IInv, InputsOK, NEW d \in Contexts, Run(d) PROVE InputsOK'
<1> USE ShapesHold DEF Shapes
<1>1. pc'[d] = "body" /\ ready' = ready /\ timers' = timers /\ inputs' = inputs
  BY AtFacts DEF Run, Goto
<1>2. OnlyMoves(d)
  BY DEF Run, Goto, OnlyMoves
<1> QED
  BY <1>1, <1>2, InputsQuiet DEF Loads

LEMMA ControlInputs ==
    ASSUME IInv, InputsOK, ready' = ready, inputs' = inputs, timers' = timers, op' = op,
           \A b \in Contexts :
              \/ pc'[b] = pc[b]
              \/ pc[b] \in {"body", "leaving"} /\ pc'[b] \in {"body", "leaving"}
    PROVE  InputsOK'
<1>1. \A b \in Contexts : \A t, i : LoadedBy(b, t, i)' => LoadedBy(b, t, i)
  BY DEF LoadedBy, Loads, Carries
<1>2. \A t \in Tasks : \A i \in Slots(t) : Loaded(t, i)' => Loaded(t, i)
  BY <1>1, ReadyFrame DEF Loaded
<1> QED
  BY <1>2 DEF InputsOK

LEMMA WriteInputs ==
    ASSUME IInv, InputsOK, NEW c \in Contexts, Write(c), NEW t0, NEW i0, Carries(c, t0, i0)
    PROVE  InputsOK'
<1> USE ShapesHold DEF Shapes
<1>1. /\ pc[c] = "writing" /\ pc'[c] \in Loads /\ op' = op
      /\ ready' = ready /\ timers' = timers
      /\ inputs' = [inputs EXCEPT ![t0][i0] = op[c].input]
  BY AtFacts DEF Write, Goto, Carries, Loads
<1>2. OnlyMoves(c)
  BY DEF Write, Goto, OnlyMoves
<1>3. op[c].input \in Bodies
  BY <1>1 DEF InputsOK
<1>4. t0 \in Tasks /\ i0 \in Slots(t0) /\ inputs[t0] \in [Slots(t0) -> Bodies \cup {Nothing}]
  BY <1>1 DEF IInv, TypeOK, LocalsOK, RoleOK, Holds, Carries
<1>5. ASSUME NEW t \in Tasks, NEW i \in Slots(t), Loaded(t, i)'
      PROVE  inputs'[t][i] \in Bodies
  <2>1. CASE t = t0 /\ i = i0
    BY <1>1, <1>3, <1>4, <2>1
  <2>2. CASE ~(t = t0 /\ i = i0)
    <3>1. ~LoadedBy(c, t, i)'
      BY <1>1, <2>2 DEF LoadedBy, Carries
    <3>2. \A b \in Contexts \ {c} : LoadedBy(b, t, i)' => LoadedBy(b, t, i)
      BY <1>2 DEF OnlyMoves, LoadedBy, Carries
    <3>3. Loaded(t, i)
      BY <1>1, <1>5, <3>1, <3>2, ReadyFrame DEF Loaded
    <3>4. inputs'[t][i] = inputs[t][i]
      BY <1>1, <1>4, <2>2
    <3> QED
      BY <3>3, <3>4 DEF InputsOK
  <2> QED
    BY <2>1, <2>2
<1>6. \A b \in Contexts :
         pc'[b] \in {"taking", "writing", "freeing", "freed"} => op'[b].input \in Bodies
  BY <1>1, <1>2 DEF OnlyMoves, InputsOK, Loads
<1> QED
  BY <1>1, <1>5, <1>6 DEF InputsOK

(* The slot read from is loaded no more.                                   *)
LEMMA ReadInputs ==
    ASSUME IInv, InputsOK, NEW d \in Contexts, Read(d), NEW t0, NEW i0, Carries(d, t0, i0)
    PROVE  /\ InputsOK'
           /\ t0 \in Tasks /\ i0 \in Slots(t0) /\ inputs[t0][i0] \in Bodies
           /\ op'[d].input = inputs[t0][i0] /\ Carries(d, t0, i0)'
           /\ OnlyMoves(d) /\ OwnInput(d)
<1> USE ShapesHold DEF Shapes
<1>1. /\ pc[d] = "reading" /\ pc'[d] = "freeing"
      /\ ready' = ready /\ timers' = timers
      /\ inputs' = [inputs EXCEPT ![t0][i0] = Nothing]
      /\ op' = [op EXCEPT ![d].input = inputs[t0][i0]]
  BY AtFacts DEF Read, Goto, Carries
<1>2. OnlyMoves(d)
  BY DEF Read, Goto, OnlyMoves
<1>3. /\ t0 \in Tasks /\ i0 \in Slots(t0)
      /\ inputs[t0] \in [Slots(t0) -> Bodies \cup {Nothing}]
  BY <1>1 DEF IInv, TypeOK, LocalsOK, RoleOK, Holds, Carries
<1>4. inputs[t0][i0] \in Bodies
  BY <1>1, <1>3, HeldLoaded DEF InputsOK, Loads
<1>5. op'[d].input = inputs[t0][i0] /\ op'[d].task = t0 /\ op'[d].slot = i0
  <2>1. op[d] = [task |-> op[d].task, slot |-> op[d].slot,
                 at |-> op[d].at, input |-> op[d].input]
    OBVIOUS
  <2>2. op'[d] = [op[d] EXCEPT !.input = inputs[t0][i0]]
    BY <1>1
  <2> QED
    BY <2>1, <2>2 DEF Carries
<1>6. OwnInput(d)
  BY <1>1, <1>3 DEF OwnInput, Holding, Carries
<1>7. ASSUME NEW t \in Tasks, NEW i \in Slots(t), Loaded(t, i)'
      PROVE  inputs'[t][i] \in Bodies
  <2>1. /\ ReadyAt(t0, i0) = {} /\ <<t0, i0>> \notin timers
        /\ \A b \in Contexts : Holding(b, t0, i0) => b = d
    BY <1>1, OneHolder DEF IInv, Holds, Carries
  <2>2. \A b \in Contexts : LoadedBy(b, t, i)' => b # d /\ LoadedBy(b, t, i)
    BY <1>1, <1>2 DEF OnlyMoves, LoadedBy, Carries, Loads
  <2>3. \A b \in Contexts : LoadedBy(b, t, i) => Holding(b, t, i)
    BY DEF LoadedBy, Loads, Carries, Holding
  <2>4. CASE t = t0 /\ i = i0
    BY <1>1, <1>7, <2>1, <2>2, <2>3, <2>4, ReadyFrame DEF Loaded
  <2>5. CASE ~(t = t0 /\ i = i0)
    <3>1. Loaded(t, i)
      BY <1>1, <1>7, <2>2, ReadyFrame DEF Loaded
    <3>2. inputs'[t][i] = inputs[t][i]
      BY <1>1, <1>3, <2>5
    <3> QED
      BY <3>1, <3>2 DEF InputsOK
  <2> QED
    BY <2>4, <2>5
<1>8. \A b \in Contexts :
         pc'[b] \in {"taking", "writing", "freeing", "freed"} => op'[b].input \in Bodies
  BY <1>2, <1>4, <1>5 DEF OnlyMoves, InputsOK
<1>9. InputsOK'
  BY <1>1, <1>7, <1>8 DEF InputsOK
<1> QED
  BY <1>2, <1>3, <1>4, <1>5, <1>6, <1>9 DEF Carries

LEMMA ArmInputs ==
    ASSUME IInv, InputsOK, NEW c \in Contexts, Arm(c), NEW t0, NEW i0, Carries(c, t0, i0)
    PROVE  InputsOK'
<1> USE ShapesHold DEF Shapes
<1>1. /\ pc[c] = "arming" /\ pc'[c] = "body"
      /\ ready' = ready /\ inputs' = inputs /\ timers' = timers \cup {<<t0, i0>>}
  BY AtFacts DEF Arm, Goto, Carries
<1>2. OnlyMoves(c)
  BY DEF Arm, Goto, OnlyMoves
<1>3. Loaded(t0, i0)
  BY <1>1, HeldLoaded DEF Loads
<1>4. \A t \in Tasks : \A i \in Slots(t) : <<t, i>> \in timers' => Loaded(t, i)
  BY <1>1, <1>3 DEF Loaded
<1>5. \A t \in Tasks : \A i \in Slots(t) : ReadyAt(t, i)' # {} => Loaded(t, i)
  BY <1>1, ReadyFrame DEF Loaded
<1>6. IsFiniteSet(timers')
  BY <1>1, FS_AddElement DEF InputsOK
<1> QED
  BY <1>1, <1>2, <1>4, <1>5, <1>6, InputsFrame DEF LoadedBy, Loads

LEMMA FireInputs ==
    ASSUME IInv, InputsOK, NEW t0 \in Tasks, NEW i0 \in Slots(t0), Fire(<<t0, i0>>)
    PROVE  InputsOK'
<1> USE ShapesHold DEF Shapes
<1> DEFINE c == "SysTick"
<1>1. /\ pc[c] = "body" /\ pc'[c] = "posting" /\ c \in Contexts
      /\ ready' = ready /\ inputs' = inputs
      /\ <<t0, i0>> \in timers /\ timers' = timers \ {<<t0, i0>>}
      /\ op'[c].task = t0 /\ op'[c].slot = i0
  BY AtFacts DEF Fire, Goto, Idle
<1>2. OnlyMoves(c)
  BY DEF Fire, Goto, OnlyMoves
<1> HIDE DEF c
<1>3. \A t \in Tasks : \A i \in Slots(t) : <<t, i>> \in timers' => Loaded(t, i)
  BY <1>1 DEF Loaded
<1>4. \A t \in Tasks : \A i \in Slots(t) : ReadyAt(t, i)' # {} => Loaded(t, i)
  BY <1>1, ReadyFrame DEF Loaded
<1>5. \A t \in Tasks : \A i \in Slots(t) : LoadedBy(c, t, i)' => Loaded(t, i)
  BY <1>1 DEF LoadedBy, Carries, Loaded
<1>6. IsFiniteSet(timers')
  BY <1>1, FS_RemoveElement DEF InputsOK
<1> QED
  BY <1>1, <1>2, <1>3, <1>4, <1>5, <1>6, InputsFrame

(* The steps on the ready queues.                                          *)
LEMMA PostFacts ==
    ASSUME IInv, NEW c \in Contexts, Post(c), NEW t0, NEW i0, Carries(c, t0, i0)
    PROVE  /\ pc[c] = "posting" /\ pc'[c] = "publishing" /\ OnlyMoves(c)
           /\ free' = free /\ inputs' = inputs /\ timers' = timers
           /\ op'[c].task = op[c].task /\ op'[c].slot = op[c].slot
           /\ \A d \in Dispatchers : /\ Contents(ready'[d]) = Contents(ready[d])
                                     /\ Filled(ready'[d]) = Filled(ready[d])
           /\ \A t \in Tasks : \A i : ReadyAt(t, i)' = ReadyAt(t, i)
<1> USE ShapesHold DEF Shapes
<1>0. PICK d0 : d0 = Home[t0]
  OBVIOUS
<1> DEFINE n == ReadySize[d0]
           x0 == <<t0, i0>>
<1>1. /\ pc[c] = "posting" /\ pc'[c] = "publishing"
      /\ free' = free /\ inputs' = inputs /\ timers' = timers
      /\ ready' = [ready EXCEPT ![d0] = Put(@, x0)]
      /\ op' = [op EXCEPT ![c].at = ready[d0].tail]
  BY <1>0, AtFacts DEF Post, Goto, Carries
<1>2. OnlyMoves(c)
  BY DEF Post, Goto, OnlyMoves
<1>3. t0 \in Tasks /\ i0 \in Slots(t0) /\ d0 \in Dispatchers
  BY <1>0, <1>1, Names DEF IInv, LocalsOK, RoleOK, Holds, Carries
<1>4. op'[c].task = op[c].task /\ op'[c].slot = op[c].slot
  <2>1. op[c] = [task |-> op[c].task, slot |-> op[c].slot,
                 at |-> op[c].at, input |-> op[c].input]
    OBVIOUS
  <2>2. op'[c] = [op[c] EXCEPT !.at = ready[d0].tail]
    BY <1>1
  <2> QED
    BY <2>1, <2>2
<1>5. /\ n \in Nat \ {0} /\ GoodRing(ready[d0], n, ReadyItems) /\ x0 \in ReadyItems
  <2>1. i0 \in 0..255
    BY <1>3, TaskFacts DEF IInv
  <2> QED
    BY <1>3, <2>1, DispatcherFacts DEF IInv, ReadyItems
<1>6. Filled(ready[d0]) < n
  <2>1. pc[c] \in Holds
    BY <1>1 DEF Holds
  <2>2. Filled(ready[Home[op[c].task]]) < ReadySize[Home[op[c].task]]
    BY <2>1, RoomReady DEF IInv
  <2> QED
    BY <1>0, <2>2 DEF Carries
<1>7. ready'[d0] = Put(ready[d0], x0) /\ \A d \in Dispatchers \ {d0} : ready'[d] = ready[d]
  BY <1>1, <1>3
<1> HIDE DEF n, x0
<1>8. /\ Contents(ready'[d0]) = Contents(ready[d0])
      /\ Filled(ready'[d0]) = Filled(ready[d0])
  BY <1>5, <1>6, <1>7, PutContents
<1>9. ASSUME NEW t \in Tasks, NEW i PROVE ReadyAt(t, i)' = ReadyAt(t, i)
  <2>1. CASE Home[t] = d0
    <3>1. Marks("ready", Put(ready[d0], x0), n, <<t, i>>) =
             Marks("ready", ready[d0], n, <<t, i>>)
      BY <1>5, <1>6, MarksPut
    <3> QED
      BY <1>7, <2>1, <3>1 DEF ReadyAt, n
  <2>2. CASE Home[t] # d0
    BY <1>7, <2>2, ReadyAtSame, Names
  <2> QED
    BY <2>1, <2>2
<1> QED
  BY <1>1, <1>2, <1>4, <1>7, <1>8, <1>9

(* A message that enters a ready queue leaves the marks of the others.      *)
LEMMA ReadyTailOther ==
    ASSUME NEW n \in Nat \ {0}, NEW r, GoodRing(r, n, ReadyItems), Filled(r) < n
    PROVE  \A t, i : r.buf[r.tail % n] # <<t, i>> =>
              Marks("ready", MoveTail(r, r.tail), n, <<t, i>>) = Marks("ready", r, n, <<t, i>>)
BY MarksTailOther

LEMMA PublishFacts ==
    ASSUME IInv, NEW c \in Contexts, Publish(c), NEW t0, NEW i0, Carries(c, t0, i0),
           NEW d0, d0 = Home[t0]
    PROVE  /\ pc[c] = "publishing" /\ pc'[c] = "pending" /\ OnlyMoves(c)
           /\ free' = free /\ inputs' = inputs /\ timers' = timers
           /\ t0 \in Tasks /\ i0 \in Slots(t0) /\ d0 \in Dispatchers
           /\ \A d \in Dispatchers \ {d0} : ready'[d] = ready[d]
           /\ Filled(ready'[d0]) = Filled(ready[d0]) + 1
           /\ \A k \in 1..Filled(ready[d0]) : Contents(ready'[d0])[k] = Contents(ready[d0])[k]
           /\ Contents(ready'[d0])[Filled(ready[d0]) + 1] = <<t0, i0>>
           /\ \A t \in Tasks : \A i : <<t, i>> # <<t0, i0>> => ReadyAt(t, i)' = ReadyAt(t, i)
<1> USE ShapesHold DEF Shapes
<1> DEFINE n == ReadySize[d0]
           p == ready[d0].tail % n
<1>1. /\ pc[c] = "publishing" /\ pc'[c] = "pending"
      /\ free' = free /\ inputs' = inputs /\ timers' = timers
      /\ ready' = [ready EXCEPT ![d0] = MoveTail(@, op[c].at)]
  BY AtFacts DEF Publish, Goto, Carries
<1>2. OnlyMoves(c)
  BY DEF Publish, Goto, OnlyMoves
<1>3. /\ t0 \in Tasks /\ i0 \in Slots(t0) /\ d0 \in Dispatchers
      /\ op[c].at = ready[d0].tail /\ ready[d0].buf[p] = <<t0, i0>>
  BY <1>1, Names, ZenonT(30) DEF IInv, LocalsOK, RoleOK, EndsOK, PublishingOK, Holds, Carries
<1>4. /\ ready'[d0] = MoveTail(ready[d0], ready[d0].tail)
      /\ \A d \in Dispatchers \ {d0} : ready'[d] = ready[d]
  BY <1>1, <1>3, ZenonT(40)
<1>5. n \in Nat \ {0} /\ GoodRing(ready[d0], n, ReadyItems)
  BY <1>3, DispatcherFacts, ZenonT(30) DEF IInv
<1>6. Filled(ready[d0]) < n
  <2>1. pc[c] \in Holds
    BY <1>1 DEF Holds
  <2>2. Filled(ready[Home[op[c].task]]) < ReadySize[Home[op[c].task]]
    BY <2>1, RoomReady DEF IInv
  <2> QED
    BY <1>3, <2>2, ZenonT(30) DEF Carries
<1> HIDE DEF n
<1>7. /\ Filled(ready'[d0]) = Filled(ready[d0]) + 1
      /\ \A k \in 1..Filled(ready[d0]) : Contents(ready'[d0])[k] = Contents(ready[d0])[k]
      /\ Contents(ready'[d0])[Filled(ready[d0]) + 1] = ready[d0].buf[p]
  BY <1>4, <1>5, <1>6, TailContents
<1> HIDE ShapesHold DEF p, Shapes
<1>9. \A t, i : ready[d0].buf[ready[d0].tail % n] # <<t, i>> =>
              Marks("ready", MoveTail(ready[d0], ready[d0].tail), n, <<t, i>>) =
                 Marks("ready", ready[d0], n, <<t, i>>)
  BY <1>5, <1>6, ReadyTailOther, ZenonT(40)
<1>8. ASSUME NEW t \in Tasks, NEW i, <<t, i>> # <<t0, i0>> PROVE ReadyAt(t, i)' = ReadyAt(t, i)
  <2>1. CASE Home[t] = d0
    <3>0. ready[d0].buf[p] # <<t, i>>
      BY <1>3, <1>8, ZenonT(40)
    <3>1. ready[d0].buf[ready[d0].tail % n] # <<t, i>>
      BY <3>0, ZenonT(40) DEF p
    <3>2. Marks("ready", MoveTail(ready[d0], ready[d0].tail), n, <<t, i>>) =
             Marks("ready", ready[d0], n, <<t, i>>)
      BY <1>9, <3>1, ZenonT(40)
    <3> QED
      BY <1>4, <2>1, <3>2 DEF ReadyAt, n
  <2>2. CASE Home[t] # d0
    BY <1>4, <2>2, ReadyAtSame, Names
  <2> QED
    BY <2>1, <2>2
<1> QED
  BY <1>1, <1>2, <1>3, <1>4, <1>7, <1>8

LEMMA RemoveFacts ==
    ASSUME IInv, NEW c \in Dispatchers, Remove(c), NEW t0, NEW i0, Carries(c, t0, i0)
    PROVE  /\ c \in Contexts /\ pc[c] = "taken" /\ pc'[c] = "reading" /\ OnlyMoves(c)
           /\ free' = free /\ inputs' = inputs /\ timers' = timers /\ op' = op
           /\ \A d \in Dispatchers \ {c} : ready'[d] = ready[d]
           /\ Filled(ready[c]) > 0 /\ Contents(ready[c])[1] = <<t0, i0>>
           /\ Filled(ready'[c]) = Filled(ready[c]) - 1
           /\ \A k \in 1..Filled(ready[c])-1 :
                 Contents(ready'[c])[k] = Contents(ready[c])[k + 1]
           /\ t0 \in Tasks /\ Home[t0] = c /\ ReadyAt(t0, i0) # {}
           /\ \A t \in Tasks : \A i : ReadyAt(t, i)' \subseteq ReadyAt(t, i)
<1> USE ShapesHold DEF Shapes
<1> DEFINE n == ReadySize[c]
<1>1. /\ pc[c] = "taken" /\ pc'[c] = "reading" /\ c \in Contexts
      /\ free' = free /\ inputs' = inputs /\ timers' = timers /\ op' = op
      /\ ready' = [ready EXCEPT ![c] = MoveHead(@, op[c].at)]
  BY AtFacts DEF Remove, Goto
<1>2. OnlyMoves(c)
  BY DEF Remove, Goto, OnlyMoves
<1>3. /\ <<t0, i0>> = First(ready[c]) /\ op[c].at = ready[c].head /\ Filled(ready[c]) > 0
  BY <1>1 DEF IInv, LocalsOK, EndsOK, TakenOK, Carries
<1>4. /\ ready'[c] = MoveHead(ready[c], ready[c].head)
      /\ \A d \in Dispatchers \ {c} : ready'[d] = ready[d]
  BY <1>1, <1>3
<1>5. n \in Nat \ {0} /\ GoodRing(ready[c], n, ReadyItems) /\ Filled(ready[c]) <= n
  BY ReadyFacts
<1> HIDE DEF n
<1>6. First(ready[c]) = Contents(ready[c])[1]
  BY <1>3, <1>5, ContentsFacts
<1>7. /\ Filled(ready'[c]) = Filled(ready[c]) - 1
      /\ \A k \in 1..Filled(ready[c])-1 : Contents(ready'[c])[k] = Contents(ready[c])[k + 1]
  BY <1>3, <1>4, <1>5, HeadContents
<1>8. t0 \in Tasks /\ Home[t0] = c /\ ReadyAt(t0, i0) # {}
  <2>1. 1 \in 1..Filled(ready[c])
    BY <1>3, <1>5, ContentsFacts
  <2>2. PICK t \in Tasks : \E i \in Slots(t) :
              Contents(ready[c])[1] = <<t, i>> /\ Home[t] = c /\ ReadyAt(t, i) # {}
    BY <2>1, EntryFacts
  <2> QED
    BY <1>3, <1>6, <2>2
<1>9. ASSUME NEW t \in Tasks, NEW i PROVE ReadyAt(t, i)' \subseteq ReadyAt(t, i)
  <2>1. CASE Home[t] = c
    <3>1. Marks("ready", MoveHead(ready[c], ready[c].head), n, <<t, i>>) =
             Marks("ready", ready[c], n, <<t, i>>) \ {<<"ready", ready[c].head % n>>}
      BY <1>3, <1>5, MarksHead
    <3> QED
      BY <1>4, <2>1, <3>1 DEF ReadyAt, n
  <2>2. CASE Home[t] # c
    BY <1>4, <2>2, ReadyAtSame, Names
  <2> QED
    BY <2>1, <2>2
<1> QED
  BY <1>1, <1>2, <1>3, <1>4, <1>6, <1>7, <1>8, <1>9

LEMMA PostInputs ==
    ASSUME IInv, InputsOK, NEW c \in Contexts, Post(c), NEW t0, NEW i0, Carries(c, t0, i0)
    PROVE  InputsOK'
<1>1. /\ pc[c] = "posting" /\ pc'[c] = "publishing" /\ OnlyMoves(c)
      /\ inputs' = inputs /\ timers' = timers
      /\ op'[c].task = op[c].task /\ op'[c].slot = op[c].slot
      /\ \A t \in Tasks : \A i : ReadyAt(t, i)' = ReadyAt(t, i)
  BY PostFacts
<1>2. \A t \in Tasks : \A i \in Slots(t) : LoadedBy(c, t, i)' => Loaded(t, i)
  BY <1>1 DEF LoadedBy, Carries, Loaded, Loads
<1>3. IsFiniteSet(timers')
  BY <1>1 DEF InputsOK
<1>4. \A t \in Tasks : \A i \in Slots(t) : <<t, i>> \in timers' => Loaded(t, i)
  BY <1>1 DEF Loaded
<1>5. \A t \in Tasks : \A i \in Slots(t) : ReadyAt(t, i)' # {} => Loaded(t, i)
  BY <1>1 DEF Loaded
<1> QED
  BY <1>1, <1>2, <1>3, <1>4, <1>5, InputsFrame

LEMMA PublishInputs ==
    ASSUME IInv, InputsOK, NEW c \in Contexts, Publish(c), NEW t0, NEW i0, Carries(c, t0, i0)
    PROVE  InputsOK'
<1>1. /\ pc[c] = "publishing" /\ pc'[c] = "pending" /\ OnlyMoves(c)
      /\ inputs' = inputs /\ timers' = timers
      /\ \A t \in Tasks : \A i : <<t, i>> # <<t0, i0>> => ReadyAt(t, i)' = ReadyAt(t, i)
  BY PublishFacts
<1>2. \A t \in Tasks : \A i \in Slots(t) : LoadedBy(c, t, i)' => Loaded(t, i)
  BY <1>1 DEF LoadedBy, Loads
<1>3. IsFiniteSet(timers')
  BY <1>1 DEF InputsOK
<1>4. \A t \in Tasks : \A i \in Slots(t) : <<t, i>> \in timers' => Loaded(t, i)
  BY <1>1 DEF Loaded
<1>5. ASSUME NEW t \in Tasks, NEW i \in Slots(t), ReadyAt(t, i)' # {} PROVE Loaded(t, i)
  <2>1. CASE <<t, i>> = <<t0, i0>>
    BY <1>1, <2>1, HeldLoaded DEF Loads, Carries
  <2>2. CASE <<t, i>> # <<t0, i0>>
    BY <1>1, <1>5, <2>2 DEF Loaded
  <2> QED
    BY <2>1, <2>2
<1> QED
  BY <1>1, <1>2, <1>3, <1>4, <1>5, InputsFrame

LEMMA RemoveInputs ==
    ASSUME IInv, InputsOK, NEW c \in Dispatchers, Remove(c), NEW t0, NEW i0, Carries(c, t0, i0)
    PROVE  InputsOK'
<1>1. /\ c \in Contexts /\ pc'[c] = "reading" /\ OnlyMoves(c)
      /\ inputs' = inputs /\ timers' = timers /\ op' = op
      /\ ReadyAt(t0, i0) # {}
      /\ \A t \in Tasks : \A i : ReadyAt(t, i)' \subseteq ReadyAt(t, i)
  BY RemoveFacts
<1>2. \A t \in Tasks : \A i \in Slots(t) : LoadedBy(c, t, i)' => Loaded(t, i)
  BY <1>1 DEF LoadedBy, Loaded, Carries
<1>3. IsFiniteSet(timers')
  BY <1>1 DEF InputsOK
<1>4. \A t \in Tasks : \A i \in Slots(t) : <<t, i>> \in timers' => Loaded(t, i)
  BY <1>1 DEF Loaded
<1>5. ASSUME NEW t \in Tasks, NEW i \in Slots(t) PROVE ReadyAt(t, i)' # {} => Loaded(t, i)
  BY <1>1 DEF Loaded
<1> QED
  BY <1>1, <1>2, <1>3, <1>4, <1>5, InputsFrame

LEMMA InputsStep == ASSUME IInv, InputsOK, [Next]_vars PROVE InputsOK'
<1> USE Names
<1> Shapes
  BY ShapesHold
<1>1. CASE FinishInit \/ Tick \/ \E h \in Handlers : Arrive(h)
  BY <1>1, ControlInputs DEF FinishInit, Tick, Arrive
<1>2. ASSUME NEW h \in Preemptors, Preempt(h) PROVE InputsOK'
  BY <1>2, ControlInputs DEF Preempt
<1>3. ASSUME NEW h \in Preemptors, Return(h) PROVE InputsOK'
  <2>1. pc[h] \in {"body", "leaving"} /\ pc' = [pc EXCEPT ![h] = "body"] /\ h \in Contexts
    BY <1>3, AtFacts DEF Return, Goto
  <2>2. \A b \in Contexts :
           \/ pc'[b] = pc[b]
           \/ pc[b] \in {"body", "leaving"} /\ pc'[b] \in {"body", "leaving"}
    BY <2>1 DEF Shapes
  <2> QED
    BY <1>3, <2>2, ControlInputs DEF Return
<1>4. ASSUME NEW h \in Preemptors, Finish(h) PROVE InputsOK'
  BY <1>4, ControlInputs DEF Finish
<1>5. ASSUME NEW c \in Contexts, Proceed(c) PROVE InputsOK'
  <2>1. PICK t0 : t0 = op[c].task
    OBVIOUS
  <2>2. PICK i0 : i0 = op[c].slot
    OBVIOUS
  <2>3. Carries(c, t0, i0)
    BY <2>1, <2>2 DEF Carries
  <2>4. CASE Taken(c) \/ Pend(c)
    BY <2>4, TakenInputs, PendInputs
  <2>5. CASE Arm(c) \/ Post(c) \/ Publish(c) \/ Write(c)
    BY <2>3, <2>5, ArmInputs, PostInputs, PublishInputs, WriteInputs
  <2>6. CASE c \in Dispatchers /\ (Poll(c) \/ Remove(c) \/ Read(c) \/ Free(c) \/ Run(c))
    BY <2>3, <2>6, PollInputs, RemoveInputs, ReadInputs, FreeInputs, RunInputs
  <2> QED
    BY <1>5, <2>4, <2>5, <2>6 DEF Proceed
<1>6. ASSUME NEW c \in Contexts, NEW t \in Tasks, Call(c, t) PROVE InputsOK'
  BY <1>6, CallInputs
<1>7. ASSUME NEW t \in Tasks, NEW i \in Slots(t), Fire(<<t, i>>) PROVE InputsOK'
  BY <1>7, FireInputs
<1>8. CASE UNCHANGED vars
  BY <1>8, ControlInputs DEF vars
<1> QED
  BY <1>1, <1>2, <1>3, <1>4, <1>5, <1>6, <1>7, <1>8 DEF Next, End

LEMMA InitInputs == ASSUME Init PROVE InputsOK
<1>1. timers = {} /\ \A c \in Contexts : pc[c] = "body"
  BY DEF Init
<1>2. \A t \in Tasks : \A i : ReadyAt(t, i) = {}
  BY InitRings, Names DEF ReadyAt, Marks
<1>3. \A t \in Tasks : \A i : ~Loaded(t, i)
  BY <1>1, <1>2 DEF Loaded, LoadedBy, Loads
<1>4. IsFiniteSet(timers)
  BY <1>1, FS_EmptySet
<1> QED
  BY <1>1, <1>3, <1>4 DEF InputsOK

-----------------------------------------------------------------------------
(* Each part of the inbox, after a step of c.                              *)

LEMMA OffersBecome ==
    ASSUME IInv, NEW c \in Contexts, OwnInput(c), OnlyMoves(c), NEW v, Offered(c)' = v
    PROVE  Offers' = [Offers EXCEPT ![c] = v]
BY FrameOther DEF Offers

LEMMA OffersStay ==
    ASSUME IInv, NEW c \in Contexts, OwnInput(c), OnlyMoves(c), Offered(c)' = Offered(c)
    PROVE  Offers' = Offers
<1>1. \A b \in Contexts : Offered(b)' = Offered(b)
  BY FrameOther
<1> QED
  BY <1>1 DEF Offers

LEMMA HandsBecome ==
    ASSUME IInv, NEW c \in Dispatchers, OwnInput(c), OnlyMoves(c), NEW v, InHand(c)' = v
    PROVE  Hands' = [Hands EXCEPT ![c] = v]
BY FrameOther, Names DEF Hands

LEMMA HandsStay ==
    ASSUME IInv, NEW c \in Contexts, OwnInput(c), OnlyMoves(c), InHand(c)' = InHand(c)
    PROVE  Hands' = Hands
<1>1. \A b \in Contexts : InHand(b)' = InHand(b)
  BY FrameOther
<1> QED
  BY <1>1, Names DEF Hands

LEMMA UnderwayStays ==
    ASSUME \A t \in Tasks : Filled(free'[t]) = Filled(free[t])
    PROVE  Underway' = Underway
<1>1. \A t \in Tasks : Filled(free[t])' = Filled(free[t])
  BY DEF Filled, Size
<1> QED
  BY <1>1 DEF Underway

LEMMA MailStays ==
    ASSUME IInv, NEW c \in Contexts, OwnInput(c),
           \A d \in Dispatchers : /\ Contents(ready'[d]) = Contents(ready[d])
                                  /\ Filled(ready'[d]) = Filled(ready[d])
    PROVE  Mail' = Mail
BY FrameQueue DEF Mail

LEMMA MailBecomes ==
    ASSUME IInv, NEW c \in Contexts, OwnInput(c), NEW d0 \in Dispatchers,
           \A d \in Dispatchers \ {d0} : ready'[d] = ready[d], NEW q, Queue(d0)' = q
    PROVE  Mail' = [Mail EXCEPT ![d0] = q]
<1>1. \A d \in Dispatchers \ {d0} : Queue(d)' = Queue(d)
  BY FrameQueue
<1> QED
  BY <1>1 DEF Mail

-----------------------------------------------------------------------------
(* Each step of Dispatch as one of Inbox.                                  *)

LEMMA BoxAccept ==
    ASSUME NEW c, NEW m, Offers[c] = <<>>, Underway[m.task] < Capacity[m.task],
           Underway' = [Underway EXCEPT ![m.task] = @ + 1],
           Offers' = [Offers EXCEPT ![c] = <<m>>],
           Mail' = Mail, Hands' = Hands, Waiting' = Waiting
    PROVE  Box!Accept(c, m)
BY SMTT(30), ZenonT(30) DEF Box!Accept, Underway, Offers, Mail, Queue, Hands, Waiting, Timed, Letters

LEMMA BoxEnqueue ==
    ASSUME NEW c, NEW m, Offers[c] = <<m>>, Offers' = [Offers EXCEPT ![c] = <<>>],
           Mail' = [Mail EXCEPT ![Home[m.task]] = Append(@, m)],
           Underway' = Underway, Hands' = Hands, Waiting' = Waiting
    PROVE  Box!Enqueue(c, m)
BY DEF Box!Enqueue, Underway, Offers, Mail, Queue, Hands, Waiting, Timed, Letters

LEMMA BoxDefer ==
    ASSUME NEW c, NEW m, Offers[c] = <<m>>, Offers' = [Offers EXCEPT ![c] = <<>>],
           Waiting' = [Waiting EXCEPT ![m] = @ + 1],
           Underway' = Underway, Mail' = Mail, Hands' = Hands
    PROVE  Box!Defer(c, m)
BY DEF Box!Defer, Underway, Offers, Mail, Queue, Hands, Waiting, Timed, Letters

LEMMA BoxExpire ==
    ASSUME NEW c, NEW m, Offers[c] = <<>>, Offers' = [Offers EXCEPT ![c] = <<m>>],
           Waiting[m] > 0, Waiting' = [Waiting EXCEPT ![m] = @ - 1],
           Underway' = Underway, Mail' = Mail, Hands' = Hands
    PROVE  Box!Expire(c, m)
BY DEF Box!Expire, Underway, Offers, Mail, Queue, Hands, Waiting, Timed, Letters

LEMMA BoxDequeue ==
    ASSUME NEW d, Hands[d] = <<>>, Mail[d] # <<>>, Mail' = [Mail EXCEPT ![d] = Tail(@)],
           Hands' = [Hands EXCEPT ![d] = <<Head(Mail[d])>>],
           Underway' = Underway, Offers' = Offers, Waiting' = Waiting
    PROVE  Box!Dequeue(d)
BY DEF Box!Dequeue, Underway, Offers, Mail, Queue, Hands, Waiting, Timed, Letters

LEMMA BoxHandOver ==
    ASSUME NEW d, NEW m, Hands[d] = <<m>>, Hands' = [Hands EXCEPT ![d] = <<>>],
           Underway' = [Underway EXCEPT ![m.task] = @ - 1],
           Offers' = Offers, Mail' = Mail, Waiting' = Waiting
    PROVE  Box!HandOver(d, m)
BY DEF Box!HandOver, Underway, Offers, Mail, Queue, Hands, Waiting, Timed, Letters

LEMMA CallStutters ==
    ASSUME IInv, NEW c \in Contexts, NEW t \in Tasks, Call(c, t) PROVE Bar' = Bar
<1> USE ShapesHold DEF Shapes
<1>1. /\ pc[c] = "body" /\ pc'[c] = "taking" /\ free' = free /\ ready' = ready
      /\ timers' = timers /\ inputs' = inputs
  BY AtFacts DEF Call, Goto
<1>2. OnlyMoves(c) /\ OwnInput(c)
  BY <1>1 DEF Call, Goto, OnlyMoves, OwnInput
<1>3. Offered(c)' = Offered(c) /\ InHand(c)' = InHand(c)
  BY <1>1 DEF Offered, InHand
<1> QED
  BY <1>1, <1>2, <1>3, Stutter

LEMMA PendStutters == ASSUME IInv, NEW c \in Contexts, Pend(c) PROVE Bar' = Bar
<1> USE ShapesHold DEF Shapes
<1>1. /\ pc[c] = "pending" /\ pc'[c] = "body" /\ free' = free /\ ready' = ready
      /\ timers' = timers /\ inputs' = inputs
  BY AtFacts DEF Pend, Goto
<1>2. OnlyMoves(c) /\ OwnInput(c)
  BY <1>1 DEF Pend, Goto, OnlyMoves, OwnInput
<1>3. Offered(c)' = Offered(c) /\ InHand(c)' = InHand(c)
  BY <1>1 DEF Offered, InHand
<1> QED
  BY <1>1, <1>2, <1>3, Stutter

LEMMA PollStutters == ASSUME IInv, NEW d \in Contexts, Poll(d) PROVE Bar' = Bar
<1> USE ShapesHold DEF Shapes
<1>1. /\ pc[d] = "body" /\ pc'[d] \in {"leaving", "taken"} /\ free' = free
      /\ ready' = ready /\ timers' = timers /\ inputs' = inputs
  BY AtFacts DEF Poll, Goto
<1>2. OnlyMoves(d) /\ OwnInput(d)
  BY <1>1 DEF Poll, Goto, OnlyMoves, OwnInput
<1>3. Offered(d)' = Offered(d) /\ InHand(d)' = InHand(d)
  BY <1>1 DEF Offered, InHand
<1> QED
  BY <1>1, <1>2, <1>3, Stutter

(* The input goes from the sender to the slot.                             *)
LEMMA WriteStutters ==
    ASSUME IInv, NEW c \in Contexts, Write(c), NEW t0, NEW i0, Carries(c, t0, i0)
    PROVE  Bar' = Bar
<1> USE ShapesHold DEF Shapes
<1>1. /\ pc[c] = "writing" /\ pc'[c] \in {"posting", "arming"} /\ op' = op
      /\ free' = free /\ ready' = ready /\ timers' = timers
      /\ inputs' = [inputs EXCEPT ![t0][i0] = op[c].input]
  BY AtFacts DEF Write, Goto, Carries
<1>2. OnlyMoves(c)
  BY DEF Write, Goto, OnlyMoves
<1>3. t0 \in Tasks /\ i0 \in Slots(t0) /\ inputs[t0] \in [Slots(t0) -> Bodies \cup {Nothing}]
  BY <1>1 DEF IInv, TypeOK, LocalsOK, RoleOK, Holds, Carries
<1>4. OwnInput(c)
  BY <1>1, <1>3 DEF OwnInput, Holding, Carries
<1>5. inputs'[t0][i0] = op[c].input
  BY <1>1, <1>3
<1>6. Offered(c) = <<[task |-> t0, from |-> op[c].input]>>
  BY <1>1 DEF Offered, Carries
<1>7. Offered(c)' = <<[task |-> t0, from |-> op[c].input]>>
  BY <1>1, <1>5 DEF Offered, Sent, Carries
<1>8. InHand(c)' = InHand(c)
  BY <1>1 DEF InHand
<1> QED
  BY <1>1, <1>2, <1>4, <1>6, <1>7, <1>8, Stutter

LEMMA PostStutters ==
    ASSUME IInv, NEW c \in Contexts, Post(c), NEW t0, NEW i0, Carries(c, t0, i0)
    PROVE  Bar' = Bar
<1>1. /\ pc[c] = "posting" /\ pc'[c] = "publishing" /\ OnlyMoves(c)
      /\ free' = free /\ inputs' = inputs /\ timers' = timers
      /\ op'[c].task = op[c].task /\ op'[c].slot = op[c].slot
      /\ \A d \in Dispatchers : /\ Contents(ready'[d]) = Contents(ready[d])
                                /\ Filled(ready'[d]) = Filled(ready[d])
  BY PostFacts
<1>2. OwnInput(c)
  BY <1>1 DEF OwnInput
<1>3. Offered(c)' = Offered(c) /\ InHand(c)' = InHand(c)
  BY <1>1 DEF Offered, InHand, Sent
<1> QED
  BY <1>1, <1>2, <1>3, Stutter

(* The input goes from the slot to the dispatcher.                         *)
LEMMA ReadStutters ==
    ASSUME IInv, InputsOK, NEW d \in Contexts, Read(d), NEW t0, NEW i0, Carries(d, t0, i0)
    PROVE  Bar' = Bar
<1>1. /\ pc[d] = "reading" /\ pc'[d] = "freeing" /\ free' = free
      /\ ready' = ready /\ timers' = timers
  BY ShapesHold, AtFacts DEF Read, Goto, Shapes
<1>2. /\ op'[d].input = inputs[t0][i0] /\ Carries(d, t0, i0)'
      /\ OnlyMoves(d) /\ OwnInput(d)
  BY ReadInputs
<1>3. InHand(d)' = InHand(d)
  BY <1>1, <1>2 DEF InHand, Sent, Carries
<1>4. Offered(d)' = Offered(d)
  BY <1>1 DEF Offered
<1> QED
  BY <1>1, <1>2, <1>3, <1>4, Stutter

LEMMA FreeStutters == ASSUME IInv, NEW d \in Contexts, Free(d) PROVE Bar' = Bar
<1> USE ShapesHold DEF Shapes
<1>1. PICK t0 : t0 = op[d].task
  OBVIOUS
<1>2. /\ pc[d] = "freeing" /\ pc'[d] = "freed"
      /\ ready' = ready /\ timers' = timers /\ inputs' = inputs
      /\ free' = [free EXCEPT ![t0] = Put(@, op[d].slot)]
      /\ op' = [op EXCEPT ![d].at = free[t0].tail]
  BY <1>1, AtFacts DEF Free, Goto
<1>3. OnlyMoves(d) /\ OwnInput(d)
  BY <1>2 DEF Free, Goto, OnlyMoves, OwnInput
<1>4. op'[d].task = op[d].task /\ op'[d].input = op[d].input
  <2>1. op[d] = [task |-> op[d].task, slot |-> op[d].slot,
                 at |-> op[d].at, input |-> op[d].input]
    OBVIOUS
  <2>2. op'[d] = [op[d] EXCEPT !.at = free[t0].tail]
    BY <1>2
  <2> QED
    BY <2>1, <2>2
<1>5. Offered(d)' = Offered(d) /\ InHand(d)' = InHand(d)
  BY <1>2, <1>4 DEF Offered, InHand
<1>6. t0 \in Tasks /\ Record(free[t0])
  BY <1>1, <1>2 DEF IInv, LocalsOK, RoleOK, Holds, Rings, GoodRing, Record
<1>7. Filled(Put(free[t0], op[d].slot)) = Filled(free[t0])
  BY <1>6, PutFilled
<1>8. \A t \in Tasks : Filled(free'[t]) = Filled(free[t])
  BY <1>2, <1>6, <1>7
<1> QED
  BY <1>2, <1>3, <1>5, <1>8, Stutter

LEMMA ControlStutters ==
    ASSUME free' = free, ready' = ready, inputs' = inputs, timers' = timers, op' = op,
           \A b \in Contexts :
              \/ pc'[b] = pc[b]
              \/ pc[b] \in {"body", "leaving"} /\ pc'[b] \in {"body", "leaving"}
    PROVE  Bar' = Bar
<1>1. \A b \in Contexts : Offered(b)' = Offered(b) /\ InHand(b)' = InHand(b)
  BY DEF Offered, InHand, Sent
<1>2. Offers' = Offers /\ Hands' = Hands
  BY <1>1, Names DEF Offers, Hands
<1>3. Underway' = Underway
  BY UnderwayStays
<1>4. Mail' = Mail
  BY DEF Mail, Queue, Sent, Contents, Filled, Size
<1>5. Waiting' = Waiting
  BY DEF Waiting, Timed, Sent
<1> QED
  BY <1>2, <1>3, <1>4, <1>5 DEF Bar

LEMMA OneMore == \A a, b \in Int : a - (b - 1) = (a - b) + 1 /\ (b > 0 => a - b < a)
OBVIOUS

LEMMA OneLess == \A a, b \in Int : a - (b + 1) = (a - b) - 1
OBVIOUS

(* A call that got a slot is accepted.                                     *)
LEMMA TakenAccepts ==
    ASSUME IInv, InputsOK, NEW c \in Contexts, Taken(c)
    PROVE  \E m \in Letters : Box!Accept(c, m)
<1> USE ShapesHold DEF Shapes
<1>0. PICK t0 : t0 = op[c].task
  OBVIOUS
<1> DEFINE m == [task |-> t0, from |-> op[c].input]
           n == FreeSize[t0]
<1>1. /\ pc[c] = "taking" /\ pc'[c] = "writing" /\ op' = op
      /\ ready' = ready /\ timers' = timers /\ inputs' = inputs
      /\ free' = [free EXCEPT ![t0] = MoveHead(@, op[c].at)]
  BY <1>0, AtFacts DEF Taken, Goto
<1>2. OnlyMoves(c) /\ OwnInput(c)
  BY <1>1 DEF Taken, Goto, OnlyMoves, OwnInput
<1>3. /\ t0 \in Tasks /\ op[c].at = free[t0].head /\ Filled(free[t0]) > 0
      /\ op[c].input \in Bodies
  BY <1>0, <1>1 DEF IInv, LocalsOK, EndsOK, TakingOK, InputsOK
<1>4. m \in Letters /\ m.task = t0
  BY <1>3 DEF Letters
<1>5. /\ n \in Nat \ {0} /\ GoodRing(free[t0], n, FreeItems(t0))
      /\ Filled(free[t0]) <= n /\ Capacity[t0] \in Nat
  <2>1. Rings /\ EntriesOK
    BY DEF IInv
  <2>2. /\ n \in Nat \ {0} /\ GoodRing(free[t0], n, FreeItems(t0))
        /\ Capacity[t0] \in 1..128
    BY <1>3, <2>1, TaskFacts, ZenonT(30)
  <2>3. Filled(free[t0]) <= n
    BY <1>3, <2>1, ZenonT(30) DEF EntriesOK
  <2>4. Capacity[t0] \in Nat
    BY <2>2
  <2> QED
    BY <2>2, <2>3, <2>4, ZenonT(30)
<1> HIDE DEF n
<1>6. /\ Filled(free[t0]) \in Nat
      /\ Filled(MoveHead(free[t0], free[t0].head)) = Filled(free[t0]) - 1
  BY <1>3, <1>5, LivePositions, HeadRing
<1>7. /\ Filled(free'[t0]) = Filled(free[t0]) - 1
      /\ \A t \in Tasks \ {t0} : Filled(free'[t]) = Filled(free[t])
  BY <1>1, <1>3, <1>6
<1>8. /\ Underway[t0] < Capacity[t0]
      /\ Underway' = [Underway EXCEPT ![t0] = @ + 1]
  <2>1. \A t \in Tasks : Filled(free[t])' = Filled(free'[t])
    BY DEF Filled, Size
  <2>4. Capacity[t0] \in Int /\ Filled(free[t0]) \in Int
    BY <1>5, <1>6
  <2>2. Capacity[t0] - (Filled(free[t0]) - 1) = (Capacity[t0] - Filled(free[t0])) + 1
    BY <2>4, OneMore, Zenon
  <2>3. Capacity[t0] - Filled(free[t0]) < Capacity[t0]
    BY <1>3, <2>4, OneMore, Zenon
  <2> QED
    BY <1>3, <1>7, <2>1, <2>2, <2>3, ZenonT(60) DEF Underway
<1>9. Offered(c) = <<>> /\ Offered(c)' = <<m>> /\ InHand(c)' = InHand(c)
  BY <1>0, <1>1 DEF Offered, InHand
<1> HIDE DEF m
<1>10. /\ Offers[c] = <<>> /\ Offers' = [Offers EXCEPT ![c] = <<m>>] /\ Hands' = Hands
       /\ Mail' = Mail /\ Waiting' = Waiting
  <2>1. Offers[c] = <<>>
    BY <1>9 DEF Offers
  <2> QED
    BY <1>1, <1>2, <1>9, <2>1, OffersBecome, HandsStay, MailStays, FrameTimed
<1> QED
  BY <1>4, <1>8, <1>10, BoxAccept

(* A message becomes ready when the tail of the ring moves.                *)
LEMMA PublishEnqueues ==
    ASSUME IInv, InputsOK, NEW c \in Contexts, Publish(c), NEW t0, NEW i0, Carries(c, t0, i0)
    PROVE  \E m \in Letters : Box!Enqueue(c, m)
<1>0. PICK d0 : d0 = Home[t0]
  OBVIOUS
<1> DEFINE m == Sent(t0, i0)
           f == Filled(ready[d0])
<1>1. /\ pc[c] = "publishing" /\ pc'[c] = "pending" /\ OnlyMoves(c)
      /\ free' = free /\ inputs' = inputs /\ timers' = timers
      /\ t0 \in Tasks /\ i0 \in Slots(t0) /\ d0 \in Dispatchers
      /\ \A d \in Dispatchers \ {d0} : ready'[d] = ready[d]
      /\ Filled(ready'[d0]) = f + 1
      /\ \A k \in 1..f : Contents(ready'[d0])[k] = Contents(ready[d0])[k]
      /\ Contents(ready'[d0])[f + 1] = <<t0, i0>>
  BY <1>0, PublishFacts
<1>2. OwnInput(c)
  BY <1>1 DEF OwnInput
<1>3. inputs[t0][i0] \in Bodies
  BY <1>1, HeldLoaded DEF InputsOK, Loads
<1>4. m \in Letters /\ m.task = t0
  BY <1>1, <1>3 DEF Letters, Sent
<1>5. f \in Nat
  BY <1>1, ReadyFacts, ContentsFacts
<1> HIDE DEF f
<1>6. Queue(d0) \in Seq(Letters) /\ Len(Queue(d0)) = f
  BY <1>1, QueueType DEF f
<1>7. Queue(d0)' = [k \in 1..f+1 |->
                      [task |-> Contents(ready'[d0])[k][1],
                       from |-> inputs[Contents(ready'[d0])[k][1]][Contents(ready'[d0])[k][2]]]]
  BY <1>1, QueueNext
<1>8. \A k \in 1..f : Queue(d0)'[k] = Queue(d0)[k]
  <2> SUFFICES ASSUME NEW k \in 1..f PROVE Queue(d0)'[k] = Queue(d0)[k]
    OBVIOUS
  <2>1. k \in 1..f+1
    BY <1>5
  <2> QED
    BY <1>1, <1>7, <2>1 DEF Queue, Sent, f
<1>9. Queue(d0)'[f+1] = m
  <2>1. f + 1 \in 1..f+1
    BY <1>5
  <2> QED
    BY <1>1, <1>7, <2>1 DEF Sent
<1>10. Queue(d0)' = [k \in 1..f+1 |-> Queue(d0)'[k]]
  BY <1>7
<1> HIDE DEF m
<1>11. Queue(d0)' = Append(Queue(d0), m)
  <2>1. PICK p : p = Queue(d0)'
    OBVIOUS
  <2>2. PICK q : q = Queue(d0)
    OBVIOUS
  <2>3. PICK n : n = f + 1
    OBVIOUS
  <2>4. /\ q \in Seq(Letters) /\ n = Len(q) + 1
        /\ \A k \in 1..Len(q) : p[k] = q[k]
        /\ p[n] = m
    BY <1>6, <1>8, <1>9, <2>1, <2>2, <2>3
  <2>5. p \in [1..n -> Letters]
    <3>1. p = [k \in 1..n |-> p[k]]
      BY <1>10, <2>1, <2>3
    <3>2. q \in [1..f -> Letters] /\ Len(q) = f
      BY <1>6, <2>2, LenProperties
    <3>3. \A k \in 1..n : k \in 1..f \/ k = n
      BY <1>5, <2>3
    <3>4. \A k \in 1..n : p[k] \in Letters
      BY <1>4, <2>4, <3>2, <3>3
    <3> QED
      BY <3>1, <3>4
  <2>6. p = Append(q, m)
    BY <1>4, <2>4, <2>5, IsAppend
  <2> QED
    BY <2>1, <2>2, <2>6
<1>12. Offered(c) = <<m>> /\ Offered(c)' = <<>> /\ InHand(c)' = InHand(c)
  BY <1>1 DEF Offered, InHand, Carries, m
<1>13. /\ Offers[c] = <<m>> /\ Offers' = [Offers EXCEPT ![c] = <<>>] /\ Hands' = Hands
       /\ Underway' = Underway /\ Waiting' = Waiting
  <2>1. Offers[c] = <<m>>
    BY <1>12 DEF Offers
  <2> QED
    BY <1>1, <1>2, <1>12, <2>1, OffersBecome, HandsStay, UnderwayStays, FrameTimed
<1>14. Mail' = [Mail EXCEPT ![d0] = Append(@, m)]
  <2>1. Mail' = [Mail EXCEPT ![d0] = Append(Queue(d0), m)]
    BY <1>1, <1>2, <1>11, MailBecomes
  <2>2. Mail[d0] = Queue(d0)
    BY <1>1 DEF Mail
  <2> QED
    BY <2>1, <2>2
<1> QED
  BY <1>0, <1>4, <1>13, <1>14, BoxEnqueue

LEMMA RemoveDequeues ==
    ASSUME IInv, InputsOK, NEW c \in Dispatchers, Remove(c), NEW t0, NEW i0, Carries(c, t0, i0)
    PROVE  Box!Dequeue(c)
<1> DEFINE f == Filled(ready[c])
<1>1. /\ c \in Contexts /\ pc[c] = "taken" /\ pc'[c] = "reading" /\ OnlyMoves(c)
      /\ free' = free /\ inputs' = inputs /\ timers' = timers /\ op' = op
      /\ \A d \in Dispatchers \ {c} : ready'[d] = ready[d]
      /\ f > 0 /\ Contents(ready[c])[1] = <<t0, i0>>
      /\ Filled(ready'[c]) = f - 1
      /\ \A k \in 1..f-1 : Contents(ready'[c])[k] = Contents(ready[c])[k + 1]
  BY RemoveFacts
<1>2. OwnInput(c)
  BY <1>1 DEF OwnInput
<1>3. f \in Nat
  BY ReadyFacts, ContentsFacts
<1> HIDE DEF f
<1>4. Queue(c) \in Seq(Letters) /\ Len(Queue(c)) = f
  BY QueueType DEF f
<1>5. Queue(c)' = [k \in 1..f-1 |->
                      [task |-> Contents(ready'[c])[k][1],
                       from |-> inputs[Contents(ready'[c])[k][1]][Contents(ready'[c])[k][2]]]]
  BY <1>1, QueueNext
<1>6. \A k \in 1..f-1 : Queue(c)'[k] = Queue(c)[k + 1]
  <2> SUFFICES ASSUME NEW k \in 1..f-1 PROVE Queue(c)'[k] = Queue(c)[k + 1]
    OBVIOUS
  <2>1. k + 1 \in 1..f
    BY <1>3
  <2> QED
    BY <1>1, <1>5, <2>1 DEF Queue, Sent, f
<1>7. Queue(c)' = [k \in 1..f-1 |-> Queue(c)'[k]]
  BY <1>5
<1>8. Queue(c) # <<>> /\ Head(Queue(c)) = Queue(c)[1] /\ Queue(c)' = Tail(Queue(c))
  <2>1. PICK p : p = Queue(c)'
    OBVIOUS
  <2>2. PICK q : q = Queue(c)
    OBVIOUS
  <2>3. PICK n : n = f - 1
    OBVIOUS
  <2>4. /\ q \in Seq(Letters) /\ n \in Nat /\ n = Len(q) - 1
        /\ \A k \in 1..n : p[k] = q[k + 1]
    BY <1>1, <1>3, <1>4, <1>6, <2>1, <2>2, <2>3
  <2>5. p \in [1..n -> Letters]
    <3>1. p = [k \in 1..n |-> p[k]]
      BY <1>7, <2>1, <2>3
    <3>2. q \in [1..f -> Letters]
      BY <1>4, <2>2, LenProperties
    <3>3. \A k \in 1..n : k + 1 \in 1..f
      BY <1>3, <2>3
    <3>4. \A k \in 1..n : p[k] \in Letters
      BY <2>4, <3>2, <3>3
    <3> QED
      BY <3>1, <3>4
  <2>6. q # <<>> /\ Head(q) = q[1] /\ p = Tail(q)
    BY <2>4, <2>5, IsTail
  <2> QED
    BY <2>1, <2>2, <2>6
<1>9. Queue(c)[1] = Sent(t0, i0)
  <2>1. 1 \in 1..f
    BY <1>1, <1>3
  <2> QED
    BY <1>1, <2>1 DEF Queue, f
<1>10. InHand(c) = <<>> /\ InHand(c)' = <<Sent(t0, i0)>> /\ Offered(c)' = Offered(c)
  BY <1>1 DEF InHand, Offered, Carries, Sent
<1>11. Mail[c] = Queue(c) /\ Hands[c] = <<>>
  BY <1>10 DEF Mail, Hands
<1>12. Hands' = [Hands EXCEPT ![c] = <<Head(Mail[c])>>]
  <2>1. InHand(c)' = <<Head(Mail[c])>>
    BY <1>8, <1>9, <1>10, <1>11
  <2> QED
    BY <1>1, <1>2, <2>1, HandsBecome
<1>13. Mail' = [Mail EXCEPT ![c] = Tail(@)]
  <2>1. Mail' = [Mail EXCEPT ![c] = Tail(Queue(c))]
    BY <1>1, <1>2, <1>8, MailBecomes
  <2> QED
    BY <1>11, <2>1
<1>14. Underway' = Underway /\ Offers' = Offers /\ Waiting' = Waiting
  BY <1>1, <1>2, <1>10, OffersStay, UnderwayStays, FrameTimed
<1>15. Mail[c] # <<>>
  BY <1>8, <1>11
<1> QED
  BY <1>11, <1>12, <1>13, <1>14, <1>15, BoxDequeue

(* The slot is back in the free queue when the task starts.                *)
LEMMA RunHandsOver ==
    ASSUME IInv, InputsOK, NEW c \in Dispatchers, Run(c)
    PROVE  \E m \in Letters : Box!HandOver(c, m)
<1> USE ShapesHold DEF Shapes
<1>0. PICK t0 : t0 = op[c].task
  OBVIOUS
<1> DEFINE m == [task |-> t0, from |-> op[c].input]
           n == FreeSize[t0]
<1>1. /\ c \in Contexts /\ pc[c] = "freed" /\ pc'[c] = "body"
      /\ ready' = ready /\ timers' = timers /\ inputs' = inputs
      /\ free' = [free EXCEPT ![t0] = MoveTail(@, op[c].at)]
  BY <1>0, AtFacts DEF Run, Goto
<1>2. OnlyMoves(c) /\ OwnInput(c)
  BY <1>1 DEF Run, Goto, OnlyMoves, OwnInput
<1>3. t0 \in Tasks /\ op[c].at = free[t0].tail /\ op[c].input \in Bodies
  BY <1>0, <1>1 DEF IInv, LocalsOK, RoleOK, EndsOK, FreedOK, Holds, InputsOK
<1>4. m \in Letters /\ m.task = t0
  BY <1>3 DEF Letters
<1>5. /\ n \in Nat \ {0} /\ GoodRing(free[t0], n, FreeItems(t0)) /\ Capacity[t0] \in Nat
  BY <1>3, TaskFacts, SMTT(30), ZenonT(30) DEF IInv
<1>6. Filled(free[t0]) < n
  <2>1. pc[c] \in Holds
    BY <1>1 DEF Holds
  <2> QED
    BY <1>0, <1>1, <2>1, RoomFree DEF IInv
<1> HIDE DEF n
<1>7. /\ Filled(free[t0]) \in Nat
      /\ Filled(MoveTail(free[t0], free[t0].tail)) = Filled(free[t0]) + 1
  <2>1. Filled(free[t0]) <= n
    BY <1>5, <1>6, RingFacts
  <2> QED
    BY <1>5, <1>6, <2>1, LivePositions, TailRing
<1>8. /\ Filled(free'[t0]) = Filled(free[t0]) + 1
      /\ \A t \in Tasks \ {t0} : Filled(free'[t]) = Filled(free[t])
  BY <1>1, <1>3, <1>7
<1>9. Underway' = [Underway EXCEPT ![t0] = @ - 1]
  <2>1. \A t \in Tasks : Filled(free[t])' = Filled(free'[t])
    BY DEF Filled, Size
  <2>2. Capacity[t0] \in Int /\ Filled(free[t0]) \in Int
    BY <1>5, <1>7
  <2>3. Capacity[t0] - (Filled(free[t0]) + 1) = (Capacity[t0] - Filled(free[t0])) - 1
    BY <2>2, OneLess, Zenon
  <2> QED
    BY <1>3, <1>8, <2>1, <2>3 DEF Underway
<1>10. InHand(c) = <<m>> /\ InHand(c)' = <<>> /\ Offered(c)' = Offered(c)
  BY <1>0, <1>1 DEF Offered, InHand
<1> HIDE DEF m
<1>11. /\ Hands[c] = <<m>> /\ Hands' = [Hands EXCEPT ![c] = <<>>] /\ Offers' = Offers
       /\ Mail' = Mail /\ Waiting' = Waiting
  <2>1. Hands[c] = <<m>>
    BY <1>10 DEF Hands
  <2> QED
    BY <1>1, <1>2, <1>10, <2>1, HandsBecome, OffersStay, MailStays, FrameTimed
<1> QED
  BY <1>4, <1>9, <1>11, BoxHandOver

(* The messages in the timer queue, by what they say.                      *)
Alike(m) == {x \in timers : Sent(x[1], x[2]) = m}

LEMMA AlikeFinite ==
    ASSUME InputsOK, NEW m
    PROVE  IsFiniteSet(Alike(m)) /\ Timed(m) = Cardinality(Alike(m)) /\ Timed(m) \in Nat
<1>1. Alike(m) \in SUBSET timers
  BY DEF Alike
<1>2. IsFiniteSet(Alike(m))
  BY <1>1, FS_Subset DEF InputsOK
<1> QED
  BY <1>2, FS_CardinalityType DEF Timed, Alike

LEMMA ArmDefers ==
    ASSUME IInv, InputsOK, NEW c \in Contexts, Arm(c), NEW t0, NEW i0, Carries(c, t0, i0)
    PROVE  \E m \in Letters : Box!Defer(c, m)
<1> USE ShapesHold DEF Shapes
<1>0. PICK m : m = Sent(t0, i0)
  OBVIOUS
<1>9. PICK x0 : x0 = <<t0, i0>>
  OBVIOUS
<1>1. /\ pc[c] = "arming" /\ pc'[c] = "body" /\ free' = free
      /\ ready' = ready /\ inputs' = inputs /\ timers' = timers \cup {x0}
  BY <1>9, AtFacts DEF Arm, Goto, Carries
<1>2. OnlyMoves(c) /\ OwnInput(c)
  BY <1>1 DEF Arm, Goto, OnlyMoves, OwnInput
<1>3. t0 \in Tasks /\ i0 \in Slots(t0) /\ x0 \notin timers
  BY <1>1, <1>9, OneHolder DEF IInv, Holds, Carries
<1>4. inputs[t0][i0] \in Bodies
  BY <1>1, <1>3, HeldLoaded DEF InputsOK, Loads
<1>5. m \in Letters
  BY <1>0, <1>3, <1>4 DEF Letters, Sent
<1>6. Offered(c) = <<m>> /\ Offered(c)' = <<>> /\ InHand(c)' = InHand(c)
  BY <1>0, <1>1 DEF Offered, InHand, Carries
<1>7. /\ Offers[c] = <<m>> /\ Offers' = [Offers EXCEPT ![c] = <<>>] /\ Hands' = Hands
      /\ Underway' = Underway /\ Mail' = Mail
  <2>1. Offers[c] = <<m>>
    BY <1>6 DEF Offers
  <2> QED
    BY <1>1, <1>2, <1>6, <2>1, OffersBecome, HandsStay, UnderwayStays, MailStays
<1>8. Waiting' = [Waiting EXCEPT ![m] = @ + 1]
  <2>1. \A x : Sent(x[1], x[2])' = Sent(x[1], x[2])
    BY <1>1 DEF Sent
  <2>2. Sent(x0[1], x0[2]) = m
    BY <1>0, <1>9
  <2>3. \A e : Timed(e)' = Cardinality(Alike(e)')
    BY DEF Timed, Alike
  <2>4. Timed(m)' = Timed(m) + 1
    <3>1. Alike(m)' = Alike(m) \cup {x0} /\ x0 \notin Alike(m)
      BY <1>1, <1>3, <2>1, <2>2 DEF Alike
    <3>2. IsFiniteSet(Alike(m)) /\ Timed(m) = Cardinality(Alike(m))
      BY AlikeFinite
    <3>3. Cardinality(Alike(m) \cup {x0}) = Cardinality(Alike(m)) + 1
      BY <3>1, <3>2, FS_AddElement
    <3> QED
      BY <2>3, <3>1, <3>2, <3>3
  <2>5. ASSUME NEW e, e # m PROVE Timed(e)' = Timed(e)
    <3>1. Alike(e)' = Alike(e)
      BY <1>1, <2>1, <2>2, <2>5 DEF Alike
    <3> QED
      BY <2>3, <3>1 DEF Timed, Alike
  <2> QED
    BY <2>4, <2>5 DEF Waiting
<1> QED
  BY <1>5, <1>7, <1>8, BoxDefer

LEMMA FireExpires ==
    ASSUME IInv, InputsOK, NEW t0 \in Tasks, NEW i0 \in Slots(t0), Fire(<<t0, i0>>)
    PROVE  \E m \in Letters : Box!Expire("SysTick", m)
<1> USE ShapesHold DEF Shapes
<1> DEFINE c == "SysTick"
<1>0. PICK m : m = Sent(t0, i0)
  OBVIOUS
<1>9. PICK x0 : x0 = <<t0, i0>>
  OBVIOUS
<1>1. /\ pc[c] = "body" /\ pc'[c] = "posting" /\ c \in Contexts /\ free' = free
      /\ ready' = ready /\ inputs' = inputs
      /\ x0 \in timers /\ timers' = timers \ {x0}
      /\ op'[c].task = t0 /\ op'[c].slot = i0
  BY <1>9, AtFacts DEF Fire, Goto, Idle
<1>2. OnlyMoves(c) /\ OwnInput(c)
  BY <1>1 DEF Fire, Goto, OnlyMoves, OwnInput
<1>4. inputs[t0][i0] \in Bodies
  BY <1>1, <1>9 DEF InputsOK, Loaded
<1>5. m \in Letters
  BY <1>0, <1>4 DEF Letters, Sent
<1>6. Offered(c) = <<>> /\ Offered(c)' = <<m>> /\ InHand(c)' = InHand(c)
  BY <1>0, <1>1 DEF Offered, InHand, Sent
<1> HIDE DEF c
<1>7. /\ Offers[c] = <<>> /\ Offers' = [Offers EXCEPT ![c] = <<m>>] /\ Hands' = Hands
      /\ Underway' = Underway /\ Mail' = Mail
  <2>1. Offers[c] = <<>>
    BY <1>1, <1>6 DEF Offers
  <2> QED
    BY <1>1, <1>2, <1>6, <2>1, OffersBecome, HandsStay, UnderwayStays, MailStays
<1>8. Waiting[m] > 0 /\ Waiting' = [Waiting EXCEPT ![m] = @ - 1]
  <2>1. \A x : Sent(x[1], x[2])' = Sent(x[1], x[2])
    BY <1>1 DEF Sent
  <2>2. Sent(x0[1], x0[2]) = m
    BY <1>0, <1>9
  <2>3. \A e : Timed(e)' = Cardinality(Alike(e)')
    BY DEF Timed, Alike
  <2>4. Timed(m)' = Timed(m) - 1 /\ Timed(m) > 0
    <3>1. Alike(m)' = Alike(m) \ {x0} /\ x0 \in Alike(m)
      BY <1>1, <2>1, <2>2 DEF Alike
    <3>2. IsFiniteSet(Alike(m)) /\ Timed(m) = Cardinality(Alike(m)) /\ Timed(m) \in Nat
      BY AlikeFinite
    <3>3. Cardinality(Alike(m) \ {x0}) = Cardinality(Alike(m)) - 1
      BY <3>1, <3>2, FS_RemoveElement
    <3>4. Cardinality(Alike(m)) # 0
      BY <3>1, <3>2, FS_EmptySet
    <3>5. Timed(m)' = Timed(m) - 1
      BY <2>3, <3>1, <3>2, <3>3
    <3>6. Timed(m) > 0
      BY <3>2, <3>4
    <3> QED
      BY <3>5, <3>6
  <2>5. ASSUME NEW e, e # m PROVE Timed(e)' = Timed(e)
    <3>1. Alike(e)' = Alike(e)
      BY <1>1, <2>1, <2>2, <2>5 DEF Alike
    <3> QED
      BY <2>3, <3>1 DEF Timed, Alike
  <2> QED
    BY <1>5, <2>4, <2>5 DEF Waiting
<1>10. Box!Expire(c, m)
  BY <1>7, <1>8, BoxExpire
<1> QED
  BY <1>5, <1>10 DEF c

LEMMA InboxStep ==
    ASSUME IInv, InputsOK, [Next]_vars PROVE [Box!InboxNext]_Bar
<1> USE Names
<1> Shapes
  BY ShapesHold
<1> DEFINE Does == Box!InboxNext \/ Bar' = Bar
<1>1. CASE FinishInit \/ Tick \/ \E h \in Handlers : Arrive(h)
  BY <1>1, ControlStutters DEF FinishInit, Tick, Arrive
<1>2. ASSUME NEW h \in Preemptors, Preempt(h) PROVE Bar' = Bar
  BY <1>2, ControlStutters DEF Preempt
<1>3. ASSUME NEW h \in Preemptors, Return(h) PROVE Bar' = Bar
  <2>1. pc[h] \in {"body", "leaving"} /\ pc' = [pc EXCEPT ![h] = "body"] /\ h \in Contexts
    BY <1>3, AtFacts DEF Return, Goto
  <2>2. \A b \in Contexts :
           \/ pc'[b] = pc[b]
           \/ pc[b] \in {"body", "leaving"} /\ pc'[b] \in {"body", "leaving"}
    BY <2>1 DEF Shapes
  <2> QED
    BY <1>3, <2>2, ControlStutters DEF Return
<1>4. ASSUME NEW h \in Preemptors, Finish(h) PROVE Bar' = Bar
  BY <1>4, ControlStutters DEF Finish
<1>5. ASSUME NEW c \in Contexts, Proceed(c) PROVE Does
  <2>1. PICK t0 : t0 = op[c].task
    OBVIOUS
  <2>2. PICK i0 : i0 = op[c].slot
    OBVIOUS
  <2>3. Carries(c, t0, i0)
    BY <2>1, <2>2 DEF Carries
  <2>4. CASE Taken(c) \/ Publish(c) \/ Arm(c)
    <3>1. \E m \in Letters : Box!Accept(c, m) \/ Box!Enqueue(c, m) \/ Box!Defer(c, m)
      BY <2>3, <2>4, TakenAccepts, PublishEnqueues, ArmDefers
    <3> QED
      BY <3>1 DEF Box!InboxNext, Box!Message, Letters
  <2>5. CASE Write(c) \/ Post(c) \/ Pend(c)
    BY <2>3, <2>5, WriteStutters, PostStutters, PendStutters
  <2>6. CASE c \in Dispatchers /\ (Remove(c) \/ Run(c))
    <3>1. Box!Dequeue(c) \/ \E m \in Letters : Box!HandOver(c, m)
      BY <2>3, <2>6, RemoveDequeues, RunHandsOver
    <3> QED
      BY <2>6, <3>1 DEF Box!InboxNext, Box!Message, Letters
  <2>7. CASE c \in Dispatchers /\ (Poll(c) \/ Read(c) \/ Free(c))
    BY <2>3, <2>7, PollStutters, ReadStutters, FreeStutters
  <2> QED
    BY <1>5, <2>4, <2>5, <2>6, <2>7 DEF Proceed
<1>6. ASSUME NEW c \in Contexts, NEW t \in Tasks, Call(c, t) PROVE Bar' = Bar
  BY <1>6, CallStutters
<1>7. ASSUME NEW t \in Tasks, NEW i \in Slots(t), Fire(<<t, i>>) PROVE Box!InboxNext
  <2>1. \E m \in Letters : Box!Expire("SysTick", m)
    BY <1>7, FireExpires
  <2> QED
    BY <2>1 DEF Box!InboxNext, Box!Message, Letters
<1>8. CASE UNCHANGED vars
  BY <1>8, ControlStutters DEF vars
<1> QED
  BY <1>1, <1>2, <1>3, <1>4, <1>5, <1>6, <1>7, <1>8 DEF Next, End

LEMMA InitInbox == ASSUME Init PROVE Box!InboxInit
<1>1. ASSUME NEW t \in Tasks PROVE Capacity[t] - Filled(free[t]) = 0
  <2>1. Capacity[t] \in 1..128 /\ Filled(free[t]) = Capacity[t]
    BY InitRings, NamesAssumption
  <2> QED
    BY <2>1
<1>2. \A c \in Contexts : Offered(c) = <<>> /\ InHand(c) = <<>>
  BY DEF Init, Offered, InHand
<1>3. ASSUME NEW d \in Dispatchers PROVE Queue(d) = <<>>
  <2>1. Filled(ready[d]) = 0
    BY InitRings
  <2> QED
    BY <2>1 DEF Queue
<1>4. ASSUME NEW m PROVE Timed(m) = 0
  <2>1. {x \in timers : Sent(x[1], x[2]) = m} = {}
    BY DEF Init
  <2> QED
    BY <2>1, FS_EmptySet DEF Timed
<1>5. /\ Underway = [t \in Tasks |-> 0] /\ Offers = [c \in Contexts |-> <<>>]
      /\ Mail = [d \in Dispatchers |-> <<>>] /\ Hands = [d \in Dispatchers |-> <<>>]
      /\ Waiting = [m \in Letters |-> 0]
  BY <1>1, <1>2, <1>3, <1>4, Names DEF Underway, Offers, Mail, Hands, Waiting
<1> QED
  BY <1>5 DEF Box!InboxInit, Box!Message, Underway, Offers, Mail, Queue, Hands, Waiting,
              Timed, Letters

(* Spawned and scheduled messages reach their tasks exactly once, with     *)
(* their input and, within a level, in order (the functions behind spawn   *)
(* and schedule, the dispatchers and SysTick in codegen.rs): for every     *)
(* application whose ready queues exclude all of their senders.            *)
THEOREM MessagesDelivered == ASSUME SendersExcluded PROVE Spec => DeliversMessages
<1>1. IInv /\ InputsOK /\ [Next]_vars => IInv' /\ InputsOK' /\ [Box!InboxNext]_Bar
  BY SendersExcluded, SlotsInductive, InputsStep, InboxStep
<1>2. Init => IInv /\ InputsOK /\ Box!InboxInit
  BY InitSlots, InitInputs, InitInbox
<1>3. Spec => Box!InboxSpec
  BY <1>1, <1>2, PTL DEF Spec, Box!InboxSpec, Box!inboxVars, Bar, Underway, Offers, Mail,
                         Queue, Hands, Waiting, Timed, Letters
<1> QED
  BY <1>3 DEF DeliversMessages
=============================================================================
