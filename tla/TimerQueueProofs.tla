-------------------------- MODULE TimerQueueProofs --------------------------
(***************************************************************************)
(* Theorems about the timer queue, for every width of the clock, every     *)
(* reload limit, any messages and any bounds that TimesAssumption admits.  *)
(***************************************************************************)
EXTENDS TimerQueue, TLAPS

-----------------------------------------------------------------------------
(* Arithmetic of wrapping instants.                                        *)

(* A wrapped sum or difference of two i32 is an i32 again.                 *)
LEMMA WrapType ==
    ASSUME NEW a \in I32, NEW b \in I32
    PROVE  WrappingAdd(a, b) \in I32 /\ WrappingSub(a, b) \in I32
BY WidthAssumption DEF I32, WrappingAdd, WrappingSub, Wrap

(* An instant d from a reading is d from it after the wrap, too.           *)
LEMMA WrapBack ==
    ASSUME NEW n \in I32, NEW d \in Times
    PROVE  d \in I32 /\ WrappingSub(WrappingAdd(n, d), n) = d
BY WidthAssumption, TimesAssumption
   DEF I32, Times, WrappingAdd, WrappingSub, Wrap

(* A tick of the clock takes one from the time that is left.               *)
LEMMA WrapTick ==
    ASSUME NEW n \in I32, NEW i \in I32,
           WrappingSub(i, n) \in Times, WrappingSub(i, n) > -Lag
    PROVE  WrappingSub(i, WrappingAdd(n, 1)) = WrappingSub(i, n) - 1
BY WidthAssumption, TimesAssumption
   DEF I32, Times, WrappingAdd, WrappingSub, Wrap

(* The order of instants is the order of the time that is left, as long as *)
(* all lie within half a turn of the clock.                                *)
LEMMA EarlierExact ==
    ASSUME NEW n \in I32, NEW i \in I32, NEW j \in I32,
           WrappingSub(i, n) \in Times, WrappingSub(j, n) \in Times
    PROVE  Earlier(i, j) <=> WrappingSub(i, n) < WrappingSub(j, n)
BY WidthAssumption, TimesAssumption
   DEF I32, Times, Earlier, WrappingSub, Wrap

(* The same of two messages under way.                                     *)
LEMMA EarlierLeft ==
    ASSUME TypeOK, InstantsExact, NEW x \in Live, NEW y \in Live,
           Live \subseteq Messages
    PROVE  Earlier(instant[x], instant[y]) <=> left[x] < left[y]
<1>1. /\ instant[x] \in I32 /\ instant[y] \in I32 /\ now \in I32
      /\ left[x] \in Times /\ left[y] \in Times
  BY DEF TypeOK
<1>2. /\ WrappingSub(instant[x], now) = left[x]
      /\ WrappingSub(instant[y], now) = left[y]
  BY DEF InstantsExact
<1>3. QED
  BY <1>1, <1>2, EarlierExact

-----------------------------------------------------------------------------
(* The inductive invariant.                                                *)

(* A message is in one place, and the handler's one exists.                *)
PlacesOK ==
    /\ queue \cap ready = {}
    /\ pc \in {"measured", "loaded"} => root \in queue
    /\ pc = "popped" => root \in Messages \ (queue \cup ready)

(* Before post_init the handler does not run, and what init scheduled has  *)
(* set it pending.                                                         *)
InitOK == ~started => pc = "out" /\ (queue # {} => pended)

(* Inside the claim the root is the earliest message, and diff is what was *)
(* left of it when the clock was read.                                     *)
ClaimOK ==
    /\ InClaim => \A y \in queue : left[root] <= left[y]
    /\ InClaim => diff = left[root] + slack
    /\ pc = "loaded" => diff >= 0 /\ reload = SmallerOf(MaxReload, diff)

(* The interrupt of the timer is enabled while messages wait.              *)
TickintOK == queue # {} => tickint

IInv ==
    /\ TypeOK /\ PlacesOK /\ InstantsExact
    /\ InitOK /\ ClaimOK /\ TickintOK /\ WakesInTime

LEMMA LiveMessages == ASSUME TypeOK, PlacesOK PROVE Live \subseteq Messages
BY DEF TypeOK, PlacesOK, Live

LEMMA InitIInv == Init => IInv
<1> SUFFICES ASSUME Init PROVE IInv
  OBVIOUS
<1>1. TypeOK
  <2>1. 0 \in I32 /\ 0 \in Times /\ 0 \in 0..Delay
    BY WidthAssumption, TimesAssumption DEF I32, Times
  <2>2. QED
    BY <2>1 DEF Init, TypeOK
<1>2. Live = {} /\ queue = {}
  BY DEF Init, Live
<1>3. PlacesOK /\ InstantsExact
  BY <1>2 DEF Init, PlacesOK, InstantsExact
<1>4. InitOK /\ ClaimOK /\ TickintOK /\ WakesInTime
  BY <1>2 DEF Init, InitOK, ClaimOK, InClaim, TickintOK, WakesInTime, Waiting
<1>5. QED
  BY <1>1, <1>3, <1>4 DEF IInv

-----------------------------------------------------------------------------
(* One lemma per action.                                                   *)

LEMMA PostInitStep == ASSUME IInv, PostInit PROVE IInv'
<1> USE DEF IInv, PostInit, syst
<1>1. TypeOK' /\ PlacesOK'
  BY DEF TypeOK, PlacesOK
<1>2. InstantsExact'
  BY DEF InstantsExact, Live
<1>3. InitOK' /\ ClaimOK' /\ TickintOK'
  BY DEF InitOK, ClaimOK, InClaim, TickintOK
<1>4. WakesInTime'
  BY DEF InitOK, WakesInTime, Waiting
<1>5. QED
  BY <1>1, <1>2, <1>3, <1>4

(* Time passes: every message that is under way loses one cycle, and the   *)
(* counter comes one nearer to its end.                                    *)
LEMMA TickStep == ASSUME IInv, Tick PROVE IInv'
<1>1. Live \subseteq Messages /\ Live' = Live
  BY LiveMessages DEF IInv, Tick, Live
<1>2. \A x \in Live : /\ left[x] \in Times /\ left[x] > -Lag
                       /\ left'[x] = left[x] - 1 /\ left'[x] \in Times
  <2> SUFFICES ASSUME NEW x \in Live
               PROVE  /\ left[x] \in Times /\ left[x] > -Lag
                      /\ left'[x] = left[x] - 1 /\ left'[x] \in Times
    OBVIOUS
  <2>1. left[x] \in Times /\ left[x] > -Lag /\ left'[x] = left[x] - 1
    BY <1>1 DEF IInv, TypeOK, Tick
  <2>2. left[x] - 1 \in Times
    BY <2>1, TimesAssumption DEF Times
  <2>3. QED
    BY <2>1, <2>2
<1>3. TypeOK'
  <2>1. now' \in I32 /\ left' \in [Messages -> Times]
    <3>1. now' \in I32
      BY WidthAssumption DEF IInv, TypeOK, Tick, I32, WrappingAdd, Wrap
    <3>2. \A x \in Messages : left'[x] \in Times
      BY <1>2 DEF IInv, TypeOK, Tick
    <3>3. QED
      BY <3>1, <3>2 DEF Tick
  <2>2. slack' \in 0..Delay
    BY TimesAssumption DEF IInv, TypeOK, Tick
  <2>3. current' \in 0..MaxReload /\ pended' \in BOOLEAN
    BY TimesAssumption DEF IInv, TypeOK, Tick, Count
  <2>4. QED
    BY <2>1, <2>2, <2>3 DEF IInv, TypeOK, Tick, Count
<1>4. PlacesOK' /\ InitOK' /\ TickintOK'
  BY DEF IInv, PlacesOK, InitOK, TickintOK, Tick, Count
<1>5. InstantsExact'
  <2> SUFFICES ASSUME NEW x \in Live
               PROVE  WrappingSub(instant[x], WrappingAdd(now, 1)) = left[x] - 1
    BY <1>1, <1>2 DEF InstantsExact, Tick
  <2>1. now \in I32 /\ instant[x] \in I32 /\ WrappingSub(instant[x], now) = left[x]
    BY <1>1 DEF IInv, TypeOK, InstantsExact
  <2>2. QED
    BY <1>2, <2>1, WrapTick
<1>6. ClaimOK'
  <2>1. queue \subseteq Live
    BY DEF Live
  <2>2. CASE InClaim
    <3>1. root \in queue /\ InClaim' /\ root' = root /\ queue' = queue
      BY <2>2 DEF IInv, PlacesOK, InClaim, Tick
    <3>2. \A y \in queue : left[root] <= left[y] /\ left[y] \in Int
      BY <1>2, <2>1, <2>2, TimesAssumption DEF IInv, ClaimOK, Times
    <3>3. \A y \in queue : left'[root] <= left'[y]
      BY <1>2, <2>1, <3>1, <3>2
    <3>4. diff' = left'[root] + slack'
      BY <1>2, <2>1, <2>2, <3>1, <3>2, TimesAssumption DEF IInv, TypeOK, ClaimOK, Tick
    <3>5. QED
      BY <3>1, <3>3, <3>4 DEF IInv, ClaimOK, Tick, Count, InClaim
  <2>3. CASE ~InClaim
    BY <2>3 DEF ClaimOK, InClaim, Tick
  <2>4. QED
    BY <2>2, <2>3
<1>7. WakesInTime'
  <2> SUFFICES ASSUME Waiting', ~Stalled'
               PROVE  /\ Counting'
                      /\ \A x \in queue :
                            Remaining' <= (IF left'[x] < 0 THEN 0 ELSE left'[x]) + slack + 1
    BY DEF WakesInTime, Tick, Waiting, InClaim
  <2>1. Waiting /\ ~Stalled /\ pc = "out"
    BY DEF Waiting, Stalled, Tick, Count
  <2>2. /\ Counting
        /\ \A x \in queue : Remaining <= (IF left[x] < 0 THEN 0 ELSE left[x]) + slack + 1
    BY <2>1 DEF IInv, WakesInTime
  <2>3. current # 1
    BY <2>2 DEF Waiting, Counting, Tick, Count
  <2>4. /\ current \in 0..MaxReload /\ reload \in 0..MaxReload
        /\ slack \in Nat /\ MaxReload \in Nat
    BY TimesAssumption DEF IInv, TypeOK
  <2>5. Counting' /\ Remaining' = Remaining - 1 /\ Remaining \in Int
    BY <2>2, <2>3, <2>4 DEF Counting, Remaining, Tick, Count
  <2>6. \A x \in queue : left[x] \in Int /\ left'[x] = left[x] - 1
    BY <1>2, TimesAssumption DEF Live, Times
  <2>7. QED
    BY <2>2, <2>4, <2>5, <2>6
<1>8. QED
  BY <1>3, <1>4, <1>5, <1>6, <1>7 DEF IInv

(* A message enters the queue.  If it is the earliest, SysTick is pending; *)
(* if not, the counter is set for one that is at least as early.           *)
LEMMA ScheduleStep ==
    ASSUME IInv, NEW x \in Messages, NEW d \in Times, Schedule(x, d)
    PROVE  IInv'
<1>1. Live \subseteq Messages /\ Live' = Live \cup {x} /\ x \notin Live
  BY LiveMessages DEF IInv, Schedule, Live
<1>2. /\ left' = [left EXCEPT ![x] = d] /\ left'[x] = d
      /\ \A y \in Messages \ {x} : left'[y] = left[y] /\ instant'[y] = instant[y]
      /\ instant'[x] = WrappingAdd(now, d)
      /\ now \in I32 /\ d \in I32 /\ d \in Int
  BY WrapBack, TimesAssumption DEF IInv, TypeOK, Schedule, Times
<1>3. TypeOK'
  <2>1. WrappingAdd(now, d) \in I32
    BY <1>2, WrapType
  <2>2. instant' \in [Messages -> I32] /\ left' \in [Messages -> Times]
    BY <2>1 DEF IInv, TypeOK, Schedule
  <2>3. QED
    BY <2>2 DEF IInv, TypeOK, Schedule
<1>4. PlacesOK' /\ InitOK'
  BY <1>1, SMTT(5), ZenonT(60) DEF IInv, PlacesOK, InitOK, Schedule, InClaim, Live
<1>5. InstantsExact'
  <2> SUFFICES ASSUME NEW y \in Live'
               PROVE  WrappingSub(instant'[y], now) = left'[y]
    BY DEF InstantsExact, Schedule
  <2>1. CASE y = x
    BY <2>1, <1>2, WrapBack
  <2>2. CASE y # x
    BY <2>2, <1>1, <1>2 DEF IInv, InstantsExact
  <2>3. QED
    BY <2>1, <2>2
<1>6. ClaimOK' /\ TickintOK'
  BY DEF IInv, ClaimOK, InClaim, TickintOK, Schedule
<1>7. WakesInTime'
  <2> SUFFICES ASSUME Waiting', ~Stalled'
               PROVE  /\ Counting'
                      /\ \A y \in queue' :
                            Remaining' <= (IF left'[y] < 0 THEN 0 ELSE left'[y]) + slack + 1
    BY DEF WakesInTime, Schedule
  <2>1. PICK z \in queue : ~Earlier(instant'[x], instant'[z]) /\ ~pended
    BY <1>1, <1>2 DEF Waiting, Schedule, Live
  <2>2. /\ Counting /\ Counting' /\ Remaining' = Remaining
        /\ \A y \in queue : Remaining <= (IF left[y] < 0 THEN 0 ELSE left[y]) + slack + 1
    BY <2>1 DEF IInv, WakesInTime, Waiting, Stalled, Counting, Remaining, Schedule
  <2>3. z \in Live /\ queue \subseteq Live
    BY DEF Live
  <2>4. left'[z] <= left'[x]
    <3>1. Earlier(instant'[x], instant'[z]) <=> left'[x] < left'[z]
      BY <1>1, <1>3, <1>5, <2>3, EarlierExact DEF TypeOK, InstantsExact
    <3>2. QED
      BY <2>1, <3>1, <1>3, <1>1, <2>3, TimesAssumption DEF TypeOK, Times
  <2>5. \A y \in queue : y # x /\ left'[y] = left[y] /\ left[y] \in Int
    BY <1>1, <1>2, <2>3, TimesAssumption DEF IInv, TypeOK, Times
  <2>6. Remaining \in Int /\ slack \in Int
    BY TimesAssumption DEF IInv, TypeOK, Remaining
  <2>7. \A y \in queue :
           Remaining' <= (IF left'[y] < 0 THEN 0 ELSE left'[y]) + slack + 1
    BY <2>2, <2>5
  <2>8. Remaining' <= (IF left'[x] < 0 THEN 0 ELSE left'[x]) + slack + 1
    <3>1. Remaining' <= (IF left'[z] < 0 THEN 0 ELSE left'[z]) + slack + 1
      BY <2>7
    <3>2. left'[z] \in Int /\ left'[x] \in Int /\ left'[z] <= left'[x]
      BY <1>2, <2>4, <2>5
    <3>3. QED
      BY <2>2, <2>6, <3>1, <3>2
  <2>9. QED
    BY <2>2, <2>7, <2>8 DEF Schedule
<1>8. QED
  BY <1>3, <1>4, <1>5, <1>6, <1>7 DEF IInv

LEMMA EnterStep == ASSUME IInv, Enter PROVE IInv'
BY DEF IInv, Enter, clock, syst, TypeOK, PlacesOK, InstantsExact, Live, InitOK,
       ClaimOK, InClaim, TickintOK, WakesInTime, Waiting

(* The root of the heap is the earliest message in real time.              *)
LEMMA RootEarliest ==
    ASSUME IInv, NEW x \in Roots
    PROVE  x \in queue /\ \A y \in queue : left[x] <= left[y]
<1> SUFFICES ASSUME NEW y \in queue PROVE left[x] <= left[y]
  BY DEF Roots
<1>1. x \in Live /\ y \in Live /\ Live \subseteq Messages
  BY LiveMessages DEF IInv, Roots, Live
<1>2. ~(left[x] > left[y])
  BY <1>1, EarlierLeft DEF IInv, Roots
<1>3. left[x] \in Int /\ left[y] \in Int
  BY <1>1, TimesAssumption DEF IInv, TypeOK, Times
<1>4. QED
  BY <1>2, <1>3

LEMMA MeasureStep == ASSUME IInv, NEW x \in Messages, Measure(x) PROVE IInv'
<1>1. x \in queue /\ \A y \in queue : left[x] <= left[y]
  BY RootEarliest DEF Measure
<1>2. x \in Live /\ Live' = Live
  BY <1>1 DEF Measure, Live
<1>3. diff' = left[x] /\ left[x] \in Times
  BY <1>2 DEF IInv, InstantsExact, TypeOK, Measure
<1>4. TypeOK'
  <2>1. diff' \in I32
    BY WrapType DEF IInv, TypeOK, Measure
  <2>2. 0 \in 0..Delay
    BY TimesAssumption
  <2>3. QED
    BY <2>1, <2>2 DEF IInv, TypeOK, Measure, clock, syst
<1>5. PlacesOK' /\ InitOK' /\ TickintOK'
  BY <1>1 DEF IInv, PlacesOK, InitOK, TickintOK, Measure, clock, syst
<1>6. InstantsExact'
  BY <1>2 DEF IInv, InstantsExact, Measure, clock
<1>7. ClaimOK'
  BY <1>1, <1>3, TimesAssumption DEF ClaimOK, InClaim, Measure, clock, Times
<1>8. WakesInTime'
  BY DEF WakesInTime, Waiting, Measure
<1>9. QED
  BY <1>4, <1>5, <1>6, <1>7, <1>8 DEF IInv

LEMMA DisableInterruptStep == ASSUME IInv, DisableInterrupt PROVE IInv'
BY DEF IInv, DisableInterrupt, clock, TypeOK, PlacesOK, InstantsExact, Live, InitOK,
       ClaimOK, InClaim, TickintOK, WakesInTime, Waiting

LEMMA PopStep == ASSUME IInv, Pop PROVE IInv'
<1>1. root \in queue /\ root \in Messages
  BY DEF IInv, PlacesOK, TypeOK, Pop
<1>2. TypeOK'
  BY DEF IInv, TypeOK, Pop, clock, syst
<1>3. PlacesOK' /\ InitOK' /\ TickintOK'
  BY <1>1 DEF IInv, PlacesOK, InitOK, TickintOK, Pop, clock, syst
<1>4. InstantsExact'
  BY <1>1 DEF IInv, InstantsExact, Live, Pop, clock
<1>5. ClaimOK' /\ WakesInTime'
  BY DEF ClaimOK, InClaim, WakesInTime, Waiting, Pop
<1>6. QED
  BY <1>2, <1>3, <1>4, <1>5 DEF IInv

LEMMA SetReloadStep == ASSUME IInv, SetReload PROVE IInv'
<1>1. TypeOK'
  BY TimesAssumption, WidthAssumption DEF IInv, TypeOK, SetReload, SmallerOf, clock, I32
<1>2. PlacesOK' /\ InitOK' /\ TickintOK'
  BY DEF IInv, PlacesOK, InitOK, TickintOK, SetReload, clock
<1>3. InstantsExact'
  BY DEF IInv, InstantsExact, Live, SetReload, clock
<1>4. ClaimOK' /\ WakesInTime'
  BY DEF IInv, ClaimOK, InClaim, WakesInTime, Waiting, SetReload, clock
<1>5. QED
  BY <1>1, <1>2, <1>3, <1>4 DEF IInv

(* The counter starts from min(MAX, diff): no later than the root needs.   *)
LEMMA ClearCurrentStep == ASSUME IInv, ClearCurrent PROVE IInv'
<1>1. TypeOK'
  BY TimesAssumption DEF IInv, TypeOK, ClearCurrent, clock
<1>2. PlacesOK' /\ InitOK' /\ TickintOK'
  BY DEF IInv, PlacesOK, InitOK, TickintOK, ClearCurrent, clock
<1>3. InstantsExact'
  BY DEF IInv, InstantsExact, Live, ClearCurrent, clock
<1>4. ClaimOK'
  BY DEF IInv, ClaimOK, InClaim, ClearCurrent
<1>5. WakesInTime'
  <2> SUFFICES ASSUME Waiting', ~Stalled'
               PROVE  /\ Counting'
                      /\ \A x \in queue :
                            Remaining' <= (IF left[x] < 0 THEN 0 ELSE left[x]) + slack + 1
    BY DEF WakesInTime, ClearCurrent, clock
  <2>1. /\ diff >= 0 /\ reload = SmallerOf(MaxReload, diff)
        /\ root \in queue /\ diff = left[root] + slack
        /\ \A x \in queue : left[root] <= left[x]
    BY DEF IInv, PlacesOK, ClaimOK, InClaim, ClearCurrent
  <2>2. /\ diff \in Int /\ slack \in Nat
        /\ \A x \in queue : left[x] \in Int
    BY TimesAssumption DEF IInv, TypeOK, I32, Times
  <2>3. reload > 0 /\ reload <= diff /\ reload \in Nat
    BY <2>1, <2>2, TimesAssumption DEF Stalled, SmallerOf, ClearCurrent
  <2>4. Counting' /\ Remaining' = reload + 1
    BY <2>3 DEF IInv, TickintOK, Waiting, Counting, Remaining, ClearCurrent
  <2>5. QED
    BY <2>1, <2>2, <2>3, <2>4
<1>6. QED
  BY <1>1, <1>2, <1>3, <1>4, <1>5 DEF IInv

LEMMA DeliverStep == ASSUME IInv, Deliver PROVE IInv'
<1>1. TypeOK' /\ PlacesOK'
  BY DEF IInv, TypeOK, PlacesOK, Deliver, clock, syst
<1>2. InitOK' /\ TickintOK' /\ ClaimOK' /\ WakesInTime'
  BY DEF IInv, InitOK, TickintOK, ClaimOK, InClaim, WakesInTime, Waiting, Deliver, clock, syst
<1>3. InstantsExact'
  BY DEF IInv, InstantsExact, Live, Deliver, clock
<1>4. QED
  BY <1>1, <1>2, <1>3 DEF IInv

LEMMA StartStep == ASSUME IInv, NEW x \in Messages, Start(x) PROVE IInv'
<1>1. x \notin queue /\ (pc = "popped" => x # root)
  BY DEF IInv, PlacesOK, Start
<1>2. /\ Live \subseteq Messages /\ Live' \subseteq Live \ {x}
      /\ \A y \in Messages \ {x} : left'[y] = left[y] /\ instant'[y] = instant[y]
      /\ \A y \in queue : y \in Messages \ {x}
  BY <1>1, LiveMessages DEF IInv, TypeOK, Start, Live
<1>3. TypeOK'
  <2>1. 0 \in I32 /\ 0 \in Times
    BY WidthAssumption, TimesAssumption DEF I32, Times
  <2>2. QED
    BY <2>1 DEF IInv, TypeOK, Start, syst
<1>4. PlacesOK' /\ InitOK' /\ TickintOK'
  BY DEF IInv, PlacesOK, InitOK, TickintOK, Start, syst
<1>5. InstantsExact'
  BY <1>2 DEF IInv, InstantsExact, Start
<1>6. ClaimOK'
  BY <1>2 DEF IInv, PlacesOK, ClaimOK, InClaim, Start, syst
<1>7. WakesInTime'
  BY <1>2 DEF IInv, WakesInTime, Waiting, Stalled, Counting, Remaining, Start, syst
<1>8. QED
  BY <1>3, <1>4, <1>5, <1>6, <1>7 DEF IInv

LEMMA StutterStep == ASSUME IInv, UNCHANGED vars PROVE IInv'
BY DEF vars, clock, syst, IInv, TypeOK, PlacesOK, InstantsExact, Live, InitOK,
       ClaimOK, InClaim, TickintOK, WakesInTime, Waiting, Stalled, Counting, Remaining

(* Every step of the timer queue preserves the inductive invariant.        *)
THEOREM Inductive == Spec => []IInv
<1>1. Init => IInv
  BY InitIInv
<1>2. IInv /\ [Next]_vars => IInv'
  <2> SUFFICES ASSUME IInv, [Next]_vars PROVE IInv'
    OBVIOUS
  <2>1. CASE PostInit
    BY <2>1, PostInitStep
  <2>2. CASE Tick
    BY <2>2, TickStep
  <2>3. CASE SysTick
    BY <2>3, EnterStep, DisableInterruptStep, PopStep, SetReloadStep,
       ClearCurrentStep, DeliverStep, MeasureStep DEF SysTick
  <2>4. CASE \E x \in Messages : Start(x)
    BY <2>4, StartStep
  <2>5. CASE \E x \in Messages : \E d \in Times : Schedule(x, d)
    BY <2>5, ScheduleStep
  <2>6. CASE UNCHANGED vars
    BY <2>6, StutterStep
  <2>7. QED
    BY <2>1, <2>2, <2>3, <2>4, <2>5, <2>6 DEF Next
<1>3. QED
  BY <1>1, <1>2, PTL DEF Spec

-----------------------------------------------------------------------------
(* The properties the runs check.                                          *)

(* Every variable has its type: no instant leaves the i32, no reload value *)
(* the counter.                                                            *)
THEOREM TypeCorrect == Spec => []TypeOK
<1>1. IInv => TypeOK
  BY DEF IInv
<1>2. QED
  BY <1>1, Inductive, PTL

(* Wrapped differences from the clock are the real time that is left.      *)
THEOREM InstantsCorrect == Spec => []InstantsExact
<1>1. IInv => InstantsExact
  BY DEF IInv
<1>2. QED
  BY <1>1, Inductive, PTL

(* The counter always wakes SysTick as soon as the earliest instant has    *)
(* passed, unless the reload value was 0.                                  *)
THEOREM TimerInTime == Spec => []WakesInTime
<1>1. IInv => WakesInTime
  BY DEF IInv
<1>2. QED
  BY <1>1, Inductive, PTL

(* A message that is ready was released after its instant.                 *)
Overdue == /\ pc = "popped" => left[root] < 0
           /\ \A x \in ready : left[x] < 0

LEMMA OverdueStep == ASSUME IInv, [Next]_vars, Overdue PROVE Overdue'
<1>1. ASSUME PostInit \/ UNCHANGED vars PROVE Overdue'
  BY <1>1 DEF Overdue, PostInit, vars, clock, syst
<1>2. ASSUME Tick PROVE Overdue'
  <2>1. \A x \in Live : x \in Messages /\ left[x] \in Int /\ left'[x] = left[x] - 1
    BY <1>2, LiveMessages, TimesAssumption DEF IInv, TypeOK, Tick, Times
  <2>2. ready \subseteq Live /\ (pc = "popped" => root \in Live)
    BY DEF Live
  <2>3. pc' = pc /\ root' = root /\ ready' = ready
    BY <1>2 DEF Tick
  <2>4. (pc = "popped" => left'[root] < 0) /\ \A x \in ready : left'[x] < 0
    BY <2>1, <2>2 DEF Overdue
  <2>5. QED
    BY <2>3, <2>4 DEF Overdue
<1>3. ASSUME NEW x \in Messages, NEW d \in Times, Schedule(x, d) PROVE Overdue'
  BY <1>3 DEF Overdue, Schedule, IInv, TypeOK, Live
<1>4. ASSUME NEW x \in Messages, Start(x) PROVE Overdue'
  BY <1>4 DEF Overdue, Start, IInv, TypeOK, PlacesOK, syst
<1>5. ASSUME Pop PROVE Overdue'
  <2>1. /\ diff < 0 /\ diff = left[root] + slack /\ slack \in Nat
        /\ left[root] \in Int
    BY <1>5, TimesAssumption DEF Pop, IInv, TypeOK, PlacesOK, ClaimOK, InClaim, Times
  <2>2. left[root] < 0
    BY <2>1
  <2>3. QED
    BY <1>5, <2>2 DEF Overdue, Pop, clock
<1>6. ASSUME SysTick, ~Pop PROVE Overdue'
  BY <1>6 DEF Overdue, SysTick, Enter, DisableInterrupt, SetReload, ClearCurrent,
              Deliver, Measure, clock, syst
<1>7. QED
  BY <1>1, <1>2, <1>3, <1>4, <1>5, <1>6 DEF Next

(* Elapsed tells the lateness, provided the program was built without      *)
(* overflow checks: with them the plain subtraction panics across a wrap.  *)
THEOREM LatenessCorrect ==
    ASSUME ~OverflowChecks PROVE Spec => []LatenessExact
<1>1. Init => Overdue
  BY DEF Init, Overdue
<1>2. IInv /\ [Next]_vars /\ Overdue => Overdue'
  BY OverdueStep
<1>3. IInv /\ Overdue => LatenessExact
  <2> SUFFICES ASSUME IInv, Overdue, NEW x \in ready
               PROVE  DurationSince(now, instant[x]) = -left[x]
    BY DEF LatenessExact
  <2>1. /\ x \in Live /\ instant[x] \in I32 /\ now \in I32 /\ left[x] \in Times
        /\ left[x] < 0
    BY DEF IInv, TypeOK, Overdue, Live
  <2>2. WrappingSub(instant[x], now) = left[x]
    BY <2>1 DEF IInv, InstantsExact
  <2>3. WrappingSub(now, instant[x]) = -left[x]
    BY <2>1, <2>2, WidthAssumption, TimesAssumption DEF WrappingSub, Wrap, I32, Times
  <2>4. ~(-left[x] < 0)
    BY <2>1, TimesAssumption DEF Times
  <2>5. QED
    BY <2>3, <2>4 DEF DurationSince
<1>4. QED
  BY <1>1, <1>2, <1>3, Inductive, PTL DEF Spec

-----------------------------------------------------------------------------
(* The timer queue implements Deadlines: every release is after the        *)
(* instant and the earliest first.                                         *)
Bar == [x \in queue |-> left[x]]

LEMMA ReleaseStep == ASSUME IInv, Pop PROVE \E x \in Messages : D!Release(x)
<1>1. /\ root \in queue /\ root \in Messages
      /\ \A y \in queue : left[root] <= left[y]
      /\ diff < 0 /\ diff = left[root] + slack /\ slack \in Nat /\ left[root] \in Int
  BY TimesAssumption DEF IInv, PlacesOK, ClaimOK, InClaim, TypeOK, Times, Pop
<1>2. left[root] < 0
  BY <1>1
<1>3. D!Release(root)
  BY <1>1, <1>2 DEF D!Release, Pop, clock
<1>4. QED
  BY <1>1, <1>3 DEF D!Release

(* Messages are released after their instants and in the order of their    *)
(* instants (tq.rs, sys_tick), for every width of the clock.               *)
THEOREM Implements == Spec => MeetsDeadlines
<1>1. Init => D!DeadlinesInit
  BY DEF Init, D!DeadlinesInit
<1>2. IInv /\ [Next]_vars => [D!DeadlinesNext]_Bar
  <2> SUFFICES ASSUME IInv, [Next]_vars PROVE [D!DeadlinesNext]_Bar
    OBVIOUS
  <2>1. CASE Tick
    <3>1. \A x \in queue : left'[x] = left[x] - 1
      BY <2>1 DEF Tick, IInv, TypeOK, Live
    <3>2. D!Pass
      BY <2>1, <3>1 DEF D!Pass, Tick
    <3>3. QED
      BY <3>2 DEF D!DeadlinesNext
  <2>2. ASSUME NEW x \in Messages, NEW d \in Times, Schedule(x, d)
        PROVE  D!Schedule(x, d)
    BY <2>2 DEF D!Schedule, Schedule, Live, IInv, TypeOK
  <2>3. CASE Pop
    BY <2>3, ReleaseStep DEF D!DeadlinesNext
  <2>4. ASSUME NEW x \in Messages, Start(x) PROVE Bar' = Bar
    BY <2>4 DEF Bar, Start, IInv, TypeOK, PlacesOK
  <2>5. ASSUME PostInit \/ (SysTick /\ ~Pop) \/ UNCHANGED vars PROVE Bar' = Bar
    BY <2>5 DEF Bar, PostInit, SysTick, Enter, DisableInterrupt, SetReload,
                ClearCurrent, Deliver, Measure, vars, clock, syst
  <2>6. QED
    BY <2>1, <2>2, <2>3, <2>4, <2>5 DEF Next, D!DeadlinesNext
<1>3. Spec => D!DeadlinesSpec
  BY <1>1, <1>2, Inductive, PTL DEF Spec, D!DeadlinesSpec, Bar
<1>4. QED
  BY <1>3 DEF MeetsDeadlines
=============================================================================
