---------------------------- MODULE KernelProofs ----------------------------
(***************************************************************************)
(* Theorems about module Kernel, for every application and every device    *)
(* that meet its assumptions.                                              *)
(*                                                                         *)
(* What makes MutualExclusion hold is not visible in it: a claim protects  *)
(* its resource because BASEPRI masks exactly the handlers up to the       *)
(* priority cell, and it still does after handlers have come, claimed,     *)
(* released and gone.  The inductive invariant IInv says so for the        *)
(* running context and, through the values run() saved, for each of the    *)
(* contexts below it.                                                      *)
(***************************************************************************)
EXTENDS Kernel, SequenceTheorems, TLAPS

Prio == LogicalPriority

PrioritiesFit == \A h \in Handlers : Priority[h] <= Levels

(* Running, in terms of logical priorities.                                *)
Top(c) == c \in active /\ \A d \in active \ {c} : Prio[d] < Prio[c]

(* BASEPRI value b masks the handlers up to priority lvl once those up to  *)
(* the priority of c are masked by c itself.                               *)
MasksUpTo(b, c, lvl) ==
    \E m \in 0..(Levels - 1) :
        /\ b = Logical2hw(m)
        /\ m <= lvl /\ Prio[c] <= lvl
        /\ m = lvl \/ Prio[c] = lvl

(* A claim e that context c is inside of while its cell holds p.           *)
ClaimOK(c, e, p) ==
    /\ e.res \in Proxies(c)
    /\ Ceiling[e.res] <= p
    /\ Prio[c] <= e.current
    /\ e.lock # "none" => e.current < Ceiling[e.res]
    /\ e.lock = "basepri" => Armv7m
    /\ e.lock = "primask" => p = 255 /\ ~e.masked

(* Claim f inside claim e.                                                 *)
NestOK(e, f) ==
    /\ Ceiling[e.res] <= f.current
    /\ e.lock = "primask" => f.current = 255

(* The cell value p of c covers the ceilings of its stack s of claims, and *)
(* each saved value covers those of the claims around it.                  *)
StackOK(c, s, p) ==
    /\ Prio[c] <= p
    /\ \A i \in 1..Len(s) : ClaimOK(c, s[i], p)
    /\ \A i, j \in 1..Len(s) : i < j => NestOK(s[i], s[j])

(* Of two contexts the higher one is above the cell of the lower one.      *)
Ordered ==
    \A a, b \in active : a # b =>
        \/ priority[a] < Prio[b] /\ Prio[a] < Prio[b]
        \/ priority[b] < Prio[a] /\ Prio[b] < Prio[a]

PrimaskOK ==
    /\ primask => \E c \in active : \E i \in 1..Len(claims[c]) :
                     claims[c][i].lock = "primask"
    /\ \A c \in active : \A i \in 1..Len(claims[c]) :
          claims[c][i].lock = "primask" =>
             primask /\ MasksUpTo(basepri, c, claims[c][i].current)

IsLevel(b) == \E m \in 0..(Levels - 1) : b = Logical2hw(m)

BasepriOK ==
    /\ IsLevel(basepri) /\ \A h \in active \cap Handlers : IsLevel(initial[h])
    /\ ~primask => \A c \in Contexts : Top(c) => MasksUpTo(basepri, c, priority[c])
    /\ ~Armv7m => basepri = 0 /\ \A h \in active \cap Handlers : initial[h] = 0

(* a is the context that b preempted.                                      *)
Preempted(a, b) ==
    /\ Prio[a] < Prio[b]
    /\ \A d \in active : ~(Prio[a] < Prio[d] /\ Prio[d] < Prio[b])

SavedOK ==
    \A a \in active, b \in active \cap Handlers :
        Preempted(a, b) => MasksUpTo(initial[b], a, priority[a])

Booted ==
    /\ "idle" \in active
    /\ PrioritiesFit
    /\ \A c \in active : StackOK(c, claims[c], priority[c])
    /\ Ordered
    /\ PrimaskOK
    /\ BasepriOK
    /\ SavedOK

IInv ==
    /\ TypeOK
    /\ claims["init"] = <<>>
    /\ "init" \in active => active = {"init"} /\ basepri = 0 /\ primask
    /\ "init" \notin active => Booted

-----------------------------------------------------------------------------
(* The constants.                                                          *)

LEMMA LevelsTable == Levels \in {2, 4, 8, 16, 32, 64, 128}
BY DeviceAssumption DEF Levels

LEMMA LevelsNat == Levels \in Nat /\ 2 <= Levels /\ Levels <= 128
BY LevelsTable

(* The conversion reverses the order of the priorities, 0 masks nothing.   *)
LEMMA Logical2hwOrder ==
    /\ \A p \in Int : Logical2hw(p) \in 0..255
    /\ Logical2hw(0) = 0
    /\ \A p \in 1..Levels : Logical2hw(p) = 256 - p * (256 \div Levels)
    /\ \A p, q \in 1..Levels : Logical2hw(p) < Logical2hw(q) <=> q < p
    /\ \A p \in 1..(Levels - 1) : Logical2hw(p) # 0
<1> DEFINE S == 256 \div Levels
<1>1. S \in 1..256 /\ Levels * S = 256 /\ Levels \in 2..128
  BY LevelsTable
<1>2. \A p \in Int : (Levels - p) * S \in Int
  BY <1>1
<1>3. \A p \in Int : Logical2hw(p) \in 0..255
  <2> SUFFICES ASSUME NEW p \in Int PROVE Logical2hw(p) \in 0..255
    OBVIOUS
  <2>1. (Levels - p) * S \in Int
    BY <1>2
  <2> QED
    BY <2>1 DEF Logical2hw
<1>4. \A p \in 1..Levels : Logical2hw(p) = 256 - p * S
  <2> SUFFICES ASSUME NEW p \in 1..Levels PROVE Logical2hw(p) = 256 - p * S
    OBVIOUS
  <2> QED
    BY LevelsTable DEF Logical2hw
<1>5. Logical2hw(0) = 0
  BY LevelsTable DEF Logical2hw
<1>6. \A p, q \in 1..Levels : 256 - p * S < 256 - q * S <=> q < p
  BY LevelsTable
<1>7. \A p \in 1..(Levels - 1) : 256 - p * S # 0
  BY LevelsTable
<1> QED
  BY <1>1, <1>3, <1>4, <1>5, <1>6, <1>7

LEMMA Logical2hwRange == \A p \in 0..255 : Logical2hw(p) \in 0..255
BY Logical2hwOrder

LEMMA Logical2hwInjective ==
    \A k, m \in 0..(Levels - 1) : Logical2hw(k) = Logical2hw(m) => k = m
<1> SUFFICES ASSUME NEW k \in 0..(Levels - 1), NEW m \in 0..(Levels - 1),
                    Logical2hw(k) = Logical2hw(m)
             PROVE  k = m
  OBVIOUS
<1>1. CASE k # 0 /\ m # 0
  <2>1. k \in 1..Levels /\ m \in 1..Levels
    BY <1>1, LevelsNat
  <2>2. Logical2hw(k) \in 0..255 /\ Logical2hw(m) \in 0..255
    BY Logical2hwOrder, LevelsNat
  <2>3. ~(k < m) /\ ~(m < k)
    BY <2>1, <2>2, Logical2hwOrder
  <2> QED
    BY <2>1, <2>3, LevelsNat
<1>2. CASE k = 0 \/ m = 0
  <2>1. \A p \in 0..(Levels - 1) : Logical2hw(p) = 0 => p = 0
    BY Logical2hwOrder, LevelsNat
  <2> QED
    BY <1>2, <2>1, Logical2hwOrder
<1> QED
  BY <1>1, <1>2

LEMMA PrioFacts ==
    /\ Prio \in [Contexts -> 0..255]
    /\ Prio["init"] = 255 /\ Prio["idle"] = 0
    /\ \A h \in Handlers : Prio[h] = Priority[h]
    /\ \A c \in Contexts \ {"init"} : c = "idle" \/ c \in Handlers
    /\ "init" \in Contexts /\ "idle" \in Contexts /\ Handlers \subseteq Contexts
BY HandlersAssumption DEF Prio, LogicalPriority, Contexts

LEMMA ProxyFacts ==
    ASSUME PrioritiesFit, NEW c \in Contexts, NEW r \in Proxies(c)
    PROVE  /\ r \in Resources /\ r \in Uses[c] /\ c # "init"
           /\ Prio[c] < Ceiling[r] /\ Ceiling[r] \in 1..Levels
<1>1. r \in Resources /\ r \in Uses[c] /\ c # "init" /\ Prio[c] < Ceiling[r]
  BY CeilingAssumption DEF Proxies, NeedsLock, Prio
<1>2. c \in Users(r)
  BY <1>1 DEF Users
<1>3. PICK d \in Users(r) : Prio[d] = Ceiling[r]
  BY <1>1, <1>2, CeilingAssumption DEF Prio
<1>4. Prio[d] <= Levels
  BY PrioFacts, PrioritiesFit, LevelsTable, HandlersAssumption DEF Users, PrioritiesFit
<1> QED
  BY <1>1, <1>3, <1>4, PrioFacts, CeilingAssumption, LevelsTable

LEMMA HwFacts ==
    ASSUME PrioritiesFit, PositivePriorities
    PROVE  \A c, d \in Contexts \ {"init"} :
              HwPriority(c) < HwPriority(d) <=> Prio[d] < Prio[c]
<1> SUFFICES ASSUME NEW c \in Contexts \ {"init"}, NEW d \in Contexts \ {"init"}
             PROVE  HwPriority(c) < HwPriority(d) <=> Prio[d] < Prio[c]
  OBVIOUS
<1>1. \A h \in Handlers : Prio[h] \in 1..Levels
  <2> SUFFICES ASSUME NEW h \in Handlers PROVE Prio[h] \in 1..Levels
    OBVIOUS
  <2>1. Priority[h] \in 0..255
    BY HandlersAssumption
  <2>2. Priority[h] <= Levels /\ Priority[h] >= 1
    BY PrioritiesFit, PositivePriorities DEF PrioritiesFit, PositivePriorities
  <2> QED
    BY <2>1, <2>2, LevelsNat, PrioFacts
<1>2. \A h \in Handlers : HwPriority(h) = Logical2hw(Prio[h])
  BY PrioFacts DEF HwPriority
<1>3. HwPriority("idle") = 256
  BY HandlersAssumption DEF HwPriority
<1>4. \A h \in Handlers : HwPriority(h) \in 0..255
  <2> SUFFICES ASSUME NEW h \in Handlers PROVE HwPriority(h) \in 0..255
    OBVIOUS
  <2>1. Prio[h] \in Int
    BY <1>1, LevelsNat
  <2> QED
    BY <1>2, <2>1, Logical2hwOrder
<1>5. CASE c \in Handlers /\ d \in Handlers
  BY <1>5, <1>1, <1>2, Logical2hwOrder
<1>6. CASE c = "idle" \/ d = "idle"
  BY <1>6, <1>1, <1>3, <1>4, PrioFacts, LevelsTable
<1> QED
  BY <1>5, <1>6, PrioFacts

-----------------------------------------------------------------------------
(* Type correctness.                                                       *)

LEMMA EmptyStack == <<>> \in Seq(Claims) /\ Len(<<>>) = 0
BY EmptySeq

LEMMA PrioType == LogicalPriority \in [Contexts -> 0..255]
BY PrioFacts DEF Prio

LEMMA StackPush ==
    ASSUME NEW s \in Seq(Claims), NEW e \in Claims
    PROVE  /\ Append(s, e) \in Seq(Claims)
           /\ Len(Append(s, e)) = Len(s) + 1
           /\ \A i \in 1..Len(s) : Append(s, e)[i] = s[i]
           /\ Append(s, e)[Len(s) + 1] = e
OBVIOUS

LEMMA StackPop ==
    ASSUME NEW s \in Seq(Claims), s # <<>>
    PROVE  /\ Len(s) \in Nat /\ Len(s) >= 1
           /\ s[Len(s)] \in Claims
           /\ SubSeq(s, 1, Len(s) - 1) \in Seq(Claims)
           /\ Len(SubSeq(s, 1, Len(s) - 1)) = Len(s) - 1
           /\ \A i \in 1..(Len(s) - 1) : SubSeq(s, 1, Len(s) - 1)[i] = s[i]
<1>1. Len(s) \in Nat /\ Len(s) >= 1
  BY EmptySeq
<1>2. \A i \in 1..Len(s) : s[i] \in Claims
  BY ElementOfSeq
<1>3. /\ SubSeq(s, 1, Len(s) - 1) \in Seq(Claims)
      /\ Len(SubSeq(s, 1, Len(s) - 1)) = IF 1 <= Len(s) - 1 THEN Len(s) - 1 - 1 + 1 ELSE 0
      /\ \A i \in 1..(Len(s) - 1 - 1 + 1) : SubSeq(s, 1, Len(s) - 1)[i] = s[1 + i - 1]
  <2>1. 1 \in Int /\ Len(s) - 1 \in Int /\ \A i \in 1..(Len(s) - 1) : s[i] \in Claims
    BY <1>1, <1>2
  <2> QED
    BY <2>1, SubSeqProperties
<1>4. Len(SubSeq(s, 1, Len(s) - 1)) = Len(s) - 1
  <2>1. CASE 1 <= Len(s) - 1
    <3>1. Len(s) - 1 - 1 + 1 = Len(s) - 1
      BY <1>1
    <3> QED
      BY <1>3, <2>1, <3>1, Zenon
  <2>2. CASE ~(1 <= Len(s) - 1)
    <3> \A n \in Nat : n >= 1 /\ ~(1 <= n - 1) => n - 1 = 0
      OBVIOUS
    <3>1. Len(s) - 1 = 0
      BY <1>1, <2>2, Zenon
    <3> QED
      BY <1>3, <2>2, <3>1, Zenon
  <2> QED
    BY <2>1, <2>2
<1>5. ASSUME NEW i \in 1..(Len(s) - 1)
      PROVE  SubSeq(s, 1, Len(s) - 1)[i] = s[i]
  <2>1. i \in 1..(Len(s) - 1 - 1 + 1) /\ 1 + i - 1 = i
    BY <1>1
  <2> QED
    BY <1>3, <2>1
<1> QED
  BY <1>1, <1>2, <1>3, <1>4, <1>5

LEMMA EnterType ==
    ASSUME TypeOK, NEW c \in Contexts, NEW r, NEW lock \in Locks, Enter(c, r, lock)
    PROVE  /\ claims' \in [Contexts -> Seq(Claims)]
           /\ r \in Proxies(c) /\ r \in Resources
           /\ claims' = [claims EXCEPT ![c] = claims'[c]]
           /\ Len(claims'[c]) = Len(claims[c]) + 1 /\ Len(claims[c]) \in Nat
           /\ \A i \in 1..Len(claims[c]) : claims'[c][i] = claims[c][i]
           /\ claims'[c][Len(claims[c]) + 1] =
                 [res |-> r, current |-> priority[c], lock |-> lock, masked |-> primask]
           /\ claims'[c][Len(claims[c]) + 1].lock = lock
           /\ claims'[c][Len(claims[c]) + 1].current = priority[c]
<1> DEFINE e == [res |-> r, current |-> priority[c], lock |-> lock, masked |-> primask]
<1>1. r \in Proxies(c) /\ r \in Resources
  BY CeilingAssumption DEF Enter, Proxies
<1>2. e \in Claims
  BY <1>1 DEF TypeOK, Claims
<1>3. claims[c] \in Seq(Claims)
  BY DEF TypeOK
<1>4. e.lock = lock /\ e.current = priority[c]
  OBVIOUS
<1> HIDE DEF e
<1>5. claims' = [claims EXCEPT ![c] = Append(claims[c], e)]
  BY DEF Enter, e
<1>6. claims'[c] = Append(claims[c], e) /\ claims' = [claims EXCEPT ![c] = claims'[c]]
  BY <1>5 DEF TypeOK
<1>7. Len(claims[c]) \in Nat
  BY <1>3, LenProperties
<1>8. claims' \in [Contexts -> Seq(Claims)]
  BY <1>2, <1>3, <1>5, StackPush DEF TypeOK
<1>9. Len(claims'[c]) = Len(claims[c]) + 1 /\ claims'[c][Len(claims[c]) + 1] = e
  BY <1>2, <1>3, <1>6, StackPush
<1>10. \A i \in 1..Len(claims[c]) : claims'[c][i] = claims[c][i]
  BY <1>2, <1>3, <1>6, StackPush
<1> QED
  BY <1>1, <1>6, <1>7, <1>8, <1>9, <1>4, <1>10, Zenon DEF e

LEMMA LeaveType ==
    ASSUME TypeOK, NEW c \in Contexts, NEW r, NEW lock, Leave(c, r, lock)
    PROVE  /\ claims' \in [Contexts -> Seq(Claims)]
           /\ claims' = [claims EXCEPT ![c] = claims'[c]]
           /\ Len(claims[c]) \in Nat /\ Len(claims[c]) >= 1
           /\ Inmost(c) \in Claims
           /\ Len(claims'[c]) = Len(claims[c]) - 1
           /\ \A i \in 1..(Len(claims[c]) - 1) : claims'[c][i] = claims[c][i]
<1>1. claims[c] \in Seq(Claims) /\ claims[c] # <<>>
  BY DEF TypeOK, Leave
<1>2. claims' = [claims EXCEPT ![c] = SubSeq(claims[c], 1, Len(claims[c]) - 1)]
  BY DEF Leave
<1>3. /\ claims'[c] = SubSeq(claims[c], 1, Len(claims[c]) - 1)
      /\ claims' = [claims EXCEPT ![c] = claims'[c]]
  BY <1>2 DEF TypeOK
<1>4. claims' \in [Contexts -> Seq(Claims)]
  BY <1>1, <1>2, StackPop DEF TypeOK
<1> QED
  BY <1>1, <1>3, <1>4, StackPop DEF Inmost

LEMMA TypeStep == TypeOK /\ [Next]_vars => TypeOK'
<1> SUFFICES ASSUME TypeOK, [Next]_vars PROVE TypeOK'
  OBVIOUS
<1>1. CASE FinishInit
  <2>1. LogicalPriority["idle"] \in 0..255 /\ "idle" \in Contexts
    BY PrioType, PrioFacts
  <2> QED
    BY <1>1, <2>1, EmptyStack DEF FinishInit, TypeOK
<1>2. ASSUME NEW h \in Handlers, Pend(h) PROVE TypeOK'
  BY <1>2 DEF Pend, TypeOK
<1>3. ASSUME NEW h \in Handlers, Preempt(h) PROVE TypeOK'
  <2>1. LogicalPriority[h] \in 0..255 /\ h \in Contexts
    BY PrioType, PrioFacts
  <2> QED
    BY <1>3, <2>1, EmptyStack DEF Preempt, TypeOK
<1>4. ASSUME NEW h \in Handlers, Return(h) PROVE TypeOK'
  BY <1>4, DeviceAssumption DEF Return, TypeOK
<1>5. ASSUME NEW c \in Contexts, NEW r \in Resources, ClaimFree(c, r) PROVE TypeOK'
  <2>1. Enter(c, r, "none") /\ "none" \in Locks
    BY <1>5 DEF ClaimFree, Locks
  <2>2. claims' \in [Contexts -> Seq(Claims)]
    BY <2>1, EnterType
  <2> QED
    BY <1>5, <2>1, <2>2, SMTT(30), ZenonT(30) DEF ClaimFree, Enter, TypeOK
<1>6. ASSUME NEW c \in Contexts, NEW r \in Resources, ClaimBasepri(c, r) PROVE TypeOK'
  <2>1. Enter(c, r, "basepri") /\ "basepri" \in Locks
    BY <1>6 DEF ClaimBasepri, Locks
  <2>2. claims' \in [Contexts -> Seq(Claims)]
    BY <2>1, EnterType
  <2>3. Ceiling[r] \in 0..255 /\ basepri' \in 0..255
    BY <1>6, CeilingAssumption, Logical2hwRange, ZenonT(60) DEF ClaimBasepri
  <2> QED
    BY <1>6, <2>1, <2>2, <2>3, SMTT(5), ZenonT(60) DEF ClaimBasepri, Enter, TypeOK
<1>7. ASSUME NEW c \in Contexts, NEW r \in Resources, ClaimPrimask(c, r) PROVE TypeOK'
  <2>1. Enter(c, r, "primask") /\ "primask" \in Locks
    BY <1>7 DEF ClaimPrimask, Locks
  <2>2. claims' \in [Contexts -> Seq(Claims)]
    BY <2>1, EnterType
  <2> QED
    BY <1>7, <2>1, <2>2, SMTT(30), ZenonT(30) DEF ClaimPrimask, Enter, TypeOK
<1>8. ASSUME NEW c \in Contexts, NEW r \in Resources, ReleaseFree(c, r) PROVE TypeOK'
  <2>1. Leave(c, r, "none")
    BY <1>8 DEF ReleaseFree
  <2>2. claims' \in [Contexts -> Seq(Claims)]
    BY <2>1, LeaveType
  <2> QED
    BY <1>8, <2>1, <2>2, SMTT(30), ZenonT(30) DEF ReleaseFree, Leave, TypeOK
<1>9. ASSUME NEW c \in Contexts, NEW r \in Resources, ReleaseBasepri(c, r) PROVE TypeOK'
  <2>1. Leave(c, r, "basepri")
    BY <1>9 DEF ReleaseBasepri
  <2>2. claims' \in [Contexts -> Seq(Claims)] /\ Inmost(c).current \in 0..255
    BY <2>1, LeaveType, SMTT(5), ZenonT(60) DEF Claims
  <2>3. basepri' \in 0..255
    BY <1>9, <2>2, Logical2hwRange DEF ReleaseBasepri
  <2> QED
    BY <1>9, <2>1, <2>2, <2>3, SMTT(5), ZenonT(60) DEF ReleaseBasepri, Leave, TypeOK
<1>10. ASSUME NEW c \in Contexts, NEW r \in Resources, ReleasePrimask(c, r) PROVE TypeOK'
  <2>1. Leave(c, r, "primask")
    BY <1>10 DEF ReleasePrimask
  <2>2. /\ claims' \in [Contexts -> Seq(Claims)]
        /\ Inmost(c).current \in 0..255 /\ Inmost(c).masked \in BOOLEAN
    BY <2>1, LeaveType DEF Claims
  <2> QED
    BY <1>10, <2>1, <2>2 DEF ReleasePrimask, Leave, TypeOK
<1>11. CASE UNCHANGED vars
  BY <1>11 DEF vars, TypeOK
<1> QED
  BY <1>1, <1>2, <1>3, <1>4, <1>5, <1>6, <1>7, <1>8, <1>9, <1>10, <1>11
     DEF Next, Claim, Release

LEMMA TypeInit == Init => TypeOK
BY PrioType, PrioFacts, EmptyStack DEF Init, TypeOK

(* Every variable keeps its type: the cells, BASEPRI and the values run()  *)
(* and claim save never leave the range of a u8, whatever the priorities.  *)
THEOREM TypeCorrect == Spec => []TypeOK
BY TypeInit, TypeStep, PTL DEF Spec

-----------------------------------------------------------------------------
(* The inductive invariant.                                                *)

LEMMA BootedFacts ==
    ASSUME IInv, "init" \notin active, PositivePriorities
    PROVE  /\ PrioritiesFit /\ Booted
           /\ \A c \in active : /\ c \in Contexts /\ c # "init"
                                /\ Prio[c] \in 0..Levels
                                /\ priority[c] \in 0..255
           /\ \A c \in Contexts : Running(c) <=> Top(c)
           /\ Levels \in Nat /\ 2 <= Levels /\ Levels <= 128
<1>1. PrioritiesFit /\ Booted /\ TypeOK
  BY DEF IInv, Booted
<1>2. ASSUME NEW c \in active
      PROVE  c \in Contexts /\ c # "init" /\ Prio[c] \in 0..Levels /\ priority[c] \in 0..255
  <2>1. c \in Contexts /\ c # "init" /\ priority[c] \in 0..255
    BY <1>1 DEF TypeOK
  <2>2. CASE c = "idle"
    BY <2>1, <2>2, PrioFacts, LevelsNat
  <2>3. CASE c \in Handlers
    <3>1. Prio[c] \in 0..255 /\ Prio[c] <= Levels
      BY <1>1, <2>1, <2>3, PrioFacts DEF PrioritiesFit
    <3> QED
      BY <2>1, <3>1, LevelsNat
  <2> QED
    BY <2>1, <2>2, <2>3, PrioFacts
<1>3. ASSUME NEW c \in Contexts PROVE Running(c) <=> Top(c)
  BY <1>1, <1>2, HwFacts, PositivePriorities DEF Running, Top
<1> QED
  BY <1>1, <1>2, <1>3, LevelsNat

(* Only the top context can have masked everything.                        *)
LEMMA PrimaskAtTop ==
    ASSUME IInv, "init" \notin active, PositivePriorities,
           NEW c \in active, Top(c)
    PROVE  /\ \A d \in active \ {c} : \A i \in 1..Len(claims[d]) :
                 claims[d][i].lock # "primask"
           /\ primask => /\ priority[c] = 255
                         /\ \E i \in 1..Len(claims[c]) : claims[c][i].lock = "primask"
<1>1. ASSUME NEW d \in active \ {c}, NEW i \in 1..Len(claims[d])
      PROVE  claims[d][i].lock # "primask"
  <2>1. priority[d] < Prio[c] /\ Prio[c] <= 255
    BY BootedFacts DEF Booted, Ordered, Top
  <2>2. ClaimOK(d, claims[d][i], priority[d])
    BY BootedFacts DEF Booted, StackOK
  <2> QED
    BY <2>1, <2>2, BootedFacts DEF ClaimOK
<1>2. ASSUME primask
      PROVE  /\ priority[c] = 255
             /\ \E i \in 1..Len(claims[c]) : claims[c][i].lock = "primask"
  <2>1. PICK d \in active : \E i \in 1..Len(claims[d]) : claims[d][i].lock = "primask"
    BY <1>2, BootedFacts DEF Booted, PrimaskOK
  <2>2. d = c
    BY <1>1, <2>1
  <2> QED
    BY <2>1, <2>2, BootedFacts DEF Booted, StackOK, ClaimOK
<1> QED
  BY <1>1, <1>2

(* A step of the top context leaves the contexts below it in order.        *)
LEMMA TopStep ==
    ASSUME IInv, "init" \notin active, PositivePriorities,
           NEW c \in active, Top(c),
           UNCHANGED <<active, initial>>, priority'[c] \in 0..255,
           \A d \in Contexts \ {c} :
              priority'[d] = priority[d] /\ claims'[d] = claims[d]
    PROVE  /\ Ordered' /\ SavedOK' /\ PrioritiesFit'
           /\ "idle" \in active' /\ claims'["init"] = <<>>
           /\ \A d \in active \ {c} : StackOK(d, claims'[d], priority'[d])
<1> USE DEF Prio
<1>1. \A d \in active \ {c} :
         priority'[d] = priority[d] /\ claims'[d] = claims[d] /\ priority[d] < Prio[c]
  BY BootedFacts DEF Booted, Ordered, Top
<1>2. Ordered'
  <2> SUFFICES ASSUME NEW a \in active, NEW b \in active, a # b
               PROVE  \/ priority'[a] < Prio[b] /\ Prio[a] < Prio[b]
                      \/ priority'[b] < Prio[a] /\ Prio[b] < Prio[a]
    BY DEF Ordered
  <2>1. \/ priority[a] < Prio[b] /\ Prio[a] < Prio[b]
        \/ priority[b] < Prio[a] /\ Prio[b] < Prio[a]
    BY BootedFacts DEF Booted, Ordered
  <2>2. CASE a # c /\ b # c
    BY <2>1, <2>2, <1>1
  <2>3. CASE a = c
    BY <2>3, <1>1 DEF Top
  <2>4. CASE b = c
    BY <2>4, <1>1 DEF Top
  <2> QED
    BY <2>2, <2>3, <2>4
<1>3. SavedOK'
  <2> SUFFICES ASSUME NEW a \in active, NEW b \in active \cap Handlers, Preempted(a, b)'
               PROVE  MasksUpTo(initial[b], a, priority'[a])
    BY DEF SavedOK, MasksUpTo
  <2>1. Preempted(a, b)
    BY DEF Preempted
  <2>2. a # c
    <3> SUFFICES ASSUME a = c PROVE FALSE
      OBVIOUS
    <3>1. Prio[c] < Prio[b] /\ b # c
      BY <2>1, BootedFacts DEF Preempted
    <3>2. Prio[b] < Prio[c]
      BY <3>1 DEF Top
    <3> QED
      BY <3>1, <3>2, BootedFacts
  <2> QED
    BY <2>1, <2>2, <1>1, BootedFacts DEF Booted, SavedOK
<1>4. ASSUME NEW d \in active \ {c} PROVE StackOK(d, claims'[d], priority'[d])
  <2>1. StackOK(d, claims[d], priority[d])
    BY BootedFacts DEF Booted
  <2> QED
    BY <2>1, <1>1 DEF StackOK, ClaimOK, NestOK
<1>5. "idle" \in active' /\ claims'["init"] = <<>> /\ PrioritiesFit'
  BY BootedFacts, PrioFacts DEF Booted, IInv, PrioritiesFit
<1> QED
  BY <1>2, <1>3, <1>4, <1>5

LEMMA FinishInitStep ==
    ASSUME IInv, PositivePriorities, FinishInit
    PROVE  IInv'
<1> USE DEF Prio
<1>1. TypeOK'
  BY TypeStep DEF IInv, Next
<1>2. /\ active' = {"idle"} /\ ~primask' /\ basepri' = 0
      /\ claims'["idle"] = <<>> /\ priority'["idle"] = 0 /\ claims'["init"] = <<>>
  BY PrioFacts DEF FinishInit, IInv, TypeOK
<1>3. Len(claims'["idle"]) = 0
  BY <1>2, EmptyStack
<1>4. PrioritiesFit' /\ Ordered' /\ "idle" \in active'
  BY <1>2 DEF FinishInit, PrioritiesFit, Ordered
<1>5. \A c \in active' : StackOK(c, claims'[c], priority'[c])
  BY <1>2, <1>3, PrioFacts DEF StackOK
<1>6. PrimaskOK'
  BY <1>2, <1>3 DEF PrimaskOK
<1>7. BasepriOK'
  <2>1. MasksUpTo(basepri, "idle", priority["idle"])'
    BY <1>2, PrioFacts, Logical2hwOrder, LevelsNat DEF MasksUpTo
  <2>2. active' \cap Handlers = {}
    BY <1>2, HandlersAssumption
  <2>3. IsLevel(basepri)'
    BY <2>1 DEF IsLevel, MasksUpTo
  <2> QED
    BY <1>2, <2>1, <2>2, <2>3 DEF BasepriOK, Top
<1>8. SavedOK'
  BY <1>2, HandlersAssumption DEF SavedOK
<1> QED
  BY <1>1, <1>2, <1>4, <1>5, <1>6, <1>7, <1>8 DEF IInv, Booted

LEMMA PendStep ==
    ASSUME IInv, NEW h \in Handlers, Pend(h)
    PROVE  IInv'
<1>1. TypeOK'
  BY TypeStep DEF IInv, Next
<1>2. UNCHANGED <<active, basepri, primask, priority, initial, claims>>
  BY DEF Pend
<1> QED
  BY <1>1, <1>2 DEF IInv, Booted, StackOK, ClaimOK, NestOK, Ordered, PrimaskOK,
     BasepriOK, IsLevel, SavedOK, MasksUpTo, Top, Preempted, PrioritiesFit

(* A handler that BASEPRI lets in is above the cell of whom it preempts.   *)
LEMMA PreemptStep ==
    ASSUME IInv, PositivePriorities, NEW h \in Handlers, Preempt(h)
    PROVE  IInv'
<1> USE DEF Prio
<1>1. TypeOK' /\ TypeOK /\ "init" \notin active /\ ~primask
  BY TypeStep DEF IInv, Next, Preempt, Unmasked
<1>2. /\ active' = active \cup {h} /\ h \notin active
      /\ priority'[h] = Prio[h] /\ claims'[h] = <<>> /\ initial'[h] = basepri
      /\ \A d \in Contexts \ {h} : priority'[d] = priority[d] /\ claims'[d] = claims[d]
      /\ \A g \in Handlers \ {h} : initial'[g] = initial[g]
      /\ basepri' = basepri /\ primask' = primask
  BY <1>1, PrioFacts DEF Preempt, TypeOK
<1>3. h \in Contexts /\ h # "init" /\ Prio[h] \in 1..Levels
  BY BootedFacts, <1>1, PrioFacts, HandlersAssumption, PositivePriorities
     DEF PositivePriorities, PrioritiesFit
<1>4. \A d \in active : Prio[d] < Prio[h]
  BY <1>1, <1>3, BootedFacts, HwFacts, PositivePriorities DEF Preempt, Unmasked
<1>5. PICK m \in 0..(Levels - 1) : basepri = Logical2hw(m)
  BY <1>1, BootedFacts DEF Booted, BasepriOK, IsLevel
<1>6. m < Prio[h]
  <2>1. CASE m = 0
    BY <2>1, <1>3, BootedFacts, <1>1
  <2>2. CASE m # 0
    <3>1. m \in 1..(Levels - 1) /\ m \in 1..Levels
      BY <2>2, <1>1, BootedFacts
    <3>2. basepri # 0
      BY <1>5, <3>1, Logical2hwOrder
    <3>3. Logical2hw(Prio[h]) < Logical2hw(m)
      BY <3>2, <1>5, PrioFacts DEF Preempt, Unmasked, HwPriority
    <3> QED
      BY <3>1, <3>3, <1>3, Logical2hwOrder
  <2> QED
    BY <2>1, <2>2
<1>7. \A d \in active : priority[d] < Prio[h]
  <2> SUFFICES ASSUME NEW d \in active PROVE priority[d] < Prio[h]
    OBVIOUS
  <2>1. CASE Top(d)
    <3>1. PICK k \in 0..(Levels - 1) : /\ basepri = Logical2hw(k)
                                       /\ k = priority[d] \/ Prio[d] = priority[d]
      BY <1>1, <2>1, BootedFacts DEF Booted, BasepriOK, MasksUpTo
    <3>2. k = m
      BY <1>5, <3>1, Logical2hwInjective
    <3> QED
      BY <3>1, <3>2, <1>4, <1>6
  <2>2. CASE ~Top(d)
    <3>1. PICK e \in active \ {d} : ~(Prio[e] < Prio[d])
      BY <2>2 DEF Top
    <3>2. priority[d] < Prio[e] /\ Prio[e] < Prio[h]
      BY <3>1, <1>1, <1>4, BootedFacts DEF Booted, Ordered
    <3> QED
      BY <3>2, <1>1, <1>3, BootedFacts
  <2> QED
    BY <2>1, <2>2
<1>8. PrioritiesFit' /\ "idle" \in active' /\ claims'["init"] = <<>> /\ "init" \notin active'
  BY <1>1, <1>2, <1>3, BootedFacts, PrioFacts DEF Booted, PrioritiesFit, IInv
<1>9. Ordered'
  BY <1>1, <1>2, <1>4, <1>7, BootedFacts DEF Booted, Ordered
<1>10. \A c \in active' : StackOK(c, claims'[c], priority'[c])
  <2>1. StackOK(h, claims'[h], priority'[h])
    BY <1>2, <1>3, EmptyStack DEF StackOK
  <2>2. ASSUME NEW c \in active PROVE StackOK(c, claims'[c], priority'[c])
    <3>1. StackOK(c, claims[c], priority[c]) /\ priority'[c] = priority[c] /\ claims'[c] = claims[c]
      BY <1>1, <1>2, BootedFacts DEF Booted
    <3> QED
      BY <3>1 DEF StackOK, ClaimOK, NestOK
  <2> QED
    BY <1>2, <2>1, <2>2
<1>11. PrimaskOK'
  <2>1. \A c \in active : \A i \in 1..Len(claims[c]) : claims[c][i].lock # "primask"
    BY <1>1, BootedFacts DEF Booted, PrimaskOK
  <2>2. \A c \in active : claims'[c] = claims[c]
    BY <1>1, <1>2, BootedFacts
  <2>3. Len(claims'[h]) = 0
    BY <1>2, EmptyStack
  <2> QED
    BY <1>1, <1>2, <2>1, <2>2, <2>3 DEF PrimaskOK
<1>12. BasepriOK'
  <2>1. \A c \in Contexts : Top(c)' => c = h
    BY <1>2, <1>4, <1>3, BootedFacts, <1>1 DEF Top
  <2>2. MasksUpTo(basepri', h, priority'[h])
    BY <1>2, <1>5, <1>6, <1>3, BootedFacts, <1>1 DEF MasksUpTo
  <2>3. IsLevel(basepri)' /\ \A g \in active' \cap Handlers : IsLevel(initial'[g])
    BY <1>1, <1>2, BootedFacts DEF Booted, BasepriOK, IsLevel
  <2>4. ~Armv7m => basepri' = 0 /\ \A g \in active' \cap Handlers : initial'[g] = 0
    BY <1>1, <1>2, BootedFacts DEF Booted, BasepriOK
  <2> QED
    BY <2>1, <2>2, <2>3, <2>4 DEF BasepriOK, MasksUpTo, IsLevel
<1>13. SavedOK'
  <2> SUFFICES ASSUME NEW a \in active', NEW b \in active' \cap Handlers, Preempted(a, b)'
               PROVE  MasksUpTo(initial'[b], a, priority'[a])
    BY DEF SavedOK, MasksUpTo
  <2>1. /\ Prio[a] < Prio[b]
        /\ \A d \in active : ~(Prio[a] < Prio[d] /\ Prio[d] < Prio[b])
    BY <1>2 DEF Preempted
  <2>2. a # h /\ a \in active
    BY <1>1, <1>2, <1>3, <1>4, <2>1, BootedFacts
  <2>3. priority'[a] = priority[a]
    BY <1>1, <1>2, <2>2, BootedFacts
  <2>4. CASE b = h
    <3>1. Top(a)
      BY <2>1, <2>2, <2>4, <1>1, <1>4, BootedFacts DEF Top, Booted, Ordered
    <3> QED
      BY <3>1, <1>1, <1>2, <2>2, <2>3, <2>4, BootedFacts DEF Booted, BasepriOK
  <2>5. CASE b # h
    BY <2>1, <2>2, <2>3, <2>5, <1>1, <1>2, BootedFacts DEF Booted, SavedOK, Preempted
  <2> QED
    BY <2>4, <2>5
<1> QED
  BY <1>1, <1>8, <1>9, <1>10, <1>11, <1>12, <1>13 DEF IInv, Booted

(* A handler leaves BASEPRI as it was when the context below was on top.   *)
LEMMA ReturnStep ==
    ASSUME IInv, PositivePriorities, NEW h \in Handlers, Return(h)
    PROVE  IInv'
<1> USE DEF Prio
<1>1. TypeOK' /\ TypeOK /\ "init" \notin active /\ h \in active /\ h # "idle"
  BY TypeStep, HandlersAssumption DEF IInv, Next, Return, Running
<1>2. /\ active' = active \ {h} /\ claims[h] = <<>>
      /\ basepri' = IF Armv7m THEN initial[h] ELSE basepri
      /\ UNCHANGED <<primask, priority, initial, claims>>
  BY DEF Return
<1>3. Top(h)
  BY <1>1, BootedFacts DEF Return
<1>4. ~primask
  BY <1>1, <1>2, <1>3, PrimaskAtTop, EmptyStack
<1>5. basepri' = initial[h]
  BY <1>1, <1>2, BootedFacts DEF Booted, BasepriOK
<1>6. PrioritiesFit' /\ "idle" \in active' /\ claims'["init"] = <<>> /\ "init" \notin active'
  BY <1>1, <1>2, BootedFacts DEF Booted, PrioritiesFit, IInv
<1>7. Ordered' /\ \A c \in active' : StackOK(c, claims'[c], priority'[c])
  BY <1>1, <1>2, BootedFacts DEF Booted, Ordered, StackOK, ClaimOK, NestOK
<1>8. PrimaskOK'
  BY <1>1, <1>2, <1>4, BootedFacts DEF Booted, PrimaskOK
<1>9. BasepriOK'
  <2>1. ASSUME NEW c \in Contexts, Top(c)'
        PROVE  MasksUpTo(basepri', c, priority'[c])
    <3>1. c \in active /\ c # h /\ \A d \in active \ {c, h} : Prio[d] < Prio[c]
      BY <2>1, <1>2 DEF Top
    <3>2. Preempted(c, h)
      BY <3>1, <1>1, <1>3, BootedFacts DEF Top, Preempted
    <3> QED
      BY <3>1, <3>2, <1>1, <1>2, <1>5, BootedFacts DEF Booted, SavedOK
  <2>2. IsLevel(basepri') /\ \A g \in active' \cap Handlers : IsLevel(initial'[g])
    BY <1>1, <1>2, <1>5, BootedFacts DEF Booted, BasepriOK
  <2>3. ~Armv7m => basepri' = 0 /\ \A g \in active' \cap Handlers : initial'[g] = 0
    BY <1>1, <1>2, BootedFacts DEF Booted, BasepriOK
  <2> QED
    BY <2>1, <2>2, <2>3 DEF BasepriOK, MasksUpTo, IsLevel
<1>10. SavedOK'
  <2> SUFFICES ASSUME NEW a \in active', NEW b \in active' \cap Handlers, Preempted(a, b)'
               PROVE  MasksUpTo(initial[b], a, priority[a])
    BY <1>2 DEF SavedOK, MasksUpTo
  <2>1. a \in active /\ b \in active \cap Handlers /\ a # h /\ b # h
    BY <1>2
  <2>2. Preempted(a, b)
    BY <2>1, <1>1, <1>2, <1>3, BootedFacts DEF Preempted, Top
  <2> QED
    BY <2>1, <2>2, <1>1, BootedFacts DEF Booted, SavedOK
<1> QED
  BY <1>1, <1>6, <1>7, <1>8, <1>9, <1>10 DEF IInv, Booted


LEMMA ByteLeqTransitive == \A x, y, z \in 0..255 : x <= y /\ y <= z => x <= z
OBVIOUS

LEMMA ByteLessLeq == \A x, y \in 0..255 : x < y => x <= y
OBVIOUS

LEMMA ClaimUp ==
    ASSUME NEW c \in Contexts, NEW e, NEW p \in 0..255, NEW q \in 0..255, p <= q,
           ClaimOK(c, e, p)
    PROVE  ClaimOK(c, e, q)
<1>1. Ceiling[e.res] <= q
  <2>1. Ceiling[e.res] \in 0..255
    BY CeilingAssumption DEF ClaimOK, Proxies
  <2> QED
    BY <2>1 DEF ClaimOK
<1>2. p = 255 => q = 255
  OBVIOUS
<1> QED
  BY <1>1, <1>2, Zenon DEF ClaimOK

(* Pushing a claim that saves the cell, popping it, on a stack in order.   *)
LEMMA PushOK ==
    ASSUME NEW c \in Contexts, NEW s \in Seq(Claims), NEW t \in Seq(Claims), NEW e,
           NEW p \in 0..255, NEW q \in 0..255,
           StackOK(c, s, p), Len(t) = Len(s) + 1, \A i \in 1..Len(s) : t[i] = s[i],
           t[Len(s) + 1] = e, e.current = p, p <= q, ClaimOK(c, e, q)
    PROVE  StackOK(c, t, q)
<1> DEFINE n == Len(s)
<1>1. n \in Nat
  BY LenProperties
<1> HIDE DEF n
<1>2. Len(t) = n + 1 /\ \A i \in 1..n : t[i] = s[i]
  BY DEF n
<1>3. t[n + 1].current = p /\ ClaimOK(c, t[n + 1], q)
  BY DEF n
<1>4. /\ Prio[c] <= p /\ \A i \in 1..n : ClaimOK(c, s[i], p)
      /\ \A i, j \in 1..n : i < j => NestOK(s[i], s[j])
  BY DEF StackOK, n
<1>5. ASSUME NEW i \in 1..(n + 1) PROVE ClaimOK(c, t[i], q)
  <2>1. CASE i \in 1..n
    <3>1. ClaimOK(c, t[i], p)
      BY <2>1, <1>2, <1>4
    <3> QED
      BY <3>1, ClaimUp, ZenonT(60)
  <2>2. CASE i = n + 1
    BY <2>2, <1>3
  <2> QED
    BY <2>1, <2>2, <1>1, SMTT(30), ZenonT(30)
<1>6. ASSUME NEW i \in 1..(n + 1), NEW j \in 1..(n + 1), i < j
      PROVE  NestOK(t[i], t[j])
  <2>1. i \in 1..n
    BY <1>1, <1>6
  <2>2. CASE j \in 1..n
    BY <2>1, <2>2, <1>2, <1>4, <1>6
  <2>3. CASE j = n + 1
    BY <2>1, <2>3, <1>2, <1>3, <1>4 DEF ClaimOK, NestOK
  <2> QED
    BY <2>2, <2>3, <1>1
<1>7. Prio[c] <= q
  <2>1. Prio[c] \in 0..255
    BY PrioFacts
  <2>2. Prio[c] <= p
    BY <1>4
  <2> QED
    BY <2>1, <2>2, ByteLeqTransitive, ZenonT(60)
<1> QED
  BY <1>2, <1>5, <1>6, <1>7 DEF StackOK

LEMMA PopOK ==
    ASSUME NEW c, NEW s \in Seq(Claims), NEW t, NEW p \in 0..255, NEW q \in 0..255,
           StackOK(c, s, p), s # <<>>,
           Len(t) = Len(s) - 1, \A i \in 1..(Len(s) - 1) : t[i] = s[i],
           \/ q = p
           \/ /\ q = s[Len(s)].current
              /\ \A i \in 1..(Len(s) - 1) : s[i].lock # "primask"
    PROVE  StackOK(c, t, q)
<1> DEFINE n == Len(s)
<1>1. n \in Nat /\ n >= 1
  BY StackPop
<1> HIDE DEF n
<1>2. Len(t) = n - 1 /\ \A i \in 1..(n - 1) : t[i] = s[i]
  BY DEF n
<1>3. \/ q = p
      \/ q = s[n].current /\ \A i \in 1..(n - 1) : s[i].lock # "primask"
  BY DEF n
<1>4. /\ Prio[c] <= p /\ \A i \in 1..n : ClaimOK(c, s[i], p)
      /\ \A i, j \in 1..n : i < j => NestOK(s[i], s[j])
  BY DEF StackOK, n
<1>5. n \in 1..n /\ \A i \in 1..(n - 1) : i \in 1..n /\ i < n
  BY <1>1
<1>6. Prio[c] <= q
  BY <1>3, <1>4, <1>5 DEF ClaimOK
<1>7. ASSUME NEW i \in 1..(n - 1) PROVE ClaimOK(c, t[i], q)
  BY <1>2, <1>3, <1>4, <1>5 DEF ClaimOK, NestOK
<1>8. \A i, j \in 1..(n - 1) : i < j => NestOK(t[i], t[j])
  BY <1>2, <1>4, <1>5
<1> QED
  BY <1>2, <1>6, <1>7, <1>8 DEF StackOK

(* What the six steps of claim have in common: only the stack and the cell *)
(* of the top context c change.                                            *)
LEMMA ClaimStep ==
    ASSUME IInv, PositivePriorities, [Next]_vars,
           NEW c \in Contexts, Top(c), "init" \notin active,
           UNCHANGED <<active, initial>>,
           NEW v, priority' = [priority EXCEPT ![c] = v],
           claims' = [claims EXCEPT ![c] = claims'[c]],
           StackOK(c, claims'[c], priority'[c]), PrimaskOK', BasepriOK'
    PROVE  IInv'
<1>1. TypeOK' /\ TypeOK
  BY TypeStep DEF IInv
<1>2. c \in active
  BY DEF Top
<1>3. \A d \in Contexts \ {c} : priority'[d] = priority[d] /\ claims'[d] = claims[d]
  BY <1>1 DEF TypeOK
<1>4. priority'[c] \in 0..255
  BY <1>1 DEF TypeOK
<1>5. /\ Ordered' /\ SavedOK' /\ PrioritiesFit'
      /\ "idle" \in active' /\ claims'["init"] = <<>>
      /\ \A d \in active \ {c} : StackOK(d, claims'[d], priority'[d])
  BY <1>2, <1>3, <1>4, TopStep
<1> QED
  BY <1>1, <1>5 DEF IInv, Booted

(* The context that runs is the top one, and init claims nothing.          *)
LEMMA EnterFacts ==
    ASSUME IInv, PositivePriorities, NEW c \in Contexts, NEW r, NEW lock \in Locks,
           Enter(c, r, lock)
    PROVE  /\ "init" \notin active /\ Top(c) /\ c \in active /\ TypeOK
           /\ Prio[c] < Ceiling[r] /\ Ceiling[r] \in 1..Levels
           /\ UNCHANGED <<active, initial>>
           /\ claims' = [claims EXCEPT ![c] = claims'[c]]
           /\ \A q \in 0..255 :
                 /\ priority[c] <= q /\ Ceiling[r] <= q
                 /\ lock # "none" => priority[c] < Ceiling[r]
                 /\ lock = "basepri" => Armv7m
                 /\ lock = "primask" => q = 255 /\ ~primask
                 => StackOK(c, claims'[c], q)
<1>1. c \in active /\ r \in Proxies(c) /\ Running(c) /\ UNCHANGED <<active, initial>>
  BY DEF Enter, Running
<1>2. c # "init"
  BY <1>1 DEF Proxies
<1>3. "init" \notin active /\ TypeOK
  BY <1>1, <1>2 DEF IInv
<1>4. /\ claims' = [claims EXCEPT ![c] = claims'[c]]
      /\ claims'[c] \in Seq(Claims)
      /\ Len(claims'[c]) = Len(claims[c]) + 1
      /\ \A i \in 1..Len(claims[c]) : claims'[c][i] = claims[c][i]
      /\ claims'[c][Len(claims[c]) + 1] =
            [res |-> r, current |-> priority[c], lock |-> lock, masked |-> primask]
  BY <1>3, EnterType
<1>5. /\ StackOK(c, claims[c], priority[c]) /\ Prio[c] <= priority[c]
      /\ claims[c] \in Seq(Claims) /\ priority[c] \in 0..255 /\ Prio[c] \in Nat
      /\ Top(c) /\ PrioritiesFit
  BY <1>1, <1>3, BootedFacts DEF Booted, StackOK, TypeOK
<1> DEFINE e == [res |-> r, current |-> priority[c], lock |-> lock, masked |-> primask]
<1>6. e.res = r /\ e.current = priority[c] /\ e.lock = lock /\ (~primask => ~e.masked)
  OBVIOUS
<1>7. claims'[c][Len(claims[c]) + 1] = e
  BY <1>4
<1> HIDE DEF e
<1>8. ASSUME NEW q \in 0..255, priority[c] <= q, Ceiling[r] <= q,
             lock # "none" => priority[c] < Ceiling[r],
             lock = "basepri" => Armv7m,
             lock = "primask" => q = 255 /\ ~primask
      PROVE  StackOK(c, claims'[c], q)
  <2>1. ClaimOK(c, e, q)
    BY <1>1, <1>5, <1>6, <1>8, Zenon DEF ClaimOK
  <2> QED
    <3> DEFINE old == claims[c]
               new == claims'[c]
               p   == priority[c]
    <3>1. new[Len(old) + 1] = e /\ e.current = p /\ p <= q
      BY <1>6, <1>7, <1>8
    <3>2. new \in Seq(Claims) /\ old \in Seq(Claims) /\ p \in 0..255
      BY <1>4, <1>5
    <3>3. Len(new) = Len(old) + 1 /\ \A i \in 1..Len(old) : new[i] = old[i]
      BY <1>4
    <3>4. StackOK(c, old, p)
      BY <1>5
    <3> HIDE DEF old, new, p
    <3>5. StackOK(c, new, q)
      BY <2>1, <3>1, <3>2, <3>3, <3>4, PushOK, ZenonT(60)
    <3> QED
      BY <3>5 DEF new
<1> QED
  BY <1>1, <1>3, <1>4, <1>5, <1>8, ProxyFacts

LEMMA LeaveFacts ==
    ASSUME IInv, PositivePriorities, NEW c \in Contexts, NEW r, NEW lock, Leave(c, r, lock)
    PROVE  /\ "init" \notin active /\ Top(c) /\ c \in active /\ TypeOK
           /\ UNCHANGED <<active, initial>>
           /\ claims' = [claims EXCEPT ![c] = claims'[c]]
           /\ ClaimOK(c, Inmost(c), priority[c]) /\ Inmost(c).lock = lock
           /\ Ceiling[Inmost(c).res] \in 1..Levels /\ Inmost(c).current \in 0..255
           /\ Len(claims[c]) \in Nat /\ Len(claims[c]) >= 1
           /\ Len(claims'[c]) = Len(claims[c]) - 1
           /\ \A i \in 1..(Len(claims[c]) - 1) : claims'[c][i] = claims[c][i]
           /\ lock # "none" => \A i \in 1..(Len(claims[c]) - 1) :
                                  claims[c][i].lock # "primask"
           /\ StackOK(c, claims'[c], priority[c])
           /\ lock # "none" => StackOK(c, claims'[c], Inmost(c).current)
<1>1. /\ c \in active /\ Running(c) /\ UNCHANGED <<active, initial>>
      /\ claims[c] # <<>> /\ Inmost(c).lock = lock
  BY DEF Leave, Running
<1>2. "init" \notin active /\ TypeOK
  BY <1>1 DEF IInv
<1>3. StackOK(c, claims[c], priority[c]) /\ Top(c) /\ priority[c] \in 0..255
  BY <1>1, <1>2, BootedFacts DEF Booted
<1>4. /\ claims' = [claims EXCEPT ![c] = claims'[c]]
      /\ Len(claims[c]) \in Nat /\ Len(claims[c]) >= 1
      /\ Len(claims'[c]) = Len(claims[c]) - 1
      /\ \A i \in 1..(Len(claims[c]) - 1) : claims'[c][i] = claims[c][i]
      /\ Inmost(c).current \in 0..255 /\ claims[c] \in Seq(Claims)
  BY <1>2, LeaveType, SMTT(5), ZenonT(60) DEF Claims, TypeOK
<1>5. ClaimOK(c, Inmost(c), priority[c])
  BY <1>3, <1>4 DEF StackOK, Inmost
<1>6. \A i \in 1..(Len(claims[c]) - 1) : NestOK(claims[c][i], Inmost(c))
  BY <1>3, <1>4, SMTT(30), ZenonT(30) DEF StackOK, Inmost
<1>7. Ceiling[Inmost(c).res] \in 1..Levels
  BY <1>2, <1>5, BootedFacts, ProxyFacts DEF ClaimOK
<1>8. lock # "none" => Inmost(c).current # 255
  BY <1>1, <1>4, <1>5, <1>7, LevelsNat DEF ClaimOK
<1>9. lock # "none" => \A i \in 1..(Len(claims[c]) - 1) : claims[c][i].lock # "primask"
  BY <1>6, <1>8 DEF NestOK
<1>10. StackOK(c, claims'[c], priority[c])
  BY <1>1, <1>3, <1>4, PopOK, ZenonT(60)
<1>11. ASSUME lock # "none" PROVE StackOK(c, claims'[c], Inmost(c).current)
  <2>1. \A i \in 1..(Len(claims[c]) - 1) : claims[c][i].lock # "primask"
    BY <1>9, <1>11
  <2>2. Inmost(c).current = claims[c][Len(claims[c])].current
    BY DEF Inmost
  <2> QED
    BY <1>1, <1>3, <1>4, <2>1, <2>2, PopOK, ZenonT(60)
<1> QED
  BY <1>1, <1>2, <1>3, <1>4, <1>5, <1>7, <1>9, <1>10, <1>11

LEMMA PrimaskStep ==
    ASSUME IInv, PositivePriorities, "init" \notin active, NEW c \in active, Top(c),
           active' = active, \A d \in active \ {c} : claims'[d] = claims[d],
           primask' => \E i \in 1..Len(claims'[c]) : claims'[c][i].lock = "primask",
           \A i \in 1..Len(claims'[c]) : claims'[c][i].lock = "primask" =>
              primask' /\ MasksUpTo(basepri', c, claims'[c][i].current)
    PROVE  PrimaskOK'
<1>1. ASSUME NEW d \in active, NEW i \in 1..Len(claims'[d]), claims'[d][i].lock = "primask"
      PROVE  d = c
  BY <1>1, PrimaskAtTop
<1>2. ASSUME NEW d \in active, NEW i \in 1..Len(claims'[d]), claims'[d][i].lock = "primask"
      PROVE  primask' /\ MasksUpTo(basepri', d, claims'[d][i].current)
  BY <1>1, <1>2
<1> QED
  BY <1>2 DEF PrimaskOK, MasksUpTo, Prio

LEMMA ClaimFreeStep ==
    ASSUME IInv, PositivePriorities, NEW c \in Contexts, NEW r \in Resources, ClaimFree(c, r)
    PROVE  IInv'
<1> DEFINE n == Len(claims[c])
<1>1. /\ Enter(c, r, "none") /\ "none" \in Locks /\ [Next]_vars
      /\ priority[c] >= Ceiling[r] /\ UNCHANGED <<basepri, primask, priority>>
  BY DEF ClaimFree, Locks, Next, Claim
<1>2. /\ "init" \notin active /\ Top(c) /\ c \in active /\ TypeOK
      /\ Ceiling[r] \in 1..Levels /\ UNCHANGED <<active, initial>>
  BY <1>1, EnterFacts
<1>3. /\ Len(claims'[c]) = n + 1 /\ n \in Nat
      /\ \A i \in 1..n : claims'[c][i] = claims[c][i]
      /\ claims'[c][n + 1].lock = "none"
      /\ claims' = [claims EXCEPT ![c] = claims'[c]]
  BY <1>1, <1>2, EnterType, ZenonT(60)
<1>4. /\ priority[c] \in 0..255 /\ priority' = [priority EXCEPT ![c] = priority[c]]
      /\ priority'[c] = priority[c]
  BY <1>1, <1>2 DEF TypeOK
<1>5. StackOK(c, claims'[c], priority'[c])
  BY <1>1, <1>2, <1>4, EnterFacts, LevelsNat, SMTT(30), ZenonT(30)
<1>6. PrimaskOK'
  <2>1. \A d \in active \ {c} : claims'[d] = claims[d]
    BY <1>2, <1>3 DEF TypeOK
  <2>2. primask' => \E i \in 1..Len(claims'[c]) : claims'[c][i].lock = "primask"
    BY <1>1, <1>2, <1>3, PrimaskAtTop
  <2>3. ASSUME NEW i \in 1..Len(claims'[c]), claims'[c][i].lock = "primask"
        PROVE  primask' /\ MasksUpTo(basepri', c, claims'[c][i].current)
    <3>1. i \in 1..n /\ claims'[c][i] = claims[c][i]
      BY <1>3, <2>3
    <3> QED
      BY <1>1, <1>2, <2>3, <3>1, BootedFacts DEF Booted, PrimaskOK
  <2> QED
    BY <1>2, <2>1, <2>2, <2>3, PrimaskStep
<1>7. BasepriOK'
  BY <1>1, <1>2, BootedFacts DEF Booted, BasepriOK, MasksUpTo, IsLevel, Top, Prio
<1> QED
  BY <1>1, <1>2, <1>3, <1>4, <1>5, <1>6, <1>7, ClaimStep

LEMMA ClaimBasepriStep ==
    ASSUME IInv, PositivePriorities, NEW c \in Contexts, NEW r \in Resources, ClaimBasepri(c, r)
    PROVE  IInv'
<1> DEFINE n == Len(claims[c])
<1>1. /\ Enter(c, r, "basepri") /\ "basepri" \in Locks /\ [Next]_vars
      /\ priority[c] < Ceiling[r] /\ Armv7m /\ Ceiling[r] # Levels
      /\ priority' = [priority EXCEPT ![c] = Ceiling[r]]
      /\ basepri' = Logical2hw(Ceiling[r]) /\ primask' = primask
  BY DEF ClaimBasepri, Locks, Next, Claim
<1>2. /\ "init" \notin active /\ Top(c) /\ c \in active /\ TypeOK
      /\ Prio[c] < Ceiling[r] /\ Ceiling[r] \in 1..(Levels - 1)
      /\ UNCHANGED <<active, initial>>
  <2>1. Ceiling[r] \in 1..Levels
    BY <1>1, EnterFacts
  <2>2. Ceiling[r] \in 1..(Levels - 1)
    BY <1>1, <2>1, LevelsNat
  <2> QED
    BY <1>1, <2>2, EnterFacts
<1>3. /\ Len(claims'[c]) = n + 1 /\ n \in Nat
      /\ \A i \in 1..n : claims'[c][i] = claims[c][i]
      /\ claims'[c][n + 1].lock = "basepri"
      /\ claims' = [claims EXCEPT ![c] = claims'[c]]
  <2>1. Enter(c, r, "basepri") /\ "basepri" \in Locks /\ TypeOK
    BY <1>1, <1>2
  <2>2. Len(claims'[c]) = n + 1 /\ n \in Nat
    BY <2>1, EnterType
  <2>3. \A i \in 1..n : claims'[c][i] = claims[c][i]
    BY <2>1, EnterType
  <2>4. claims'[c][n + 1].lock = "basepri"
    <3> DEFINE l == "basepri"
    <3>1. Enter(c, r, l) /\ l \in Locks /\ TypeOK
      BY <2>1
    <3> HIDE DEF l
    <3>2. claims'[c][n + 1].lock = l
      BY <3>1, EnterType, SMTT(5), ZenonT(60)
    <3> QED
      BY <3>2 DEF l
  <2>5. claims' = [claims EXCEPT ![c] = claims'[c]]
    BY <2>1, EnterType
  <2> QED
    BY <2>2, <2>3, <2>4, <2>5
<1>4. priority[c] \in 0..255 /\ priority'[c] = Ceiling[r] /\ Ceiling[r] \in 0..255
  BY <1>1, <1>2, CeilingAssumption DEF TypeOK
<1>5. StackOK(c, claims'[c], priority'[c])
  <2>1. priority[c] <= Ceiling[r]
    BY <1>1, <1>4, ByteLessLeq, Zenon
  <2> QED
    BY <1>1, <1>4, <2>1, EnterFacts, SMTT(30), ZenonT(30)
<1>6. ~primask
  BY <1>1, <1>2, LevelsNat, PrimaskAtTop
<1>7. PrimaskOK'
  <2>1. \A i \in 1..n : claims[c][i].lock # "primask"
    BY <1>2, <1>6, BootedFacts DEF Booted, PrimaskOK
  <2>2. \A d \in active \ {c} : claims'[d] = claims[d]
    BY <1>2, <1>3 DEF TypeOK
  <2>3. \A i \in 1..Len(claims'[c]) : claims'[c][i].lock # "primask"
    BY <1>3, <2>1
  <2> QED
    BY <1>1, <1>2, <1>6, <2>2, <2>3, PrimaskStep
<1>8. BasepriOK'
  <2>1. MasksUpTo(basepri', c, priority'[c]) /\ IsLevel(basepri')
    BY <1>1, <1>2, <1>4, LevelsNat, PrioFacts DEF MasksUpTo, IsLevel
  <2>2. \A d \in Contexts : Top(d)' => d = c
    BY <1>2, BootedFacts DEF Top, Prio
  <2>3. \A h \in active' \cap Handlers : IsLevel(initial'[h])
    BY <1>2, BootedFacts DEF Booted, BasepriOK
  <2> QED
    BY <1>1, <2>1, <2>2, <2>3 DEF BasepriOK, MasksUpTo, IsLevel, Prio
<1> QED
  BY <1>1, <1>2, <1>3, <1>5, <1>7, <1>8, ClaimStep

LEMMA ClaimPrimaskStep ==
    ASSUME IInv, PositivePriorities, NEW c \in Contexts, NEW r \in Resources, ClaimPrimask(c, r)
    PROVE  IInv'
<1> DEFINE n == Len(claims[c])
<1>1. /\ Enter(c, r, "primask") /\ "primask" \in Locks /\ [Next]_vars
      /\ priority[c] < Ceiling[r]
      /\ priority' = [priority EXCEPT ![c] = 255]
      /\ basepri' = basepri /\ primask' = TRUE
  BY DEF ClaimPrimask, Locks, Next, Claim
<1>2. /\ "init" \notin active /\ Top(c) /\ c \in active /\ TypeOK
      /\ Ceiling[r] \in 1..Levels /\ UNCHANGED <<active, initial>>
  BY <1>1, EnterFacts
<1>3. /\ Len(claims'[c]) = n + 1 /\ n \in Nat
      /\ \A i \in 1..n : claims'[c][i] = claims[c][i]
      /\ claims'[c][n + 1].lock = "primask"
      /\ claims'[c][n + 1].current = priority[c]
      /\ claims' = [claims EXCEPT ![c] = claims'[c]]
  BY <1>1, <1>2, EnterType, ZenonT(60)
<1>4. priority[c] \in 0..255 /\ priority'[c] = 255
  BY <1>1, <1>2 DEF TypeOK
<1>5. ~primask
  BY <1>1, <1>2, LevelsNat, PrimaskAtTop
<1>6. StackOK(c, claims'[c], priority'[c])
  <2>1. Ceiling[r] <= 255 /\ priority[c] <= 255
    BY <1>2, <1>4, LevelsNat
  <2> QED
    BY <1>1, <1>4, <1>5, <2>1, EnterFacts, SMTT(30), ZenonT(30)
<1>7. PrimaskOK'
  <2>1. \A i \in 1..n : claims[c][i].lock # "primask"
    BY <1>2, <1>5, BootedFacts DEF Booted, PrimaskOK
  <2>2. \A d \in active \ {c} : claims'[d] = claims[d]
    BY <1>2, <1>3 DEF TypeOK
  <2>3. \A i \in 1..Len(claims'[c]) : claims'[c][i].lock = "primask" => i = n + 1
    BY <1>3, <2>1
  <2>4. MasksUpTo(basepri, c, priority[c])
    BY <1>2, <1>5, BootedFacts DEF Booted, BasepriOK
  <2>5. n + 1 \in 1..Len(claims'[c])
    BY <1>3
  <2> QED
    BY <1>1, <1>2, <1>3, <2>2, <2>3, <2>4, <2>5, PrimaskStep
<1>8. BasepriOK'
  BY <1>1, <1>2, BootedFacts DEF Booted, BasepriOK, IsLevel
<1> QED
  BY <1>1, <1>2, <1>3, <1>6, <1>7, <1>8, ClaimStep, SMTT(5), ZenonT(60)

(* What the three ways out of a claim have in common.                      *)
LEMMA ReleaseStep ==
    ASSUME IInv, PositivePriorities, NEW c \in Contexts, NEW r \in Resources,
           NEW lock, Leave(c, r, lock), [Next]_vars,
           NEW v, priority' = [priority EXCEPT ![c] = v],
           v = priority[c] \/ (lock # "none" /\ v = Inmost(c).current),
           MasksUpTo(basepri', c, v) \/ primask', IsLevel(basepri'),
           ~Armv7m => basepri' = basepri,
           primask' => \E i \in 1..(Len(claims[c]) - 1) : claims[c][i].lock = "primask",
           \A i \in 1..(Len(claims[c]) - 1) : claims[c][i].lock = "primask" =>
              primask' /\ MasksUpTo(basepri', c, claims[c][i].current)
    PROVE  IInv'
<1> DEFINE n == Len(claims[c])
<1>1. /\ "init" \notin active /\ Top(c) /\ c \in active /\ TypeOK
      /\ UNCHANGED <<active, initial>>
      /\ StackOK(c, claims'[c], v)
  BY LeaveFacts
<1>2. /\ claims' = [claims EXCEPT ![c] = claims'[c]]
      /\ n \in Nat /\ n >= 1 /\ Len(claims'[c]) = n - 1
      /\ \A i \in 1..(n - 1) : claims'[c][i] = claims[c][i]
  BY LeaveFacts
<1>3. priority'[c] = v
  BY <1>1 DEF TypeOK
<1>4. PrimaskOK'
  <2>1. \A d \in active \ {c} : claims'[d] = claims[d]
    BY <1>1, <1>2 DEF TypeOK
  <2>2. primask' => \E i \in 1..Len(claims'[c]) : claims'[c][i].lock = "primask"
    BY <1>2
  <2>3. \A i \in 1..Len(claims'[c]) : claims'[c][i].lock = "primask" =>
           primask' /\ MasksUpTo(basepri', c, claims'[c][i].current)
    BY <1>2
  <2> QED
    BY <1>1, <2>1, <2>2, <2>3, PrimaskStep
<1>5. BasepriOK'
  <2>1. \A d \in Contexts : Top(d)' => d = c
    BY <1>1, BootedFacts DEF Top, Prio
  <2>2. \A h \in active' \cap Handlers : IsLevel(initial'[h])
    BY <1>1, BootedFacts DEF Booted, BasepriOK
  <2>3. ~Armv7m => basepri' = 0 /\ \A h \in active' \cap Handlers : initial'[h] = 0
    BY <1>1, BootedFacts DEF Booted, BasepriOK
  <2> QED
    BY <1>3, <2>1, <2>2, <2>3 DEF BasepriOK, MasksUpTo, IsLevel, Prio
<1> QED
  BY <1>1, <1>2, <1>3, <1>4, <1>5, ClaimStep

LEMMA ReleaseFreeStep ==
    ASSUME IInv, PositivePriorities, NEW c \in Contexts, NEW r \in Resources, ReleaseFree(c, r)
    PROVE  IInv'
<1> DEFINE n == Len(claims[c])
<1>1. /\ Leave(c, r, "none") /\ [Next]_vars
      /\ basepri' = basepri /\ primask' = primask /\ priority' = priority
  BY DEF ReleaseFree, Next, Release
<1>2. /\ "init" \notin active /\ Top(c) /\ c \in active /\ TypeOK
      /\ n \in Nat /\ n >= 1 /\ claims[c][n].lock = "none"
  BY <1>1, LeaveFacts, SMTT(30), ZenonT(30) DEF Inmost
<1>3. priority' = [priority EXCEPT ![c] = priority[c]]
  BY <1>1, <1>2 DEF TypeOK
<1>4. /\ MasksUpTo(basepri', c, priority[c]) \/ primask'
      /\ IsLevel(basepri')
  BY <1>1, <1>2, BootedFacts DEF Booted, BasepriOK
<1>5. primask' => \E i \in 1..(n - 1) : claims[c][i].lock = "primask"
  <2>1. \A i \in 1..n : claims[c][i].lock = "primask" => i \in 1..(n - 1)
    BY <1>2
  <2> QED
    BY <1>1, <1>2, <2>1, PrimaskAtTop
<1>6. \A i \in 1..(n - 1) : claims[c][i].lock = "primask" =>
         primask' /\ MasksUpTo(basepri', c, claims[c][i].current)
  BY <1>1, <1>2, BootedFacts DEF Booted, PrimaskOK
<1> QED
  BY <1>1, <1>3, <1>4, <1>5, <1>6, ReleaseStep

LEMMA ReleaseBasepriStep ==
    ASSUME IInv, PositivePriorities, NEW c \in Contexts, NEW r \in Resources, ReleaseBasepri(c, r)
    PROVE  IInv'
<1> DEFINE n == Len(claims[c])
           v == Inmost(c).current
<1>1. /\ Leave(c, r, "basepri") /\ [Next]_vars
      /\ basepri' = Logical2hw(v) /\ priority' = [priority EXCEPT ![c] = v]
      /\ primask' = primask
  BY DEF ReleaseBasepri, Next, Release
<1>2. /\ "init" \notin active /\ Top(c) /\ c \in active /\ TypeOK
      /\ n \in Nat /\ n >= 1 /\ claims[c][n].lock = "basepri"
      /\ \A i \in 1..(n - 1) : claims[c][i].lock # "primask"
  BY <1>1, LeaveFacts, SMTT(30), ZenonT(30) DEF Inmost
<1>3. /\ ClaimOK(c, Inmost(c), priority[c]) /\ Inmost(c).lock = "basepri"
      /\ Ceiling[Inmost(c).res] \in 1..Levels /\ v \in 0..255
  BY <1>1, LeaveFacts
<1>4. v < Ceiling[Inmost(c).res] /\ Prio[c] <= v /\ Armv7m
  BY <1>3 DEF ClaimOK
<1> HIDE DEF v
<1>5. v \in 0..(Levels - 1)
  BY <1>3, <1>4, LevelsNat
<1>6. IsLevel(basepri') /\ MasksUpTo(basepri', c, v)
  BY <1>1, <1>4, <1>5 DEF IsLevel, MasksUpTo
<1>7. ~primask
  <2>1. \A i \in 1..n : claims[c][i].lock # "primask"
    BY <1>2
  <2> QED
    BY <1>2, <2>1, PrimaskAtTop
<1> QED
  BY <1>1, <1>2, <1>4, <1>6, <1>7, ReleaseStep DEF v

LEMMA ReleasePrimaskStep ==
    ASSUME IInv, PositivePriorities, NEW c \in Contexts, NEW r \in Resources, ReleasePrimask(c, r)
    PROVE  IInv'
<1> DEFINE n == Len(claims[c])
           v == Inmost(c).current
<1>1. /\ Leave(c, r, "primask") /\ [Next]_vars
      /\ basepri' = basepri /\ priority' = [priority EXCEPT ![c] = v]
      /\ primask' = Inmost(c).masked
  BY DEF ReleasePrimask, Next, Release
<1>2. /\ "init" \notin active /\ Top(c) /\ c \in active
      /\ n \in Nat /\ n >= 1 /\ claims[c][n].lock = "primask"
      /\ \A i \in 1..(n - 1) : claims[c][i].lock # "primask"
  BY <1>1, LeaveFacts, SMTT(30), ZenonT(30) DEF Inmost
<1>3. ClaimOK(c, Inmost(c), priority[c]) /\ Inmost(c).lock = "primask"
  BY <1>1, LeaveFacts
<1>4. ~primask'
  BY <1>1, <1>3 DEF ClaimOK
<1>5. MasksUpTo(basepri, c, v)
  BY <1>2, BootedFacts DEF Booted, PrimaskOK, Inmost
<1>6. IsLevel(basepri)
  BY <1>2, BootedFacts DEF Booted, BasepriOK
<1> QED
  BY <1>1, <1>2, <1>4, <1>5, <1>6, ReleaseStep

-----------------------------------------------------------------------------
(* The theorems.                                                           *)

LEMMA InvInit == Init => IInv
<1> SUFFICES ASSUME Init PROVE IInv
  OBVIOUS
<1>1. TypeOK
  BY TypeInit
<1> QED
  BY <1>1, PrioFacts DEF Init, IInv

LEMMA InvStep ==
    ASSUME PositivePriorities
    PROVE  IInv /\ [Next]_vars => IInv'
<1> SUFFICES ASSUME IInv, [Next]_vars PROVE IInv'
  OBVIOUS
<1>1. CASE FinishInit
  BY <1>1, PositivePriorities, FinishInitStep
<1>2. ASSUME NEW h \in Handlers, Pend(h) \/ Preempt(h) \/ Return(h) PROVE IInv'
  BY <1>2, PositivePriorities, PendStep, PreemptStep, ReturnStep
<1>3. ASSUME NEW c \in Contexts, NEW r \in Resources, Claim(c, r) PROVE IInv'
  BY <1>3, PositivePriorities, ClaimFreeStep, ClaimBasepriStep, ClaimPrimaskStep DEF Claim
<1>4. ASSUME NEW c \in Contexts, NEW r \in Resources, Release(c, r) PROVE IInv'
  BY <1>4, PositivePriorities, ReleaseFreeStep, ReleaseBasepriStep, ReleasePrimaskStep
     DEF Release
<1>5. CASE UNCHANGED vars
  <2>1. TypeOK'
    BY TypeStep DEF IInv
  <2>2. UNCHANGED <<active, basepri, primask, priority, initial, claims>>
    BY <1>5 DEF vars
  <2> QED
    BY <2>1, <2>2 DEF IInv, Booted, StackOK, ClaimOK, NestOK, Ordered, PrimaskOK,
       BasepriOK, IsLevel, SavedOK, MasksUpTo, Top, Preempted, PrioritiesFit
<1> QED
  BY <1>1, <1>2, <1>3, <1>4, <1>5 DEF Next

(* The masks, the priority cells and the saved values stay in step.        *)
THEOREM Inductive ==
    ASSUME PositivePriorities
    PROVE  Spec => []IInv
BY PositivePriorities, InvInit, InvStep, PTL DEF Spec

LEMMA InvImpliesMutex ==
    ASSUME PositivePriorities, IInv
    PROVE  MutualExclusion
<1> SUFFICES ASSUME NEW c \in active, NEW d \in active, c # d,
                    NEW r \in Accesses(c), r \in Accesses(d)
             PROVE  FALSE
  BY DEF MutualExclusion
<1>1. "init" \notin active
  BY DEF IInv
<1>2. ASSUME NEW x \in active, NEW y \in active, priority[x] < Prio[y],
             r \in Accesses(x), r \in Accesses(y)
      PROVE  FALSE
  <2>1. StackOK(x, claims[x], priority[x]) /\ StackOK(y, claims[y], priority[y])
    BY <1>1, BootedFacts DEF Booted
  <2>2. /\ x \in Contexts /\ y \in Contexts /\ x # "init" /\ y # "init"
        /\ priority[x] \in 0..255 /\ Prio[x] \in 0..255 /\ Prio[y] \in 0..255
    BY <1>1, BootedFacts, PrioFacts
  <2>3. r \in Uses[y] /\ r \in Resources
    <3>1. r \in Direct[y] \/ r \in Proxies(y)
      BY <1>2, <2>1 DEF Accesses, Claimed, StackOK, ClaimOK
    <3> QED
      BY <3>1, <2>2, CeilingAssumption DEF Direct, Proxies
  <2>4. Prio[y] <= Ceiling[r] /\ Ceiling[r] \in 0..255
    BY <2>2, <2>3, CeilingAssumption DEF Users, Prio
  <2>5. Ceiling[r] <= priority[x]
    <3>1. CASE r \in Direct[x]
      <4>1. ~(Prio[x] < Ceiling[r])
        BY <3>1, <2>2 DEF Direct, Proxies, NeedsLock, Prio
      <4>2. Prio[x] <= priority[x]
        BY <2>1 DEF StackOK
      <4> DEFINE k == Ceiling[r]
                 p == Prio[x]
                 q == priority[x]
      <4>3. k \in 0..255 /\ p \in 0..255 /\ q \in 0..255 /\ ~(p < k) /\ p <= q
        BY <2>2, <2>4, <4>1, <4>2
      <4> HIDE DEF k, p, q
      <4>4. k <= q
        BY <4>3
      <4> QED
        BY <4>4 DEF k, q
    <3>2. CASE r \in Claimed(x)
      BY <3>2, <2>1 DEF Claimed, StackOK, ClaimOK
    <3> QED
      BY <3>1, <3>2, <1>2 DEF Accesses
  <2> DEFINE k == Ceiling[r]
             q == priority[x]
             p == Prio[y]
  <2>6. k \in 0..255 /\ q \in 0..255 /\ p \in 0..255 /\ p <= k /\ k <= q /\ q < p
    BY <1>2, <2>2, <2>4, <2>5
  <2> HIDE DEF k, p, q
  <2> QED
    BY <2>6
<1>3. priority[c] < Prio[d] \/ priority[d] < Prio[c]
  BY <1>1, BootedFacts DEF Booted, Ordered
<1> QED
  BY <1>2, <1>3

(* Every resource is within reach of at most one started context: README's *)
(* "data race free memory sharing", for every application whose handlers   *)
(* have priority 1 or more.                                                *)
THEOREM DataRaceFreedom ==
    ASSUME PositivePriorities
    PROVE  Spec => []MutualExclusion
BY PositivePriorities, Inductive, InvImpliesMutex, PTL

LEMMA BasepriLetsIn ==
    ASSUME NEW p \in 1..Levels, NEW m \in 0..(Levels - 1)
    PROVE  (Logical2hw(m) = 0 \/ Logical2hw(p) < Logical2hw(m)) <=> m < p
<1>1. CASE m = 0
  BY <1>1, Logical2hwOrder, LevelsNat
<1>2. CASE m # 0
  <2>1. m \in 1..Levels /\ m \in 1..(Levels - 1)
    BY <1>2, LevelsNat
  <2>2. Logical2hw(m) # 0 /\ (Logical2hw(p) < Logical2hw(m) <=> m < p)
    BY <2>1, Logical2hwOrder
  <2> QED
    BY <2>2
<1> QED
  BY <1>1, <1>2

LEMMA InvImpliesCell ==
    ASSUME PositivePriorities, IInv
    PROVE  CellMatchesHardware
<1> SUFFICES ASSUME NEW c \in active, NEW h \in Handlers, Running(c), "init" \notin active,
                    Prio[h] > Prio[c]
             PROVE  Unmasked(h) <=> Prio[h] > priority[c]
  BY DEF CellMatchesHardware, Prio
<1>1. /\ Top(c) /\ c \in Contexts /\ h \in Contexts \ {"init"} /\ priority[c] \in 0..255
      /\ Prio[h] \in 1..Levels /\ Prio[h] \in 0..255 /\ Prio[c] \in 0..255 /\ PrioritiesFit
      /\ HwPriority(h) = Logical2hw(Prio[h])
  BY BootedFacts, PrioFacts, HandlersAssumption, LevelsNat, PositivePriorities
     DEF PositivePriorities, PrioritiesFit, HwPriority
<1>2. \A d \in active : HwPriority(h) < HwPriority(d)
  <2> SUFFICES ASSUME NEW d \in active PROVE HwPriority(h) < HwPriority(d)
    OBVIOUS
  <2>1. d \in Contexts \ {"init"} /\ Prio[d] \in 0..Levels
    BY BootedFacts
  <2>2. Prio[d] = Prio[c] \/ Prio[d] < Prio[c]
    BY <1>1 DEF Top
  <2>3. Prio[d] < Prio[h]
    BY <1>1, <2>1, <2>2, LevelsNat
  <2> QED
    BY <1>1, <2>1, <2>3, HwFacts, PositivePriorities
<1>3. CASE primask
  <2>1. priority[c] = 255 /\ ~Unmasked(h)
    BY <1>1, <1>3, PrimaskAtTop DEF Unmasked
  <2> QED
    BY <2>1, <1>1
<1>4. CASE ~primask
  <2>1. PICK m \in 0..(Levels - 1) :
           /\ basepri = Logical2hw(m) /\ m <= priority[c]
           /\ m = priority[c] \/ Prio[c] = priority[c]
    BY <1>1, <1>4, BootedFacts DEF Booted, BasepriOK, MasksUpTo
  <2>2. Unmasked(h) <=> m < Prio[h]
    BY <1>1, <1>2, <1>4, <2>1, BasepriLetsIn DEF Unmasked
  <2> DEFINE p == Prio[h]
             q == priority[c]
  <2>3. /\ p \in 0..255 /\ q \in 0..255 /\ m \in 0..255 /\ m <= q
        /\ m = q \/ q < p
    BY <1>1, <2>1, LevelsNat
  <2> HIDE DEF p, q
  <2>4. m < p <=> p > q
    BY <2>3
  <2> QED
    BY <2>2, <2>4 DEF p, q
<1> QED
  BY <1>3, <1>4

(* The value claim reads decides exactly as the hardware masks.            *)
THEOREM CellCorrect ==
    ASSUME PositivePriorities
    PROVE  Spec => []CellMatchesHardware
BY PositivePriorities, Inductive, InvImpliesCell, PTL

LEMMA InvImpliesSingleBlocking ==
    ASSUME PositivePriorities, IInv
    PROVE  SingleBlocking
<1> SUFFICES ASSUME NEW h \in Handlers, NEW c \in active, NEW d \in active,
                    Prio[c] < Prio[h], Prio[d] < Prio[h],
                    \E r \in Accesses(c) : Ceiling[r] >= Prio[h],
                    \E r \in Accesses(d) : Ceiling[r] >= Prio[h], c # d
             PROVE  FALSE
  BY DEF SingleBlocking, Prio
<1>1. "init" \notin active
  BY DEF IInv
<1>2. ASSUME NEW x \in active, NEW y \in active, priority[x] < Prio[y], Prio[y] < Prio[h],
             NEW r \in Accesses(x), Ceiling[r] >= Prio[h]
      PROVE  FALSE
  <2>1. StackOK(x, claims[x], priority[x]) /\ x \in Contexts /\ x # "init"
    BY <1>1, BootedFacts DEF Booted
  <2>2. /\ priority[x] \in 0..255 /\ Prio[x] \in 0..255 /\ Prio[y] \in 0..255
        /\ Prio[h] \in 0..255
    BY <1>1, BootedFacts, PrioFacts
  <2>3. r \in Uses[x] /\ r \in Resources /\ Ceiling[r] \in 0..255
    BY <2>1, <1>2, CeilingAssumption DEF Accesses, Claimed, StackOK, ClaimOK, Direct, Proxies
  <2>4. Ceiling[r] <= priority[x]
    <3>1. CASE r \in Direct[x]
      <4> DEFINE k == Ceiling[r]
                 p == Prio[x]
                 q == priority[x]
      <4>1. ~(p < k) /\ p <= q
        BY <3>1, <2>1 DEF Direct, Proxies, NeedsLock, Prio, StackOK
      <4>2. k \in 0..255 /\ p \in 0..255 /\ q \in 0..255
        BY <2>2, <2>3
      <4> HIDE DEF k, p, q
      <4>3. k <= q
        BY <4>1, <4>2
      <4> QED
        BY <4>3 DEF k, q
    <3>2. CASE r \in Claimed(x)
      BY <3>2, <2>1 DEF Claimed, StackOK, ClaimOK
    <3> QED
      BY <3>1, <3>2, <1>2 DEF Accesses
  <2> DEFINE k == Ceiling[r]
             q == priority[x]
             p == Prio[y]
             g == Prio[h]
  <2>5. k \in 0..255 /\ q \in 0..255 /\ p \in 0..255 /\ g \in 0..255
    BY <2>2, <2>3
  <2>6. k <= q /\ q < p /\ p < g /\ k >= g
    BY <1>2, <2>4
  <2> HIDE DEF k, q, p, g
  <2> QED
    BY <2>5, <2>6
<1>3. priority[c] < Prio[d] \/ priority[d] < Prio[c]
  BY <1>1, BootedFacts DEF Booted, Ordered
<1> QED
  BY <1>2, <1>3

(* No handler waits for more than one context of lower priority.           *)
THEOREM BlockedOnce ==
    ASSUME PositivePriorities
    PROVE  Spec => []SingleBlocking
BY PositivePriorities, Inductive, InvImpliesSingleBlocking, PTL
=============================================================================
