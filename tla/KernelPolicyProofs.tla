------------------------- MODULE KernelPolicyProofs -------------------------
(***************************************************************************)
(* The kernel implements the stack resource policy of module Srp, and on   *)
(* ARMv7-M masks no handler without a reason: for every application, every *)
(* device and both architectures.                                          *)
(*                                                                         *)
(* Each step of Kernel is one of Srp or leaves what Srp sees as it is.     *)
(* What a resource is given back by a release takes one more invariant:    *)
(* the resources of a stack of claims are distinct.                        *)
(***************************************************************************)
EXTENDS KernelProofs

Distinct ==
    \A c \in Contexts : \A i, j \in 1..Len(claims[c]) :
        claims[c][i].res = claims[c][j].res => i = j

-----------------------------------------------------------------------------
(* What the claims of a context are after it entered or left one.          *)

LEMMA EnterClaimed ==
    ASSUME TypeOK, NEW c \in Contexts, NEW r, NEW lock \in Locks, Enter(c, r, lock)
    PROVE  /\ Claimed(c)' = Claimed(c) \cup {r}
           /\ \A d \in Contexts \ {c} : claims'[d] = claims[d]
           /\ r \notin Claimed(c)
           /\ r \in Proxies(c)
           /\ Distinct => Distinct'
<1> DEFINE n == Len(claims[c])
<1>1. /\ claims' = [claims EXCEPT ![c] = claims'[c]]
      /\ Len(claims'[c]) = n + 1 /\ n \in Nat
      /\ \A i \in 1..n : claims'[c][i] = claims[c][i]
      /\ claims'[c][n + 1] =
            [res |-> r, current |-> priority[c], lock |-> lock, masked |-> primask]
      /\ r \in Proxies(c)
  BY EnterType
<1>2. claims'[c][n + 1].res = r
  BY <1>1
<1>3. r \notin Claimed(c)
  BY DEF Enter
<1>4. \A d \in Contexts \ {c} : claims'[d] = claims[d]
  BY <1>1 DEF TypeOK
<1> HIDE DEF n
<1>5. 1..(n + 1) = 1..n \cup {n + 1}
  BY <1>1
<1>6. Claimed(c)' = Claimed(c) \cup {r}
  <2>1. Claimed(c)' = {claims'[c][i].res : i \in 1..(n + 1)}
    BY <1>1 DEF Claimed
  <2>2. Claimed(c) = {claims'[c][i].res : i \in 1..n}
    BY <1>1 DEF Claimed, n
  <2> QED
    BY <2>1, <2>2, <1>2, <1>5
<1>7. Distinct => Distinct'
  <2> SUFFICES ASSUME Distinct, NEW d \in Contexts,
                      NEW i \in 1..Len(claims'[d]), NEW j \in 1..Len(claims'[d]),
                      claims'[d][i].res = claims'[d][j].res
               PROVE  i = j
    BY DEF Distinct
  <2>1. CASE d # c
    BY <2>1, <1>4 DEF Distinct
  <2>2. CASE d = c
    <3>1. i \in 1..n \cup {n + 1} /\ j \in 1..n \cup {n + 1}
      BY <2>2, <1>1, <1>5
    <3>2. \A k \in 1..n : claims'[c][k].res \in Claimed(c)
      BY <1>1 DEF Claimed, n
    <3>3. CASE i \in 1..n /\ j \in 1..n
      BY <3>3, <2>2, <1>1 DEF Distinct, n
    <3>4. CASE ~(i \in 1..n /\ j \in 1..n)
      BY <3>1, <3>2, <3>4, <2>2, <1>2, <1>3
    <3> QED
      BY <3>3, <3>4
  <2> QED
    BY <2>1, <2>2
<1> QED
  BY <1>1, <1>3, <1>4, <1>6, <1>7

LEMMA LeaveClaimed ==
    ASSUME TypeOK, Distinct, NEW c \in Contexts, NEW r, NEW lock, Leave(c, r, lock)
    PROVE  /\ Claimed(c)' = Claimed(c) \ {r}
           /\ \A d \in Contexts \ {c} : claims'[d] = claims[d]
           /\ r \in Claimed(c)
           /\ Distinct'
<1> DEFINE n == Len(claims[c])
<1>1. /\ claims' = [claims EXCEPT ![c] = claims'[c]]
      /\ n \in Nat /\ n >= 1
      /\ Len(claims'[c]) = n - 1
      /\ \A i \in 1..(n - 1) : claims'[c][i] = claims[c][i]
  BY LeaveType
<1>2. claims[c][n].res = r
  BY DEF Leave, Inmost
<1>3. \A d \in Contexts \ {c} : claims'[d] = claims[d]
  BY <1>1 DEF TypeOK
<1>4. \A i, j \in 1..n : claims[c][i].res = claims[c][j].res => i = j
  BY DEF Distinct
<1>5. Claimed(c) = {claims[c][i].res : i \in 1..n}
  BY DEF Claimed
<1>6. Claimed(c)' = {claims[c][i].res : i \in 1..(n - 1)}
  <2>1. Claimed(c)' = {claims'[c][i].res : i \in 1..(n - 1)}
    BY <1>1 DEF Claimed
  <2> QED
    BY <2>1, <1>1
<1>7. Distinct'
  <2> SUFFICES ASSUME NEW d \in Contexts,
                      NEW i \in 1..Len(claims'[d]), NEW j \in 1..Len(claims'[d]),
                      claims'[d][i].res = claims'[d][j].res
               PROVE  i = j
    BY DEF Distinct
  <2>1. CASE d # c
    BY <2>1, <1>3 DEF Distinct
  <2>2. CASE d = c
    <3>1. i \in 1..(n - 1) /\ j \in 1..(n - 1)
      BY <2>2, <1>1
    <3> HIDE DEF n
    <3>2. i \in 1..n /\ j \in 1..n /\ claims[c][i].res = claims[c][j].res
      BY <2>2, <3>1, <1>1
    <3> QED
      BY <3>2, <1>4
  <2> QED
    BY <2>1, <2>2
<1> HIDE DEF n
<1>8. n \in 1..n /\ \A i \in 1..n : i \in 1..(n - 1) \/ i = n
  BY <1>1
<1>9. \A i \in 1..(n - 1) : i \in 1..n /\ i # n
  BY <1>1
<1>10. \A i \in 1..(n - 1) : claims[c][i].res # r
  BY <1>2, <1>4, <1>8, <1>9
<1>11. Claimed(c)' = Claimed(c) \ {r}
  BY <1>2, <1>5, <1>6, <1>8, <1>9, <1>10
<1> QED
  BY <1>2, <1>3, <1>5, <1>7, <1>8, <1>11

LEMMA DistinctInit == Init => Distinct
BY EmptyStack DEF Init, Distinct

LEMMA DistinctStep == TypeOK /\ Distinct /\ [Next]_vars => Distinct'
<1> SUFFICES ASSUME TypeOK, Distinct, [Next]_vars PROVE Distinct'
  OBVIOUS
<1>1. ASSUME NEW x \in Contexts, claims' = [claims EXCEPT ![x] = <<>>] PROVE Distinct'
  <2>1. \A d \in Contexts : claims'[d] = IF d = x THEN <<>> ELSE claims[d]
    BY <1>1 DEF TypeOK
  <2>2. Len(<<>>) = 0 /\ 1..0 = {}
    BY EmptyStack
  <2> QED
    BY <2>1, <2>2 DEF Distinct
<1>2. ASSUME UNCHANGED claims PROVE Distinct'
  BY <1>2 DEF Distinct
<1>3. CASE FinishInit
  BY <1>1, <1>3 DEF FinishInit, Contexts
<1>4. ASSUME NEW h \in Handlers, Pend(h) \/ Preempt(h) \/ Return(h) PROVE Distinct'
  BY <1>1, <1>2, <1>4 DEF Pend, Preempt, Return, Contexts
<1>5. ASSUME NEW c \in Contexts, NEW r \in Resources, Claim(c, r) PROVE Distinct'
  BY <1>5, EnterClaimed DEF Claim, ClaimFree, ClaimBasepri, ClaimPrimask, Locks
<1>6. ASSUME NEW c \in Contexts, NEW r \in Resources, Release(c, r) PROVE Distinct'
  BY <1>6, LeaveClaimed DEF Release, ReleaseFree, ReleaseBasepri, ReleasePrimask
<1> QED
  BY <1>2, <1>3, <1>4, <1>5, <1>6 DEF Next, vars

-----------------------------------------------------------------------------
(* The refinement.                                                         *)

Held == [c \in Contexts |-> Accesses(c)]

(* What a started context has within reach lies below its cell.            *)
LEMMA AccessBelowCell ==
    ASSUME PositivePriorities, IInv, "init" \notin active,
           NEW c \in active, NEW r \in Accesses(c)
    PROVE  Ceiling[r] \in 0..255 /\ Ceiling[r] <= priority[c]
<1>1. StackOK(c, claims[c], priority[c]) /\ c \in Contexts /\ c # "init"
  BY BootedFacts DEF Booted
<1>2. priority[c] \in 0..255 /\ Prio[c] \in 0..255
  BY BootedFacts, PrioFacts
<1>3. r \in Uses[c] /\ r \in Resources
  BY <1>1, CeilingAssumption DEF Accesses, Claimed, StackOK, ClaimOK, Direct, Proxies
<1>4. Ceiling[r] \in 0..255
  BY <1>3, CeilingAssumption
<1>5. CASE r \in Direct[c]
  <2> DEFINE k == Ceiling[r]
             p == Prio[c]
             q == priority[c]
  <2>1. ~(p < k) /\ p <= q
    BY <1>5, <1>1, <1>3 DEF Direct, Proxies, NeedsLock, Prio, StackOK
  <2>2. k \in 0..255 /\ p \in 0..255 /\ q \in 0..255
    BY <1>2, <1>4
  <2> HIDE DEF k, p, q
  <2>3. k <= q
    BY <2>1, <2>2
  <2> QED
    BY <2>3, <1>4 DEF k, q
<1>6. CASE r \in Claimed(c)
  BY <1>6, <1>1, <1>4 DEF Claimed, StackOK, ClaimOK
<1> QED
  BY <1>5, <1>6 DEF Accesses

(* A handler that starts is above the cell of every started context.       *)
LEMMA PreemptAbove ==
    ASSUME IInv, PositivePriorities, NEW h \in Handlers, Preempt(h)
    PROVE  /\ "init" \notin active /\ h \notin active
           /\ \A d \in active : Prio[d] < Prio[h] /\ priority[d] < Prio[h]
<1>1. TypeOK /\ "init" \notin active /\ ~primask /\ h \notin active
  BY DEF IInv, Preempt, Unmasked
<1>2. IInv'
  BY PositivePriorities, InvStep DEF Next
<1>3. h \in Contexts /\ h # "init"
  BY PrioFacts, HandlersAssumption
<1>4. /\ active' = active \cup {h} /\ priority'[h] = Prio[h]
      /\ \A d \in active : priority'[d] = priority[d]
  BY <1>1, <1>3 DEF Preempt, TypeOK, Prio
<1>5. \A d \in active : Prio[d] < Prio[h]
  BY <1>1, <1>3, BootedFacts, HwFacts, PositivePriorities DEF Preempt, Unmasked
<1>6. Ordered'
  BY <1>1, <1>2, <1>3, <1>4 DEF IInv, Booted
<1>7. \A d \in active : \/ priority[d] < Prio[h]
                        \/ Prio[h] < Prio[d]
  BY <1>1, <1>4, <1>6 DEF Ordered, Prio
<1>8. \A d \in active : Prio[d] \in 0..255 /\ Prio[h] \in 0..255
  BY <1>1, <1>3, BootedFacts, PrioFacts
<1>9. \A d \in active : ~(Prio[h] < Prio[d])
  <2> SUFFICES ASSUME NEW d \in active PROVE ~(Prio[h] < Prio[d])
    OBVIOUS
  <2> DEFINE x == Prio[h]
             y == Prio[d]
  <2>1. x \in 0..255 /\ y \in 0..255 /\ y < x
    BY <1>5, <1>8
  <2> HIDE DEF x, y
  <2>2. ~(x < y)
    BY <2>1
  <2> QED
    BY <2>2 DEF x, y
<1> QED
  BY <1>1, <1>5, <1>7, <1>9

LEMMA PolicyInit == Init => Policy!SrpInit
<1> SUFFICES ASSUME Init PROVE Policy!SrpInit
  OBVIOUS
<1>1. \A c \in Contexts : Claimed(c) = {}
  BY EmptyStack DEF Init, Claimed
<1>2. \A c \in Contexts : Accesses(c) = IF c = "init" THEN Direct[c] ELSE {}
  BY <1>1 DEF Init, Accesses
<1> QED
  BY <1>2 DEF Init, Policy!SrpInit

LEMMA BootStep ==
    ASSUME TypeOK, FinishInit
    PROVE  Policy!Boot
<1>1. /\ active = {"init"} /\ active' = {"idle"}
      /\ claims'["idle"] = <<>> /\ "idle" \in Contexts /\ "init" \in Contexts
  BY PrioFacts DEF FinishInit, TypeOK
<1>2. Claimed("idle")' = {}
  BY <1>1, EmptyStack DEF Claimed
<1>3. Accesses("idle")' = Direct["idle"]
  BY <1>1, <1>2 DEF Accesses
<1>4. \A c \in Contexts \ {"idle"} : Accesses(c)' = {}
  BY <1>1 DEF Accesses
<1>5. \A c \in Contexts \ {"init"} : Accesses(c) = {}
  BY <1>1 DEF Accesses
<1>6. Held' = [Held EXCEPT !["init"] = {}, !["idle"] = Direct["idle"]]
  BY <1>1, <1>3, <1>4, <1>5 DEF Held
<1> QED
  BY <1>1, <1>6 DEF Policy!Boot, Held

LEMMA StartStep ==
    ASSUME IInv, PositivePriorities, NEW h \in Handlers, Preempt(h)
    PROVE  Policy!Start(h)
<1>1. /\ "init" \notin active /\ h \notin active
      /\ \A d \in active : Prio[d] < Prio[h] /\ priority[d] < Prio[h]
  BY PreemptAbove
<1>2. TypeOK /\ h \in Contexts /\ active \subseteq Contexts
  BY PrioFacts DEF IInv, TypeOK
<1>3. \A d \in active : \A r \in Accesses(d) : Ceiling[r] < Prio[h]
  <2> SUFFICES ASSUME NEW d \in active, NEW r \in Accesses(d)
               PROVE  Ceiling[r] < Prio[h]
    OBVIOUS
  <2> DEFINE k == Ceiling[r]
             q == priority[d]
             p == Prio[h]
  <2>1. k \in 0..255 /\ q \in 0..255 /\ p \in 0..255 /\ k <= q /\ q < p
    BY <1>1, <1>2, AccessBelowCell, BootedFacts, PrioFacts, PositivePriorities
  <2> HIDE DEF k, q, p
  <2>2. k < p
    BY <2>1
  <2> QED
    BY <2>2 DEF k, p
<1>4. /\ active' = active \cup {h} /\ claims'[h] = <<>>
      /\ \A d \in Contexts \ {h} : claims'[d] = claims[d]
  BY <1>2 DEF Preempt, TypeOK
<1>5. Claimed(h)' = {}
  BY <1>4, EmptyStack DEF Claimed
<1>6. Accesses(h)' = Direct[h]
  BY <1>4, <1>5 DEF Accesses
<1>7. \A d \in Contexts \ {h} : Accesses(d)' = Accesses(d)
  BY <1>4 DEF Accesses, Claimed
<1>8. Held' = [Held EXCEPT ![h] = Direct[h]]
  BY <1>2, <1>6, <1>7 DEF Held
<1>9. \A d \in active : Held[d] = Accesses(d)
  BY <1>2 DEF Held
<1> QED
  BY <1>1, <1>3, <1>4, <1>8, <1>9 DEF Policy!Start, Held, Prio

LEMMA FinishStep ==
    ASSUME IInv, PositivePriorities, NEW h \in Handlers, Return(h)
    PROVE  Policy!Finish(h)
<1>1. /\ TypeOK /\ h \in Contexts /\ h \in active /\ claims[h] = <<>> /\ Running(h)
      /\ active' = active \ {h} /\ claims' = claims
  BY PrioFacts DEF Return, Running, IInv
<1>2. "init" \notin active
  BY <1>1, HandlersAssumption DEF IInv
<1>3. Top(h)
  BY <1>1, <1>2, BootedFacts, PositivePriorities
<1>4. Claimed(h) = {}
  BY <1>1, EmptyStack DEF Claimed
<1>5. Accesses(h) = Direct[h] /\ Accesses(h)' = {}
  BY <1>1, <1>4 DEF Accesses
<1>6. \A d \in Contexts \ {h} : Accesses(d)' = Accesses(d)
  BY <1>1 DEF Accesses, Claimed
<1>7. Held' = [Held EXCEPT ![h] = {}] /\ Held[h] = Direct[h]
  BY <1>1, <1>5, <1>6 DEF Held
<1> QED
  BY <1>1, <1>3, <1>7 DEF Policy!Finish, Policy!Executing, Held, Top, Prio

LEMMA MutexNext ==
    ASSUME PositivePriorities
    PROVE  IInv' => MutualExclusion'
<1>1. IInv => MutualExclusion
  BY PositivePriorities, InvImpliesMutex
<1> QED
  BY <1>1, PTL

LEMMA TakeStep ==
    ASSUME IInv, Distinct, PositivePriorities, NEW c \in Contexts, NEW r \in Resources,
           Claim(c, r)
    PROVE  Policy!Take(c, r)
<1>1. PICK lock \in Locks : Enter(c, r, lock)
  BY DEF Claim, ClaimFree, ClaimBasepri, ClaimPrimask, Locks
<1>2. /\ "init" \notin active /\ Top(c) /\ c \in active /\ TypeOK /\ active' = active
  BY <1>1, EnterFacts
<1>3. /\ Claimed(c)' = Claimed(c) \cup {r}
      /\ \A d \in Contexts \ {c} : claims'[d] = claims[d]
      /\ r \notin Claimed(c) /\ r \in Proxies(c)
  BY <1>1, <1>2, EnterClaimed
<1>4. MutualExclusion'
  <2>1. IInv'
    BY PositivePriorities, InvStep DEF Next
  <2> QED
    BY <2>1, PositivePriorities, MutexNext
<1>5. Accesses(c)' = Accesses(c) \cup {r}
  BY <1>2, <1>3 DEF Accesses
<1>6. \A d \in Contexts \ {c} : Accesses(d)' = Accesses(d)
  BY <1>2, <1>3, ZenonT(60) DEF Accesses, Claimed
<1>7. r \notin Accesses(c)
  BY <1>2, <1>3 DEF Accesses, Direct
<1>8. \A d \in active \ {c} : r \notin Accesses(d)
  <2> SUFFICES ASSUME NEW d \in active \ {c} PROVE r \notin Accesses(d)
    OBVIOUS
  <2>1. Accesses(c)' \cap Accesses(d)' = {}
    BY <1>2, <1>4 DEF MutualExclusion
  <2>2. d \in Contexts
    BY <1>2 DEF TypeOK
  <2> QED
    BY <2>1, <2>2, <1>5, <1>6
<1>9. Held' = [Held EXCEPT ![c] = Held[c] \cup {r}]
  BY <1>5, <1>6 DEF Held
<1>10. \A d \in active : r \notin Held[d]
  BY <1>2, <1>7, <1>8 DEF Held, TypeOK
<1> QED
  BY <1>2, <1>9, <1>10 DEF Policy!Take, Policy!Executing, Held, Top, Prio

LEMMA GiveStep ==
    ASSUME IInv, Distinct, PositivePriorities, NEW c \in Contexts, NEW r \in Resources,
           Release(c, r)
    PROVE  Policy!Give(c, r)
<1>1. PICK lock : Leave(c, r, lock)
  BY DEF Release, ReleaseFree, ReleaseBasepri, ReleasePrimask
<1>2. /\ "init" \notin active /\ Top(c) /\ c \in active /\ TypeOK /\ active' = active
      /\ ClaimOK(c, Inmost(c), priority[c])
  BY <1>1, LeaveFacts
<1>3. r \in Proxies(c)
  BY <1>1, <1>2 DEF ClaimOK, Leave
<1>4. /\ Claimed(c)' = Claimed(c) \ {r}
      /\ \A d \in Contexts \ {c} : claims'[d] = claims[d]
      /\ r \in Claimed(c)
  BY <1>1, <1>2, LeaveClaimed
<1>5. r \notin Direct[c]
  BY <1>3 DEF Direct
<1>6. Accesses(c)' = Accesses(c) \ {r} /\ r \in Accesses(c)
  BY <1>2, <1>4, <1>5 DEF Accesses
<1>7. \A d \in Contexts \ {c} : Accesses(d)' = Accesses(d)
  BY <1>2, <1>4, SMTT(5), ZenonT(60) DEF Accesses, Claimed
<1>8. Held' = [Held EXCEPT ![c] = Held[c] \ {r}] /\ r \in Held[c]
  BY <1>6, <1>7 DEF Held
<1> QED
  BY <1>2, <1>5, <1>8 DEF Policy!Give, Policy!Executing, Held, Top, Prio

LEMMA PolicyStep ==
    ASSUME PositivePriorities
    PROVE  IInv /\ Distinct /\ [Next]_vars => [Policy!SrpNext]_Policy!srpVars
<1> SUFFICES ASSUME IInv, Distinct, [Next]_vars
             PROVE  Policy!SrpNext \/ UNCHANGED <<active, Held>>
  BY DEF Policy!srpVars, Held
<1>1. CASE FinishInit
  BY <1>1, BootStep DEF IInv, Policy!SrpNext
<1>2. ASSUME NEW h \in Handlers, Pend(h) PROVE UNCHANGED <<active, Held>>
  BY <1>2 DEF Pend, Held, Accesses, Claimed
<1>3. ASSUME NEW h \in Handlers, Preempt(h) \/ Return(h) PROVE Policy!SrpNext
  <2>1. h \in Contexts \ {"init", "idle"}
    BY HandlersAssumption DEF Contexts
  <2>2. Policy!Start(h) \/ Policy!Finish(h)
    BY <1>3, StartStep, FinishStep, PositivePriorities
  <2> QED
    BY <2>1, <2>2 DEF Policy!SrpNext
<1>4. ASSUME NEW c \in Contexts, NEW r \in Resources, Claim(c, r) \/ Release(c, r)
      PROVE  Policy!SrpNext
  <2>1. Policy!Take(c, r) \/ Policy!Give(c, r)
    BY <1>4, TakeStep, GiveStep, PositivePriorities
  <2> QED
    BY <2>1 DEF Policy!SrpNext
<1>5. CASE UNCHANGED vars
  BY <1>5 DEF vars, Held, Accesses, Claimed
<1> QED
  BY <1>1, <1>2, <1>3, <1>4, <1>5 DEF Next

(* BASEPRI, PRIMASK and the priority cells together implement the stack    *)
(* resource policy: a handler starts only above the ceilings in force, and *)
(* a claim never finds its resource taken.                                 *)
THEOREM Implements ==
    ASSUME PositivePriorities
    PROVE  Spec => FollowsPolicy
<1>1. Init => IInv /\ Distinct /\ Policy!SrpInit
  BY InvInit, DistinctInit, PolicyInit
<1>2. IInv /\ Distinct /\ [Next]_vars => IInv' /\ Distinct'
  BY PositivePriorities, InvStep, DistinctStep DEF IInv
<1>3. IInv /\ Distinct /\ [Next]_vars => [Policy!SrpNext]_Policy!srpVars
  BY PositivePriorities, PolicyStep
<1> QED
  BY <1>1, <1>2, <1>3, PTL DEF Spec, FollowsPolicy, Policy!SrpSpec

-----------------------------------------------------------------------------
(* No mask without a reason, on ARMv7-M.                                   *)

(* A value of c's cell, or of BASEPRI in logical terms, with the reason    *)
(* among the first n claims of the stack s of c.                           *)
Reason(c, s, n, v) ==
    \/ v = Prio[c]
    \/ \E i \in 1..n : s[i].lock = "basepri" /\ Ceiling[s[i].res] = v

Justifies(c, s, b) ==
    b = 0 \/ \E v \in 0..255 : b = Logical2hw(v) /\ Reason(c, s, Len(s), v)

CellReasons(c, s, p) ==
    /\ p = 255 \/ Reason(c, s, Len(s), p)
    /\ \A i \in 1..Len(s) : s[i].lock # "none" => Reason(c, s, i - 1, s[i].current)
    /\ \A i \in 1..Len(s) : s[i].lock = "primask" => Ceiling[s[i].res] = Levels

Reasons ==
    "init" \notin active =>
        /\ \A c \in active : CellReasons(c, claims[c], priority[c])
        /\ \E c \in active : Justifies(c, claims[c], basepri)
        /\ \A h \in active \cap Handlers :
              \E c \in active : Prio[c] < Prio[h] /\ Justifies(c, claims[c], initial[h])

LEMMA ReasonsInit == Init => Reasons
BY DEF Init, Reasons

LEMMA FreshReasons ==
    ASSUME NEW c
    PROVE  CellReasons(c, <<>>, Prio[c])
BY EmptyStack DEF CellReasons, Reason

(* What a step of the topmost context c keeps of the others.               *)
LEMMA ReasonsStep ==
    ASSUME Reasons, IInv, PositivePriorities, "init" \notin active,
           NEW c \in active, Top(c), active' = active, initial' = initial,
           \A d \in active \ {c} : claims'[d] = claims[d] /\ priority'[d] = priority[d],
           CellReasons(c, claims'[c], priority'[c]),
           \/ Justifies(c, claims'[c], basepri')
           \/ /\ basepri' = basepri
              /\ Justifies(c, claims[c], basepri) => Justifies(c, claims'[c], basepri)
    PROVE  Reasons'
<1>1. \A d \in active : CellReasons(d, claims'[d], priority'[d])
  BY DEF Reasons
<1>2. \E d \in active : Justifies(d, claims'[d], basepri')
  <2>1. CASE Justifies(c, claims'[c], basepri')
    BY <2>1
  <2>2. CASE /\ basepri' = basepri
             /\ Justifies(c, claims[c], basepri) => Justifies(c, claims'[c], basepri)
    <3>1. PICK d \in active : Justifies(d, claims[d], basepri)
      BY DEF Reasons
    <3>2. Justifies(d, claims'[d], basepri)
      BY <2>2, <3>1
    <3> QED
      BY <2>2, <3>2
  <2> QED
    BY <2>1, <2>2
<1>3. ASSUME NEW h \in active \cap Handlers
      PROVE  \E d \in active : Prio[d] < Prio[h] /\ Justifies(d, claims'[d], initial'[h])
  <2>1. PICK d \in active : Prio[d] < Prio[h] /\ Justifies(d, claims[d], initial[h])
    BY DEF Reasons
  <2>2. /\ Prio[h] \in 0..Levels /\ Prio[c] \in 0..Levels /\ Levels \in Nat
        /\ h = c \/ Prio[h] < Prio[c]
    BY BootedFacts, PositivePriorities DEF Top
  <2>3. d # c
    BY <2>1, <2>2
  <2> QED
    BY <2>1, <2>3
<1> QED
  BY <1>1, <1>2, <1>3 DEF Reasons, Prio

LEMMA EnterReasons ==
    ASSUME Reasons, IInv, PositivePriorities, NEW c \in Contexts, NEW r,
           NEW lock \in Locks, Enter(c, r, lock),
           NEW q \in 0..255, priority' = [priority EXCEPT ![c] = q],
           lock = "none" => q = priority[c] /\ basepri' = basepri,
           lock = "basepri" => q = Ceiling[r] /\ basepri' = Logical2hw(q),
           lock = "primask" => q = 255 /\ Ceiling[r] = Levels /\ basepri' = basepri,
           lock # "none" => priority[c] < Ceiling[r]
    PROVE  Reasons'
<1> DEFINE n == Len(claims[c])
           s == claims[c]
           t == claims'[c]
<1>1. /\ "init" \notin active /\ Top(c) /\ c \in active /\ TypeOK
      /\ UNCHANGED <<active, initial>> /\ Ceiling[r] \in 1..Levels
  BY EnterFacts, SMTT(20)
<1>2. /\ claims' = [claims EXCEPT ![c] = t]
      /\ Len(t) = n + 1 /\ Len(s) = n /\ n \in Nat
      /\ \A i \in 1..n : t[i] = s[i]
      /\ t[n + 1] =
            [res |-> r, current |-> priority[c], lock |-> lock, masked |-> primask]
  BY <1>1, EnterType
<1>3. t[n + 1].res = r /\ t[n + 1].lock = lock /\ t[n + 1].current = priority[c]
  BY <1>2
<1>4. /\ \A d \in active \ {c} : claims'[d] = claims[d] /\ priority'[d] = priority[d]
      /\ priority'[c] = q /\ priority[c] \in 0..255
  BY <1>1, <1>2 DEF TypeOK
<1>5. CellReasons(c, s, priority[c])
  BY <1>1 DEF Reasons
<1> HIDE DEF n, s, t
<1>6. /\ \A i \in 1..(n + 1) : i \in 1..n \/ i = n + 1
      /\ \A i \in 1..n : i \in 1..(n + 1)
      /\ n + 1 \in 1..(n + 1) /\ n + 1 - 1 = n
      /\ \A i \in 1..n : \A j \in 1..(i - 1) : j \in 1..n
  BY <1>2
<1>7. \A v : Reason(c, s, n, v) => Reason(c, t, n + 1, v) /\ Reason(c, t, n, v)
  BY <1>2, <1>6 DEF Reason
<1>8. lock # "none" => Reason(c, s, n, priority[c])
  <2>1. priority[c] < Ceiling[r] => priority[c] # 255
    BY <1>1, <1>4, LevelsNat
  <2> QED
    BY <2>1, <1>2, <1>5 DEF CellReasons
<1>9. lock = "basepri" => Reason(c, t, n + 1, q)
  BY <1>3, <1>6 DEF Reason
<1>10. CellReasons(c, t, q)
  <2>1. q = 255 \/ Reason(c, t, n + 1, q)
    BY <1>2, <1>5, <1>7, <1>9 DEF CellReasons, Locks
  <2>2. ASSUME NEW i \in 1..(n + 1), t[i].lock # "none"
        PROVE  Reason(c, t, i - 1, t[i].current)
    <3>1. CASE i \in 1..n
      <4>1. Reason(c, s, i - 1, s[i].current)
        BY <3>1, <2>2, <1>2, <1>5 DEF CellReasons
      <4>2. \A j \in 1..(i - 1) : t[j] = s[j]
        BY <3>1, <1>2, <1>6
      <4> QED
        BY <4>1, <4>2, <3>1, <1>2 DEF Reason
    <3>2. CASE i = n + 1
      <4>1. lock # "none" /\ t[i].current = priority[c] /\ i - 1 = n
        <5>1. t[n + 1].lock # "none"
          BY <3>2, <2>2
        <5>2. lock # "none" /\ t[i].current = priority[c]
          BY <3>2, <5>1, <1>3, Zenon
        <5>3. i - 1 = n
          BY <3>2, <1>2
        <5> QED
          BY <5>2, <5>3
      <4> QED
        BY <4>1, <1>7, <1>8
    <3> QED
      BY <3>1, <3>2, <1>6
  <2>3. ASSUME NEW i \in 1..(n + 1), t[i].lock = "primask"
        PROVE  Ceiling[t[i].res] = Levels
    <3>1. CASE i \in 1..n
      BY <3>1, <2>3, <1>2, <1>5 DEF CellReasons
    <3>2. CASE i = n + 1
      BY <3>2, <2>3, <1>3
    <3> QED
      BY <3>1, <3>2, <1>6
  <2> QED
    BY <2>1, <2>2, <2>3, <1>2 DEF CellReasons
<1>11. Justifies(c, s, basepri) => Justifies(c, t, basepri)
  <2>1. Len(s) = n /\ Len(t) = n + 1
    BY <1>2
  <2> QED
    BY <2>1, <1>7, Zenon DEF Justifies
<1>12. lock = "basepri" => Justifies(c, t, basepri')
  <2>1. Len(t) = n + 1
    BY <1>2
  <2> QED
    BY <2>1, <1>9, Zenon DEF Justifies
<1>13. \/ Justifies(c, t, basepri')
       \/ basepri' = basepri
  BY <1>12 DEF Locks
<1> QED
  BY <1>1, <1>4, <1>10, <1>11, <1>13, ReasonsStep, PositivePriorities, SMTT(30), ZenonT(30) DEF s, t

LEMMA LeaveReasons ==
    ASSUME Reasons, IInv, PositivePriorities, NEW c \in Contexts, NEW r,
           NEW lock \in Locks, Leave(c, r, lock),
           NEW q, priority' = [priority EXCEPT ![c] = q],
           lock = "none" => q = priority[c] /\ basepri' = basepri,
           lock = "basepri" => q = Inmost(c).current /\ basepri' = Logical2hw(q),
           lock = "primask" => q = Inmost(c).current /\ basepri' = basepri
    PROVE  Reasons'
<1> DEFINE n == Len(claims[c])
           s == claims[c]
           t == claims'[c]
           e == Inmost(c)
<1>1. /\ "init" \notin active /\ Top(c) /\ c \in active /\ TypeOK
      /\ UNCHANGED <<active, initial>> /\ e.current \in 0..255
      /\ e.lock = lock
  BY LeaveFacts
<1>2. /\ claims' = [claims EXCEPT ![c] = t]
      /\ n \in Nat /\ n >= 1 /\ Len(s) = n /\ Len(t) = n - 1
      /\ \A i \in 1..(n - 1) : t[i] = s[i]
  BY LeaveFacts
<1>3. s[n] = e
  BY DEF Inmost
<1>4. /\ \A d \in active \ {c} : claims'[d] = claims[d] /\ priority'[d] = priority[d]
      /\ priority'[c] = q
  BY <1>1, <1>2 DEF TypeOK
<1>5. CellReasons(c, s, priority[c])
  BY <1>1 DEF Reasons
<1> HIDE DEF n, s, t, e
<1>6. /\ \A i \in 1..n : i \in 1..(n - 1) \/ i = n
      /\ \A i \in 1..(n - 1) : i \in 1..n
      /\ n \in 1..n
      /\ \A i \in 1..(n - 1) : \A j \in 1..(i - 1) : j \in 1..(n - 1)
  BY <1>2
<1>7. \A v : Reason(c, s, n - 1, v) => Reason(c, t, n - 1, v)
  BY <1>2 DEF Reason
<1>8. \A v : lock # "basepri" /\ Reason(c, s, n, v) => Reason(c, s, n - 1, v)
  BY <1>1, <1>3, <1>6 DEF Reason
<1>9. lock # "none" => Reason(c, s, n - 1, e.current)
  BY <1>1, <1>2, <1>3, <1>5, <1>6 DEF CellReasons
<1>10. CellReasons(c, t, q)
  <2>1. q = 255 \/ Reason(c, t, n - 1, q)
    <3>1. CASE lock = "none"
      BY <3>1, <1>2, <1>5, <1>7, <1>8 DEF CellReasons
    <3>2. CASE lock = "basepri" \/ lock = "primask"
      BY <3>2, <1>7, <1>9 DEF e
    <3> QED
      BY <3>1, <3>2 DEF Locks
  <2>2. ASSUME NEW i \in 1..(n - 1), t[i].lock # "none"
        PROVE  Reason(c, t, i - 1, t[i].current)
    <3>1. Reason(c, s, i - 1, s[i].current)
      BY <2>2, <1>2, <1>5, <1>6 DEF CellReasons
    <3>2. \A j \in 1..(i - 1) : t[j] = s[j]
      BY <1>2, <1>6
    <3> QED
      BY <3>1, <3>2, <1>2 DEF Reason
  <2>3. ASSUME NEW i \in 1..(n - 1), t[i].lock = "primask"
        PROVE  Ceiling[t[i].res] = Levels
    BY <2>3, <1>2, <1>5, <1>6 DEF CellReasons
  <2> QED
    BY <2>1, <2>2, <2>3, <1>2 DEF CellReasons
<1>11. CASE lock = "basepri"
  <2>1. Justifies(c, t, basepri')
    BY <1>11, <1>1, <1>2, <1>7, <1>9 DEF Justifies, e
  <2> QED
    BY <2>1, <1>1, <1>4, <1>10, ReasonsStep, PositivePriorities DEF s, t
<1>12. CASE lock # "basepri"
  <2>1. basepri' = basepri
    BY <1>12 DEF Locks
  <2>2. Justifies(c, s, basepri) => Justifies(c, t, basepri)
    BY <1>12, <1>2, <1>7, <1>8 DEF Justifies
  <2> QED
    BY <2>1, <2>2, <1>1, <1>4, <1>10, ReasonsStep, PositivePriorities DEF s, t
<1> QED
  BY <1>11, <1>12

LEMMA ReasonsNext ==
    ASSUME PositivePriorities, Armv7m
    PROVE  IInv /\ Reasons /\ [Next]_vars => Reasons'
<1> SUFFICES ASSUME IInv, Reasons, [Next]_vars PROVE Reasons'
  OBVIOUS
<1>1. CASE FinishInit
  <2>1. /\ active' = {"idle"} /\ claims'["idle"] = <<>> /\ basepri' = 0
        /\ priority'["idle"] = Prio["idle"] /\ "idle" \notin Handlers
    BY <1>1, PrioFacts, HandlersAssumption DEF FinishInit, IInv, TypeOK, Prio
  <2>2. CellReasons("idle", claims'["idle"], priority'["idle"])
    BY <2>1, FreshReasons
  <2>3. Justifies("idle", claims'["idle"], basepri')
    BY <2>1 DEF Justifies
  <2> QED
    BY <2>1, <2>2, <2>3 DEF Reasons
<1>2. ASSUME UNCHANGED <<active, basepri, priority, initial, claims>> PROVE Reasons'
  BY <1>2 DEF Reasons, Prio
<1>3. ASSUME NEW h \in Handlers, Preempt(h) PROVE Reasons'
  <2>1. /\ "init" \notin active /\ h \notin active /\ h \in Contexts
        /\ \A d \in active : Prio[d] < Prio[h]
    BY <1>3, PreemptAbove, PrioFacts, PositivePriorities
  <2>2. /\ active' = active \cup {h} /\ claims'[h] = <<>> /\ priority'[h] = Prio[h]
        /\ initial'[h] = basepri /\ basepri' = basepri
        /\ \A d \in active : claims'[d] = claims[d] /\ priority'[d] = priority[d]
        /\ \A g \in Handlers \ {h} : initial'[g] = initial[g]
    BY <1>3, <2>1 DEF Preempt, IInv, TypeOK, Prio
  <2>3. CellReasons(h, claims'[h], priority'[h])
    BY <2>2, FreshReasons
  <2>4. \A d \in active' : CellReasons(d, claims'[d], priority'[d])
    BY <2>1, <2>2, <2>3 DEF Reasons
  <2>5. PICK d \in active : Justifies(d, claims[d], basepri)
    BY <2>1 DEF Reasons
  <2>6. Justifies(d, claims'[d], basepri') /\ Justifies(d, claims'[d], initial'[h])
    BY <2>2, <2>5
  <2>7. ASSUME NEW g \in active' \cap Handlers
        PROVE  \E e \in active' : Prio[e] < Prio[g] /\ Justifies(e, claims'[e], initial'[g])
    <3>1. CASE g = h
      BY <3>1, <2>1, <2>2, <2>6
    <3>2. CASE g # h
      <4>1. g \in active \cap Handlers /\ initial'[g] = initial[g]
        BY <3>2, <2>2
      <4>2. PICK e \in active : Prio[e] < Prio[g] /\ Justifies(e, claims[e], initial[g])
        BY <4>1, <2>1 DEF Reasons
      <4> QED
        BY <4>1, <4>2, <2>2
    <3> QED
      BY <3>1, <3>2
  <2>8. \E e \in active' : Justifies(e, claims'[e], basepri')
    BY <2>2, <2>6
  <2> QED
    BY <2>4, <2>7, <2>8 DEF Reasons, Prio
<1>4. ASSUME NEW h \in Handlers, Return(h) PROVE Reasons'
  <2>1. /\ TypeOK /\ h \in Contexts /\ h \in active /\ Running(h)
        /\ active' = active \ {h} /\ basepri' = initial[h]
        /\ UNCHANGED <<claims, priority, initial>>
    BY <1>4, PrioFacts, Armv7m DEF Return, Running, IInv
  <2>2. "init" \notin active
    BY <2>1, HandlersAssumption DEF IInv
  <2>3. Top(h) /\ \A d \in active : Prio[d] \in 0..Levels /\ Levels \in Nat
    BY <2>1, <2>2, BootedFacts, PositivePriorities
  <2>4. \A d \in active' : CellReasons(d, claims'[d], priority'[d])
    BY <2>1, <2>2 DEF Reasons
  <2>5. ASSUME NEW g \in active \cap Handlers
        PROVE  \E e \in active' : Prio[e] < Prio[g] /\ Justifies(e, claims'[e], initial'[g])
    <3>1. PICK e \in active : Prio[e] < Prio[g] /\ Justifies(e, claims[e], initial[g])
      BY <2>2 DEF Reasons
    <3>2. g = h \/ Prio[g] < Prio[h]
      BY <2>3 DEF Top
    <3>3. e # h
      <4>1. Prio[h] \in 0..Levels /\ Prio[g] \in 0..Levels /\ Levels \in Nat
        BY <2>1, <2>3
      <4> QED
        BY <3>1, <3>2, <4>1
    <3> QED
      BY <3>1, <3>3, <2>1
  <2>6. \E e \in active' : Justifies(e, claims'[e], basepri')
    BY <2>1, <2>5
  <2> QED
    BY <2>1, <2>4, <2>5, <2>6 DEF Reasons, Prio
<1>5. ASSUME NEW c \in Contexts, NEW r \in Resources, Claim(c, r) PROVE Reasons'
  <2>1. CASE ClaimFree(c, r)
    <3>1. priority' = [priority EXCEPT ![c] = priority[c]] /\ priority[c] \in 0..255
      BY <2>1 DEF ClaimFree, IInv, TypeOK
    <3>2. Enter(c, r, "none") /\ basepri' = basepri
      BY <2>1 DEF ClaimFree
    <3> QED
      BY <3>1, <3>2, EnterReasons, PositivePriorities, ZenonT(60) DEF Locks
  <2>2. CASE ClaimBasepri(c, r)
    <3>1. Ceiling[r] \in 0..255
      BY CeilingAssumption
    <3> QED
      BY <2>2, <3>1, EnterReasons, PositivePriorities, ZenonT(60) DEF ClaimBasepri, Locks
  <2>3. CASE ClaimPrimask(c, r)
    <3>1. /\ Enter(c, r, "primask") /\ priority[c] < Ceiling[r] /\ Ceiling[r] = Levels
          /\ priority' = [priority EXCEPT ![c] = 255] /\ basepri' = basepri
          /\ 255 \in 0..255
      BY <2>3, Armv7m DEF ClaimPrimask
    <3> QED
      BY <3>1, EnterReasons, PositivePriorities, ZenonT(60) DEF Locks
  <2> QED
    BY <1>5, <2>1, <2>2, <2>3, SMTT(30), ZenonT(30) DEF Claim
<1>6. ASSUME NEW c \in Contexts, NEW r \in Resources, Release(c, r) PROVE Reasons'
  <2>1. CASE ReleaseFree(c, r)
    <3>1. priority' = [priority EXCEPT ![c] = priority[c]]
      BY <2>1 DEF ReleaseFree, IInv, TypeOK
    <3> QED
      BY <2>1, <3>1, LeaveReasons, PositivePriorities DEF ReleaseFree, Locks
  <2>2. CASE ReleaseBasepri(c, r)
    BY <2>2, LeaveReasons, PositivePriorities DEF ReleaseBasepri, Locks
  <2>3. CASE ReleasePrimask(c, r)
    BY <2>3, LeaveReasons, PositivePriorities DEF ReleasePrimask, Locks
  <2> QED
    BY <1>6, <2>1, <2>2, <2>3 DEF Release
<1> QED
  BY <1>1, <1>2, <1>3, <1>4, <1>5, <1>6 DEF Next, Pend, vars

LEMMA ReasonsImply ==
    ASSUME PositivePriorities, IInv, Reasons
    PROVE  Armv7m => NoSpuriousMasking
<1> SUFFICES ASSUME Armv7m, "init" \notin active, NEW h \in Handlers, ~Unmasked(h),
                    \A c \in active : ~(Prio[c] >= Prio[h]),
                    \A c \in active, r \in Resources :
                       r \in Claimed(c) => ~(Ceiling[r] >= Prio[h])
             PROVE  FALSE
  BY DEF NoSpuriousMasking, Prio
<1>1. /\ PrioritiesFit /\ Booted /\ h \in Contexts /\ h # "init"
      /\ \A c \in active : Prio[c] \in 0..Levels /\ c \in Contexts /\ c # "init"
  BY BootedFacts, PrioFacts, HandlersAssumption
<1>2. Prio[h] \in 1..Levels /\ HwPriority(h) = Logical2hw(Prio[h])
  BY <1>1, PrioFacts, HandlersAssumption, LevelsNat, PositivePriorities
     DEF PositivePriorities, PrioritiesFit, HwPriority
<1>3. \A c \in active : \A i \in 1..Len(claims[c]) :
         /\ claims[c][i].res \in Claimed(c) /\ claims[c][i].res \in Resources
         /\ Ceiling[claims[c][i].res] \in 1..Levels
  BY <1>1, ProxyFacts DEF Booted, StackOK, ClaimOK, Claimed
<1>4. ~primask
  <2> SUFFICES ASSUME primask PROVE FALSE
    OBVIOUS
  <2>1. PICK c \in active : \E i \in 1..Len(claims[c]) : claims[c][i].lock = "primask"
    BY <1>1 DEF Booted, PrimaskOK
  <2>2. PICK i \in 1..Len(claims[c]) : claims[c][i].lock = "primask"
    BY <2>1
  <2>3. Ceiling[claims[c][i].res] = Levels
    BY <2>2 DEF Reasons, CellReasons
  <2> QED
    BY <2>3, <1>2, <1>3, LevelsNat
<1>5. \A d \in active : HwPriority(h) < HwPriority(d)
  BY <1>1, <1>2, LevelsNat, HwFacts, PositivePriorities
<1>6. basepri # 0 /\ ~(Logical2hw(Prio[h]) < basepri)
  BY <1>2, <1>4, <1>5 DEF Unmasked
<1>7. PICK c \in active : Justifies(c, claims[c], basepri)
  BY DEF Reasons
<1>8. PICK v \in 0..255 :
         basepri = Logical2hw(v) /\ Reason(c, claims[c], Len(claims[c]), v)
  BY <1>6, <1>7 DEF Justifies
<1>9. v < Prio[h]
  BY <1>1, <1>2, <1>3, <1>8, LevelsNat DEF Reason
<1>10. v # 0
  BY <1>6, <1>8, Logical2hwOrder
<1>11. v \in 1..Levels
  BY <1>9, <1>10, <1>2, LevelsNat
<1> QED
  BY <1>2, <1>6, <1>8, <1>9, <1>11, Logical2hwOrder

(* On ARMv7-M every handler that is held back is so by a context or by a   *)
(* claim of its priority or above, after any nesting and any preemption.   *)
THEOREM MaskedForAReason ==
    ASSUME PositivePriorities
    PROVE  Spec => []NoSpuriousMasking
<1>1. CASE Armv7m
  <2>1. IInv /\ Reasons /\ [Next]_vars => Reasons'
    BY <1>1, PositivePriorities, ReasonsNext
  <2>2. IInv /\ Reasons => NoSpuriousMasking
    BY <1>1, PositivePriorities, ReasonsImply
  <2> QED
    BY <2>1, <2>2, ReasonsInit, Inductive, PositivePriorities, PTL DEF Spec
<1>2. CASE ~Armv7m
  <2>1. NoSpuriousMasking
    BY <1>2 DEF NoSpuriousMasking
  <2> QED
    BY <2>1, PTL
<1> QED
  BY <1>1, <1>2, DeviceAssumption
=============================================================================
