------------------------------- MODULE Kernel -------------------------------
(***************************************************************************)
(* The run-time core of an RTFM application on one Cortex-M core: main()   *)
(* (init, post_init, idle), the handlers the NVIC starts by preemption,    *)
(* export::run around each handler and Mutex::claim around each access to  *)
(* a shared resource.                                                      *)
(*                                                                         *)
(* A context's claims nest like closures, so claims[c] is a stack.  The    *)
(* priority cell of a context lives in its own stack frame; only BASEPRI,  *)
(* PRIMASK and the NVIC's pending and active bits are shared, and a        *)
(* handler that preempts leaves BASEPRI as it found it.  A step is         *)
(* therefore one access to those registers, with the accesses to the       *)
(* context's own cell around it.                                           *)
(***************************************************************************)
EXTENDS Naturals, Sequences

CONSTANTS Handlers,        \* interrupts and exceptions bound by the app
          Resources,       \* `static mut` resources (and generated queues)
          Priority,        \* `priority = p` of each handler
          Uses,            \* `resources = [..]` of each context
          Ceiling,         \* what analyze::app computed for each resource
          NVIC_PRIO_BITS,  \* of the device
          Armv7m           \* TRUE where BASEPRI exists

Contexts == Handlers \cup {"init", "idle"}

(* cpu: what `1 << NVIC_PRIO_BITS` is; a shift of 8 does not fit in the u8 *)
Levels == <<2, 4, 8, 16, 32, 64, 128>>[NVIC_PRIO_BITS]

(* init runs at priority 255, idle at 0, a handler at the one it declares. *)
LogicalPriority ==
    [c \in Contexts |-> CASE c = "init" -> 255
                          [] c = "idle" -> 0
                          [] OTHER -> Priority[c]]

Users(r) == {c \in Contexts \ {"init"} : r \in Uses[c]}

ASSUME HandlersAssumption ==
    /\ {"init", "idle"} \cap Handlers = {}
    /\ Priority \in [Handlers -> 0..255]

ASSUME DeviceAssumption == NVIC_PRIO_BITS \in 1..7 /\ Armv7m \in BOOLEAN

(* Ceiling analysis: the highest priority among the users other than init. *)
ASSUME CeilingAssumption ==
    /\ Uses \in [Contexts -> SUBSET Resources]
    /\ Ceiling \in [Resources -> 0..255]
    /\ \A r \in Resources : \A c \in Users(r) : LogicalPriority[c] <= Ceiling[r]
    /\ \A r \in Resources : Users(r) # {} =>
          \E c \in Users(r) : LogicalPriority[c] = Ceiling[r]

(* Mutant: the shift does not stay within a byte.                          *)
Logical2hwWide(logical) == (Levels - logical) * (256 \div Levels)

(* u8 arithmetic: the bits that a shift pushes out are lost, so that       *)
(* logical priority 0 becomes 0, which masks nothing as a BASEPRI value    *)
(* and is the most urgent priority as an NVIC value.                       *)
Logical2hw(logical) == ((Levels - logical) * (256 \div Levels)) % 256

(* What post_init writes to the NVIC; thread mode is below every handler.  *)
HwPriority(c) ==
    IF c \in Handlers THEN Logical2hw(Priority[c]) ELSE 256

(* Mutant: an off-by-one in the comparison of priority and ceiling.        *)
NeedsLockLate(c, r) == LogicalPriority[c] + 1 < Ceiling[r]

(* Ownership::needs_lock, false for init, which gets plain references.     *)
NeedsLock(c, r) == LogicalPriority[c] < Ceiling[r]

Proxies(c) == {r \in Uses[c] : c # "init" /\ NeedsLock(c, r)}

Direct == [c \in Contexts |-> Uses[c] \ Proxies(c)]

-----------------------------------------------------------------------------
VARIABLES active,    \* contexts on the stack: started and not finished
          pending,   \* handlers whose NVIC pending bit is set
          basepri,   \* BASEPRI, 0 masks nothing
          primask,   \* PRIMASK, TRUE masks every handler
          priority,  \* [Contexts -> u8], the Cell of the prelude
          initial,   \* [Handlers -> u8], BASEPRI as run() found it
          claims     \* [Contexts -> stack of the claims entered]

vars == <<active, pending, basepri, primask, priority, initial, claims>>

Locks == {"none", "basepri", "primask"}

Claims == [res : Resources, current : 0..255, lock : Locks, masked : BOOLEAN]

TypeOK ==
    /\ active \in SUBSET Contexts
    /\ pending \in SUBSET Handlers
    /\ basepri \in 0..255
    /\ primask \in BOOLEAN
    /\ priority \in [Contexts -> 0..255]
    /\ initial \in [Handlers -> 0..255]
    /\ claims \in [Contexts -> Seq(Claims)]

(* The context the core executes: the most urgent of the active ones.      *)
Running(c) ==
    /\ c \in active
    /\ \A d \in active \ {c} : HwPriority(c) < HwPriority(d)

Claimed(c) == {claims[c][i].res : i \in 1..Len(claims[c])}

(* interrupt::disable() comes first in main, before init's prelude.        *)
Init ==
    /\ active = {"init"}
    /\ pending = {}
    /\ basepri = 0
    /\ primask = TRUE
    /\ priority = LogicalPriority
    /\ initial = [h \in Handlers |-> 0]
    /\ claims = [c \in Contexts |-> <<>>]

-----------------------------------------------------------------------------
(* The peripheral of h, or rtfm::pend, sets its pending bit; that may      *)
(* happen at any time, also while h is active.                             *)
Pend(h) ==
    /\ h \notin pending
    /\ pending' = pending \cup {h}
    /\ UNCHANGED <<active, basepri, primask, priority, initial, claims>>

(* init returns, post_init checks and writes the priorities, interrupts    *)
(* are enabled and idle starts.  A priority the device does not have       *)
(* panics: main stops here, with every handler masked.                     *)
FinishInit ==
    /\ active = {"init"}
    /\ \A h \in Handlers : Priority[h] <= Levels
    /\ active' = {"idle"}
    /\ primask' = FALSE
    /\ priority' = [priority EXCEPT !["idle"] = LogicalPriority["idle"]]
    /\ claims' = [claims EXCEPT !["idle"] = <<>>]
    /\ UNCHANGED <<pending, basepri, initial>>

(* The NVIC lets h in when nothing masks it.                               *)
Unmasked(h) ==
    /\ ~primask
    /\ basepri = 0 \/ HwPriority(h) < basepri
    /\ \A d \in active : HwPriority(h) < HwPriority(d)

(* The NVIC starts the most urgent pending handler; run() saves BASEPRI    *)
(* and the prelude makes the handler's priority cell.                      *)
Preempt(h) ==
    /\ h \in pending \ active
    /\ Unmasked(h)
    /\ \A g \in pending : HwPriority(h) <= HwPriority(g)
    /\ active' = active \cup {h}
    /\ pending' = pending \ {h}
    /\ priority' = [priority EXCEPT ![h] = LogicalPriority[h]]
    /\ initial' = [initial EXCEPT ![h] = basepri]
    /\ claims' = [claims EXCEPT ![h] = <<>>]
    /\ UNCHANGED <<basepri, primask>>

(* What every claim does.  The claim takes `&mut self`, so a context       *)
(* cannot claim again the resource it is inside of.                        *)
Enter(c, r, lock) ==
    /\ Running(c)
    /\ r \in Proxies(c) \ Claimed(c)
    /\ claims' = [claims EXCEPT ![c] = Append(@,
                    [res |-> r, current |-> priority[c],
                     lock |-> lock, masked |-> primask])]
    /\ UNCHANGED <<active, pending, initial>>

(* The ceiling is already covered: no lock is taken.                       *)
ClaimFree(c, r) ==
    /\ priority[c] >= Ceiling[r]
    /\ Enter(c, r, "none")
    /\ UNCHANGED <<basepri, primask, priority>>

(* Mutant: BASEPRI masks up to the priority of the claimant only.          *)
ClaimBasepriLow(c, r) ==
    /\ priority[c] < Ceiling[r]
    /\ Armv7m /\ Ceiling[r] # Levels
    /\ Enter(c, r, "basepri")
    /\ priority' = [priority EXCEPT ![c] = Ceiling[r]]
    /\ basepri' = Logical2hw(LogicalPriority[c])
    /\ UNCHANGED primask

(* A critical section in BASEPRI, below the highest priority.              *)
ClaimBasepri(c, r) ==
    /\ priority[c] < Ceiling[r]
    /\ Armv7m /\ Ceiling[r] # Levels
    /\ Enter(c, r, "basepri")
    /\ priority' = [priority EXCEPT ![c] = Ceiling[r]]
    /\ basepri' = Logical2hw(Ceiling[r])
    /\ UNCHANGED primask

(* BASEPRI cannot mask hardware priority 0, and ARMv6-M has no BASEPRI:    *)
(* interrupt::free disables every handler.                                 *)
ClaimPrimask(c, r) ==
    /\ priority[c] < Ceiling[r]
    /\ ~Armv7m \/ Ceiling[r] = Levels
    /\ Enter(c, r, "primask")
    /\ priority' = [priority EXCEPT ![c] = 255]
    /\ primask' = TRUE
    /\ UNCHANGED basepri

(* What leaving the innermost claim does, whatever it locked.              *)
Inmost(c) == claims[c][Len(claims[c])]

Leave(c, r, lock) ==
    /\ Running(c)
    /\ claims[c] # <<>>
    /\ Inmost(c).res = r /\ Inmost(c).lock = lock
    /\ claims' = [claims EXCEPT ![c] = SubSeq(@, 1, Len(@) - 1)]
    /\ UNCHANGED <<active, pending, initial>>

ReleaseFree(c, r) ==
    /\ Leave(c, r, "none")
    /\ UNCHANGED <<basepri, primask, priority>>

(* Mutant: leaving a claim always lifts the mask, also inside another one. *)
ReleaseBasepriLifts(c, r) ==
    /\ Leave(c, r, "basepri")
    /\ basepri' = 0
    /\ priority' = [priority EXCEPT ![c] = Inmost(c).current]
    /\ UNCHANGED primask

(* Mutant: the cell keeps the ceiling of the claim that ended.             *)
ReleaseBasepriForgets(c, r) ==
    /\ Leave(c, r, "basepri")
    /\ basepri' = Logical2hw(Inmost(c).current)
    /\ UNCHANGED <<primask, priority>>

ReleaseBasepri(c, r) ==
    /\ Leave(c, r, "basepri")
    /\ basepri' = Logical2hw(Inmost(c).current)
    /\ priority' = [priority EXCEPT ![c] = Inmost(c).current]
    /\ UNCHANGED primask

(* Mutant: interrupts stay disabled after the critical section.            *)
ReleasePrimaskShut(c, r) ==
    /\ Leave(c, r, "primask")
    /\ priority' = [priority EXCEPT ![c] = Inmost(c).current]
    /\ UNCHANGED <<basepri, primask>>

(* interrupt::free enables interrupts only if they were enabled before.    *)
ReleasePrimask(c, r) ==
    /\ Leave(c, r, "primask")
    /\ primask' = Inmost(c).masked
    /\ priority' = [priority EXCEPT ![c] = Inmost(c).current]
    /\ UNCHANGED basepri

Claim(c, r) == ClaimFree(c, r) \/ ClaimBasepri(c, r) \/ ClaimPrimask(c, r)

Release(c, r) ==
    ReleaseFree(c, r) \/ ReleaseBasepri(c, r) \/ ReleasePrimask(c, r)

(* Mutant: run() does not restore BASEPRI.                                 *)
ReturnKeeps(h) ==
    /\ Running(h)
    /\ claims[h] = <<>>
    /\ active' = active \ {h}
    /\ UNCHANGED <<pending, basepri, primask, priority, initial, claims>>

(* The handler's body is over: run() restores BASEPRI and the exception    *)
(* returns to the context that was preempted.                              *)
Return(h) ==
    /\ Running(h)
    /\ claims[h] = <<>>
    /\ active' = active \ {h}
    /\ basepri' = IF Armv7m THEN initial[h] ELSE basepri
    /\ UNCHANGED <<pending, primask, priority, initial, claims>>

Next ==
    \/ FinishInit
    \/ \E h \in Handlers : Pend(h) \/ Preempt(h) \/ Return(h)
    \/ \E c \in Contexts, r \in Resources : Claim(c, r) \/ Release(c, r)

Spec == Init /\ [][Next]_vars

(* init, the handlers and the closures given to claim all end (only idle   *)
(* has a divergent signature).  The NVIC is not put off for ever by claims *)
(* that come and go: it takes a handler when the mask is lifted, hence     *)
(* strong fairness.                                                        *)
Fairness ==
    /\ WF_vars(FinishInit)
    /\ \A h \in Handlers : SF_vars(Preempt(h)) /\ SF_vars(Return(h))
    /\ \A c \in Contexts : \A r \in Proxies(c) : SF_vars(Release(c, r))

FairSpec == Spec /\ Fairness

-----------------------------------------------------------------------------
(* The priorities the documentation allows; the parser also accepts 0.     *)
PositivePriorities == \A h \in Handlers : Priority[h] >= 1

(* The resources context c may touch now.                                  *)
Accesses(c) == IF c \in active THEN Direct[c] \cup Claimed(c) ELSE {}

(* No data race: no resource is within reach of two contexts that have     *)
(* both started (README: "data race free memory sharing").  Violating it   *)
(* takes a claim, a preemption the claim should have masked, and an access *)
(* by the handler that got in.                                             *)
MutualExclusion ==
    \A c, d \in active : c # d => Accesses(c) \cap Accesses(d) = {}

(* The priority cell agrees with the hardware: of the handlers more urgent *)
(* than the running context, exactly those above the cell's value can      *)
(* start.  The cell decides whether the next claim locks, so a cell that   *)
(* is too high skips a lock, and one that is too low lowers BASEPRI.       *)
CellMatchesHardware ==
    \A c \in active, h \in Handlers :
        /\ Running(c)
        /\ "init" \notin active
        /\ LogicalPriority[h] > LogicalPriority[c]
        => (Unmasked(h) <=> LogicalPriority[h] > priority[c])

(* On ARMv7-M a handler is only ever held back by a context of its own     *)
(* priority or above, or by a claim of a resource whose ceiling is at      *)
(* least its priority: nested claims, preemption inside a claim and every  *)
(* return leave no mask behind.                                            *)
NoSpuriousMasking ==
    (Armv7m /\ "init" \notin active) =>
        \A h \in Handlers :
            \/ Unmasked(h)
            \/ \E c \in active : LogicalPriority[c] >= LogicalPriority[h]
            \/ \E c \in active, r \in Resources :
                  r \in Claimed(c) /\ Ceiling[r] >= LogicalPriority[h]

(* The scheduling claim of the stack resource policy: at most one context  *)
(* of lower priority holds resources that keep a handler from starting.    *)
SingleBlocking ==
    \A h \in Handlers : \A c, d \in active :
        /\ LogicalPriority[c] < LogicalPriority[h]
        /\ LogicalPriority[d] < LogicalPriority[h]
        /\ \E r \in Accesses(c) : Ceiling[r] >= LogicalPriority[h]
        /\ \E r \in Accesses(d) : Ceiling[r] >= LogicalPriority[h]
        => c = d

(* Once nothing new is pended every pending handler gets to run: no claim, *)
(* no order of preemptions and returns leaves it masked for ever (README:  *)
(* "deadlock free execution").                                             *)
PendingRuns ==
    <>[][\A h \in Handlers : ~Pend(h)]_vars =>
        \A h \in Handlers : h \in pending ~> h \notin pending

(* The kernel implements the stack resource policy.                        *)
Policy == INSTANCE Srp WITH
    Prio <- LogicalPriority, Ceilings <- Ceiling, Owned <- Direct,
    started <- active, held <- [c \in Contexts |-> Accesses(c)]

FollowsPolicy == Policy!SrpSpec
=============================================================================
