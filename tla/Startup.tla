------------------------------ MODULE Startup ------------------------------
(***************************************************************************)
(* From the source to idle: what App::parse accepted is checked, expanded  *)
(* and started.  The generated main disables interrupts, pre_init writes   *)
(* the statics that start as MaybeUninit::uninitialized, init runs its     *)
(* statements and then the assignments to late resources, post_init        *)
(* enables the interrupts and writes their priorities one after the other, *)
(* and interrupts are enabled at last.  Interrupts get pending at any      *)
(* time, and a device may not have the priorities an application declares. *)
(***************************************************************************)
EXTENDS Syntax

CONSTANTS Exceptions, Interrupts,       \* the names the device has
          Tasks, Resources,             \* names the application may give
          NVIC_PRIO_BITS                \* priority bits of the device

ASSUME DeviceAssumption == NVIC_PRIO_BITS \in 1..7

Handlers == Exceptions \cup Interrupts

ASSUME NamesAssumption ==
    /\ {"init", "idle"} \cap (Handlers \cup Tasks) = {}
    /\ Handlers \cap Tasks = {}
    /\ Exceptions \cap Interrupts = {}
    /\ "SysTick" \in Exceptions

(* Sources name no other resources and tasks.                              *)
ASSUME UniverseAssumption ==
    \A s \in Sources : \A i \in DOMAIN s.items :
       /\ s.items[i].item = "static" => s.items[i].name \in Resources
       /\ s.items[i].item = "fn" =>
             \A k \in DOMAIN s.items[i].args :
                LET arg == s.items[i].args[k]
                IN  /\ arg.key = "resources" => ToSet(arg.list) \subseteq Resources
                    /\ arg.key \in {"spawn", "schedule"} => ToSet(arg.list) \subseteq Tasks

VARIABLES bound,        \* the interrupt that dispatches each level
          pc,           \* how far main got
          todo,         \* what the present part of main has still to do
          initialized,  \* the statics whose MaybeUninit was set
          value,        \* the assignment that set a late resource last
          ran,          \* the statements of init that ran, in order
          priority,     \* the priority bytes of the hardware
          enabled,      \* interrupts enabled in the NVIC
          primask,      \* interrupts disabled
          pending,      \* pending interrupts and exceptions
          stack         \* running handlers, the last one on top

mainVars == <<pc, todo, initialized, value, ran>>
hwVars == <<priority, enabled, primask, pending, stack>>
vars == <<source, pos, arm, read, args, app, verdict, bound, pc, todo,
          initialized, value, ran, priority, enabled, primask, pending, stack>>

-----------------------------------------------------------------------------
(* The parsed application as check and analyze see it.                     *)
Fns(c) ==
    CASE c = "init" -> app.init
      [] c = "idle" -> app.idle
      [] c \in DOMAIN app.exceptions -> {app.exceptions[c]}
      [] c \in DOMAIN app.interrupts -> {app.interrupts[c]}
      [] c \in DOMAIN app.tasks -> {app.tasks[c]}
      [] OTHER -> {}

Given(c) == IF Fns(c) = {} THEN DefaultArgs ELSE (CHOOSE fn \in Fns(c) : TRUE).args

InitFn == CHOOSE fn \in app.init : TRUE

Late == {r \in DOMAIN app.resources : app.resources[r].late}

Contexts == {"init", "idle"} \cup Handlers \cup Tasks

Application ==
    [handlers |-> DOMAIN app.exceptions \cup DOMAIN app.interrupts,
     tasks |-> DOMAIN app.tasks,
     resources |-> DOMAIN app.resources,
     mutable |-> {r \in DOMAIN app.resources : app.resources[r].mutable},
     late |-> Late,
     assigned |-> {a.name : a \in ToSet(InitFn.assigns)} \cap Resources,
     free |-> UNION app.free,
     priority |-> [c \in Handlers \cup Tasks |-> Given(c).priority],
     capacity |-> [t \in Tasks |-> Given(t).capacity],
     uses |-> [c \in Contexts |-> Given(c).resources],
     spawn |-> [c \in Contexts |-> Given(c).spawn],
     schedule |-> [c \in Contexts |-> Given(c).schedule]]

Macro == INSTANCE Analyze WITH
    Apps <- {}, OverflowChecks <- TRUE, app <- Application,
    phase <- "check", todo <- {}, unused <- {}, analysis <- <<>>

-----------------------------------------------------------------------------
(* What the analysis finds: the levels, the dispatcher of a task and the   *)
(* timer queue.                                                            *)
Levels == {Given(t).priority : t \in DOMAIN app.tasks}

Dispatcher(t) == bound[Given(t).priority]

Scheduled == UNION {Given(c).schedule : c \in Contexts}

TimerPriority == Max({1} \cup {Given(t).priority : t \in Scheduled})

(* SysTick is the timer of the timer queue, or an exception like others.   *)
Own == DOMAIN app.exceptions \cup DOMAIN app.interrupts

Timer(v) == v = "SysTick" /\ v \notin Own

NVIC == DOMAIN app.interrupts \cup ToSet(bound)

Vectors ==
    NVIC \cup DOMAIN app.exceptions \cup IF Scheduled = {} THEN {} ELSE {"SysTick"}

Declared(v) ==
    CASE v \in Own -> Given(v).priority
      [] Timer(v) -> TimerPriority
      [] OTHER -> CHOOSE l \in DOMAIN bound : bound[l] = v

(* Mutant: the shifted priority is not cut to a byte.                      *)
PriorityByteWide(p) == (2^NVIC_PRIO_BITS - p) * 2^(8 - NVIC_PRIO_BITS)

(* `((1 << bits) - priority) << (8 - bits)` in a byte.                     *)
PriorityByte(p) == ((2^NVIC_PRIO_BITS - p) * 2^(8 - NVIC_PRIO_BITS)) % 256

(* The statics of the queues, and the slots a free queue is filled with.   *)
Cells ==
    ({"inputs", "free", "slots"} \X DOMAIN app.tasks)
      \cup (IF TimerQueueFeature THEN {"scheduleds"} \X DOMAIN app.tasks ELSE {})
      \cup ({"ready"} \X ToSet(bound))
      \cup IF Scheduled = {} THEN {} ELSE {<<"timer_queue", "SysTick">>}

(* What a context reads through get_ref and get_mut: its late resources,   *)
(* and the queues of the messages it sends.                                *)
Inbox(t) == {"inputs", "free", "slots"} \X {t}

Times(t) == IF TimerQueueFeature THEN {<<"scheduleds", t>>} ELSE {}

Reads(c) ==
    ({"late"} \X (Given(c).resources \cap Late))
      \cup (UNION {Inbox(t) \cup Times(t) \cup {<<"ready", Dispatcher(t)>>} :
                      t \in Given(c).spawn})
      \cup (UNION {Inbox(t) \cup Times(t) \cup {<<"timer_queue", "SysTick">>} :
                      t \in Given(c).schedule})

Served(v) == {t \in DOMAIN app.tasks : Dispatcher(t) = v}

(* What the handler of a vector reads: a dispatcher runs the tasks of its  *)
(* level, SysTick moves messages from the timer queue to the ready queues. *)
Needs(v) ==
    CASE Timer(v) ->
            {<<"timer_queue", "SysTick">>}
              \cup {<<"ready", Dispatcher(t)>> : t \in Scheduled}
      [] v \in ToSet(bound) ->
            {<<"ready", v>>}
              \cup UNION {Inbox(t) \cup Times(t) \cup Reads(t) : t \in Served(v)}
      [] OTHER -> Reads(v)

-----------------------------------------------------------------------------
Init ==
    /\ SyntaxInit
    /\ bound = <<>>
    /\ pc = "compile"
    /\ todo = {}
    /\ initialized = {}
    /\ value = [r \in Resources |-> 0]
    /\ ran = <<>>
    /\ priority = [v \in Handlers |-> 0]
    /\ enabled = {}
    /\ primask = FALSE
    /\ pending = {}
    /\ stack = <<>>

Parse == SyntaxNext /\ UNCHANGED <<bound, mainVars, hwVars>>

(* Names the device has not are errors of the expanded program, and so are *)
(* two handlers of SysTick.                                                *)
Known ==
    /\ Scheduled # {} => "SysTick" \notin DOMAIN app.exceptions
    /\ DOMAIN app.exceptions \subseteq Exceptions
    /\ DOMAIN app.interrupts \cup UNION app.free \subseteq Interrupts
    /\ DOMAIN app.tasks \subseteq Tasks

(* Mutant: check::app does not ask whether late resources are assigned.    *)
CheckLate ==
    /\ pc = "compile" /\ verdict = "ok"
    /\ IF /\ Known
          /\ \A c \in Contexts : Given(c).resources \subseteq DOMAIN app.resources
          /\ \A c \in Contexts :
                Given(c).spawn \cup Given(c).schedule \subseteq DOMAIN app.tasks
          /\ Cardinality(Levels) <= Cardinality(UNION app.free)
          /\ DOMAIN app.interrupts \cap UNION app.free = {}
       THEN pc' = "main" /\ bound' \in Injection(Levels, UNION app.free)
       ELSE pc' = "rejected" /\ UNCHANGED bound
    /\ UNCHANGED <<syntaxVars, todo, initialized, value, ran, hwVars>>

(* check::app, and the choice of dispatchers: any free interrupts.         *)
Check ==
    /\ pc = "compile" /\ verdict = "ok"
    /\ IF Macro!Valid /\ Known
       THEN pc' = "main" /\ bound' \in Injection(Levels, UNION app.free)
       ELSE pc' = "rejected" /\ UNCHANGED bound
    /\ UNCHANGED <<syntaxVars, todo, initialized, value, ran, hwVars>>

(* main runs while no handler does.                                        *)
At(label) == pc = label /\ stack = <<>>

Disable ==
    /\ At("main")
    /\ primask' = TRUE
    /\ pc' = "pre_init"
    /\ todo' = Cells
    /\ UNCHANGED <<syntaxVars, bound, initialized, value, ran, priority,
                   enabled, pending, stack>>

(* pre_init, static by static; a map's statics in any order.  A new free   *)
(* queue is empty.                                                         *)
Group == <<"inputs", "scheduleds", "ready", "free", "timer_queue", "slots">>

Rank(cell) == CHOOSE n \in DOMAIN Group : Group[n] = cell[1]

PreInit ==
    /\ At("pre_init")
    /\ \E c \in todo :
          /\ \A d \in todo : Rank(c) <= Rank(d)
          /\ todo' = todo \ {c}
          /\ initialized' =
                (initialized \ IF c[1] = "free" THEN {<<"slots", c[2]>>} ELSE {})
                   \cup {c}
    /\ UNCHANGED <<syntaxVars, bound, pc, value, ran, hwVars>>

CallInit ==
    /\ At("pre_init") /\ todo = {}
    /\ pc' = "init"
    /\ UNCHANGED <<syntaxVars, bound, todo, initialized, value, ran, hwVars>>

(* The body of init: its statements, then the assignments, which set the   *)
(* late resources.                                                         *)
Ran(s) == ran' = Append(ran, s.at)

Statement ==
    /\ At("init")
    /\ Len(ran) < Len(InitFn.stmts)
    /\ Ran(InitFn.stmts[Len(ran) + 1])
    /\ UNCHANGED <<syntaxVars, bound, pc, todo, initialized, value, hwVars>>

Assignment == InitFn.assigns[Len(ran) - Len(InitFn.stmts) + 1]

Assign ==
    /\ At("init")
    /\ Len(ran) \in Len(InitFn.stmts) .. Len(InitFn.stmts) + Len(InitFn.assigns) - 1
    /\ Ran(Assignment)
    /\ IF Assignment.name \in Late
       THEN /\ initialized' = initialized \cup {<<"late", Assignment.name>>}
            /\ value' = [value EXCEPT ![Assignment.name] = Assignment.at]
       ELSE UNCHANGED <<initialized, value>>
    /\ UNCHANGED <<syntaxVars, bound, pc, todo, hwVars>>

Panic ==
    /\ At("init")
    /\ pc' = "panicked"
    /\ UNCHANGED <<syntaxVars, bound, todo, initialized, value, ran, hwVars>>

InitDone ==
    /\ At("init")
    /\ Len(ran) = Len(InitFn.stmts) + Len(InitFn.assigns)
    /\ pc' = "post_init"
    /\ todo' = Vectors

(* Mutant: interrupts are enabled as soon as init returned.                *)
FinishInitOpen ==
    /\ InitDone
    /\ primask' = FALSE
    /\ UNCHANGED <<syntaxVars, bound, initialized, value, ran, priority,
                   enabled, pending, stack>>

FinishInit ==
    /\ InitDone
    /\ UNCHANGED <<syntaxVars, bound, initialized, value, ran, hwVars>>

(* post_init: interrupts, exceptions, SysTick, dispatchers, the members of *)
(* each kind in any order, each completed before the next is begun.        *)
Kind(v) ==
    CASE v \in DOMAIN app.interrupts -> 1
      [] v \in DOMAIN app.exceptions -> 2
      [] Timer(v) -> 3
      [] OTHER -> 4

Due(v) ==
    /\ At("post_init")
    /\ v \in todo
    /\ \A w \in todo : Kind(v) <= Kind(w)
    /\ todo \cap enabled \subseteq {v}

EnableInterrupt(v) ==
    /\ Due(v)
    /\ v \in NVIC \ enabled
    /\ enabled' = enabled \cup {v}
    /\ UNCHANGED <<syntaxVars, bound, mainVars, priority, primask, pending, stack>>

(* Mutant: the priority of a handler is not compared with the device's.    *)
SetPriorityBlindly(v) ==
    /\ Due(v)
    /\ v \in NVIC => v \in enabled
    /\ priority' = [priority EXCEPT ![v] = PriorityByte(Declared(v))]
    /\ todo' = todo \ {v}
    /\ UNCHANGED <<syntaxVars, bound, pc, initialized, value, ran, enabled,
                   primask, pending, stack>>

(* Mutant: the highest priority of the device is refused.                  *)
SetPriorityBelow(v) ==
    /\ Due(v)
    /\ v \in NVIC => v \in enabled
    /\ IF Declared(v) < 2^NVIC_PRIO_BITS
       THEN /\ priority' = [priority EXCEPT ![v] = PriorityByte(Declared(v))]
            /\ todo' = todo \ {v}
            /\ UNCHANGED pc
       ELSE pc' = "panicked" /\ UNCHANGED <<priority, todo>>
    /\ UNCHANGED <<syntaxVars, bound, initialized, value, ran, enabled, primask,
                   pending, stack>>

SetPriority(v) ==
    /\ Due(v)
    /\ v \in NVIC => v \in enabled
    /\ IF Declared(v) <= 2^NVIC_PRIO_BITS
       THEN /\ priority' = [priority EXCEPT ![v] = PriorityByte(Declared(v))]
            /\ todo' = todo \ {v}
            /\ UNCHANGED pc
       ELSE pc' = "panicked" /\ UNCHANGED <<priority, todo>>
    /\ UNCHANGED <<syntaxVars, bound, initialized, value, ran, enabled, primask,
                   pending, stack>>

(* Interrupts are enabled and idle, or the loop in its place, begins.      *)
CallIdle ==
    /\ At("post_init") /\ todo = {}
    /\ primask' = FALSE
    /\ pc' = "idle"
    /\ UNCHANGED <<syntaxVars, bound, todo, initialized, value, ran, priority,
                   enabled, pending, stack>>

Main ==
    \/ Disable
    \/ PreInit
    \/ CallInit
    \/ Statement
    \/ Assign
    \/ FinishInit
    \/ \E v \in todo : EnableInterrupt(v) \/ SetPriority(v)
    \/ CallIdle

(* Interrupts come from peripherals at any time, exceptions and SysTick    *)
(* only from what user code does.                                          *)
Pend(v) ==
    /\ v \in Vectors \ pending
    /\ pc \notin {"compile", "rejected"}
    /\ v \in NVIC \/ pc \notin {"main", "pre_init"}
    /\ pending' = pending \cup {v}
    /\ UNCHANGED <<syntaxVars, bound, mainVars, priority, enabled, primask, stack>>

(* The most urgent of the smallest bytes runs; equal ones do not preempt.  *)
Take(v) ==
    /\ v \in pending
    /\ ~primask
    /\ v \in NVIC => v \in enabled
    /\ \A w \in ToSet(stack) : priority[v] < priority[w]
    /\ stack' = Append(stack, v)
    /\ pending' = pending \ {v}
    /\ UNCHANGED <<syntaxVars, bound, mainVars, priority, enabled, primask>>

Return ==
    /\ stack # <<>>
    /\ stack' = Front(stack)
    /\ UNCHANGED <<syntaxVars, bound, mainVars, priority, enabled, primask, pending>>

Next ==
    \/ Parse
    \/ Check
    \/ Main
    \/ Panic
    \/ \E v \in Vectors : Pend(v) \/ Take(v)
    \/ Return

Spec == Init /\ [][Next]_vars

(* Neither the compiler nor main stops; main has nothing to wait for, as   *)
(* no handler runs before it has come to idle.                             *)
FairSpec == Spec /\ WF_vars(Parse \/ Check \/ Main)

-----------------------------------------------------------------------------
(* Types; what the parser hands on is an application as module Analyze     *)
(* assumes it (AppType).                                                   *)
TypeOK ==
    /\ arm \in {"none"} \cup ToSet(Arms)
    /\ verdict \in {"attribute", "parsing", "ok", "error", "panic"}
    /\ args.priority \in 0..255 /\ args.capacity \in 0..255
    /\ (verdict = "ok" /\ Known) => Application \in Macro!AppType
    /\ pc \in {"compile", "rejected", "main", "pre_init", "init", "post_init",
               "idle", "panicked"}
    /\ todo \subseteq IF pc = "pre_init" THEN Cells ELSE Vectors
    /\ priority \in [Handlers -> 0..255]
    /\ enabled \subseteq NVIC
    /\ pending \cup ToSet(stack) \subseteq Vectors

(* get_ref and get_mut are undefined before set (export.rs:55): whatever   *)
(* context runs, at whatever moment it was let in, every late resource and *)
(* every queue it reads has been set, and free queues have their slots.    *)
NoUninitRead ==
    /\ pc = "init" => Reads("init") \subseteq initialized
    /\ pc = "idle" => Reads("idle") \subseteq initialized
    /\ \A v \in ToSet(stack) : Needs(v) \subseteq initialized

(* post_init configures handlers one by one and panics at the first        *)
(* priority the device has not (codegen.rs:383), after enabling some: no   *)
(* handler runs before all are configured, and none after a panic.         *)
NoHandlerBeforeIdle == stack # <<>> => pc = "idle"

(* Handlers preempt by the priorities they were declared with, never by    *)
(* the byte a handler has at reset, the most urgent one.  Priority 0 is    *)
(* excepted, see KernelZeroPriority.                                       *)
PreemptsByPriority ==
    (\A v \in ToSet(stack) : Declared(v) > 0) =>
       \A i, j \in DOMAIN stack :
          i < j => Declared(stack[i]) < Declared(stack[j])

(* init runs every statement of its body exactly once, those that stay     *)
(* statements in the order they are written in, whatever the assignments   *)
(* between them (syntax.rs:1130).                                          *)
Body ==
    LET i == CHOOSE i \in Positions("init") : TRUE IN Stmts(source.items[i].body)

Places == {s.at : s \in {t \in ToSet(Body) : t.stmt # "assign"}}

StatementsOnce ==
    pc \in {"post_init", "idle"} =>
       /\ IsInjective(ran)
       /\ ToSet(ran) = {s.at : s \in ToSet(Body)}
       /\ \A m, n \in DOMAIN ran :
             (m < n /\ {ran[m], ran[n]} \subseteq Places) => ran[m] < ran[n]

(* A late resource assigned more than once at the end of init keeps the    *)
(* value of the first of these assignments: they run backwards.            *)
FirstAssignmentWins ==
    pc \in {"post_init", "idle"} =>
       \A r \in Late :
          \E i \in DOMAIN Body :
             /\ Body[i].stmt = "assign" /\ Body[i].name = r
             /\ \A j \in i..Len(Body) : Body[j].stmt \in {"assign", "place"}
             /\ \A j \in 1..i - 1 :
                   (Body[j].stmt = "assign" /\ Body[j].name = r) =>
                      \E k \in j..i : Body[k].stmt \notin {"assign", "place"}
             /\ value[r] = Body[i].at

(* An application the check accepted comes to idle, unless init panics or  *)
(* a priority is beyond what the device has (codegen.rs:383).              *)
ReachesIdle ==
    pc = "main" ~>
       \/ pc = "idle"
       \/ /\ pc = "panicked"
          /\ \/ todo = {}
             \/ \E v \in todo : Declared(v) > 2^NVIC_PRIO_BITS
=============================================================================
