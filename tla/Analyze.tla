------------------------------ MODULE Analyze ------------------------------
(***************************************************************************)
(* What #[app] does with a parsed application: check::app, the passes of   *)
(* analyze::app and the queue sizes codegen writes.  The declarations are  *)
(* HashMaps and HashSets, so a pass handles its items in an order that is  *)
(* different in each compilation: here a pass takes any item left to do.   *)
(***************************************************************************)
EXTENDS Integers, FiniteSets

CONSTANTS Handlers,       \* names of #[interrupt] and #[exception] functions
          Exceptions,     \* those of them that are exceptions
          Tasks,          \* names of #[task] functions
          Resources,      \* names of `static` resources
          Interrupts,     \* names the device has for interrupts
          Apps,           \* the applications App::parse returns
          OverflowChecks  \* u8 additions panic (debug) or wrap (release)

Contexts == {"init", "idle"} \cup Handlers \cup Tasks

(* syntax::App.  `uses`, `spawn` and `schedule` are the arguments of each  *)
(* context, empty for one that is not declared; capacity 0 stands for None *)
AppType ==
    [handlers : SUBSET Handlers, tasks : SUBSET Tasks,
     resources : SUBSET Resources, mutable : SUBSET Resources,
     late : SUBSET Resources, assigned : SUBSET Resources,
     free : SUBSET Interrupts,
     priority : [Handlers \cup Tasks -> 0..255], capacity : [Tasks -> 0..255],
     uses : [Contexts -> SUBSET Resources],
     spawn : [Contexts -> SUBSET Tasks], schedule : [Contexts -> SUBSET Tasks]]

ASSUME NamesAssumption ==
    /\ {"init", "idle"} \cap (Handlers \cup Tasks) = {}
    /\ Handlers \cap Tasks = {}
    /\ Exceptions \subseteq Handlers
    /\ Handlers \ Exceptions \subseteq Interrupts
    /\ Exceptions \cap Interrupts = {}
    /\ IsFiniteSet(Tasks) /\ IsFiniteSet(Interrupts)

ASSUME AppsAssumption ==
    /\ OverflowChecks \in BOOLEAN
    /\ Apps \subseteq AppType
    /\ \A a \in Apps : \A c \in (Handlers \ a.handlers) \cup (Tasks \ a.tasks) :
          a.uses[c] = {} /\ a.spawn[c] = {} /\ a.schedule[c] = {}

VARIABLES app,      \* the application
          phase,    \* the pass that runs, or how the macro ended
          todo,     \* items the pass has not handled yet
          unused,   \* the free interrupts its iterator has not given out
          analysis  \* the Analysis under construction

vars == <<app, phase, todo, unused, analysis>>

Outcomes == {"done", "rejected", "panic", "bug"}

-----------------------------------------------------------------------------
(* App::resource_accesses: init is not one of the accesses.                *)
Priority(c) == IF c = "idle" THEN 0 ELSE app.priority[c]

Accesses ==
    {x \in (Contexts \ {"init"}) \X Resources : x[2] \in app.uses[x[1]]}

(* App::spawn_calls and App::schedule_calls.                               *)
SpawnCalls == {x \in Contexts \X Tasks : x[2] \in app.spawn[x[1]]}

ScheduleCalls == {x \in Contexts \X Tasks : x[2] \in app.schedule[x[1]]}

(* Ownership.  A resource that no access mentions has none.                *)
Nobody == [kind |-> "none", ceiling |-> 0]
Owned(p) == [kind |-> "owned", ceiling |-> p]
Shared(p) == [kind |-> "shared", ceiling |-> p]

(* Ownership::needs_lock                                                   *)
NeedsLock(ownership, p) == ownership.kind = "shared" /\ p < ownership.ceiling

Ownership == [kind : {"none", "owned", "shared"}, ceiling : 0..255]

Dispatcher == [interrupt : Interrupts, capacity : 0..255,
               tasks : SUBSET Tasks]

(* The items of each pass.                                                 *)
Work(pass) ==
    CASE pass = "ownerships" -> Accesses
      [] pass \in {"spawn_counts", "spawn"} -> SpawnCalls
      [] pass \in {"schedule_counts", "timer_queue", "schedule"} -> ScheduleCalls
      [] pass = "dispatchers" -> {<<t>> : t \in app.tasks}
      [] OTHER -> {}

TypeOK ==
    /\ app \in AppType
    /\ phase \in {"check", "ownerships", "spawn_counts", "schedule_counts",
                  "override", "timer_queue", "dispatchers", "init_send",
                  "spawn", "schedule"} \cup Outcomes
    /\ todo \subseteq Work(phase)
    /\ unused \subseteq app.free
    /\ analysis.ownerships \in [Resources -> Ownership]
    /\ analysis.needs_sync \subseteq Resources
    /\ analysis.capacities \in [Tasks -> 0..255]
    /\ analysis.timer_queue \in [capacity : 0..255, priority : 0..255,
                                 ceiling : 0..255, tasks : SUBSET Tasks]
    /\ DOMAIN analysis.dispatchers \subseteq 0..255
    /\ \A l \in DOMAIN analysis.dispatchers :
          analysis.dispatchers[l] \in Dispatcher
    /\ analysis.needs_send \subseteq Tasks
    /\ analysis.free_queues \in [Tasks -> 0..255]
    /\ DOMAIN analysis.ready_queues \subseteq DOMAIN analysis.dispatchers
    /\ \A l \in DOMAIN analysis.ready_queues :
          analysis.ready_queues[l] \in 0..255

Empty == [x \in {} |-> 0]

Init ==
    /\ app \in Apps
    /\ phase = "check"
    /\ todo = {}
    /\ unused = app.free
    /\ analysis = [ownerships |-> [r \in Resources |-> Nobody],
                   needs_sync |-> {},
                   capacities |-> [t \in Tasks |-> 0],
                   timer_queue |-> [capacity |-> 0, priority |-> 1,
                                    ceiling |-> 0, tasks |-> {}],
                   dispatchers |-> Empty,
                   needs_send |-> {},
                   free_queues |-> [t \in Tasks |-> 0],
                   ready_queues |-> Empty]

Goto(pass) == phase' = pass /\ todo' = Work(pass)

(* The for loop of a pass is over.                                         *)
Following ==
    [ownerships |-> "spawn_counts", spawn_counts |-> "schedule_counts",
     schedule_counts |-> "override", timer_queue |-> "dispatchers",
     dispatchers |-> "init_send", spawn |-> "schedule"]

EndOfLoop ==
    /\ phase \in DOMAIN Following
    /\ todo = {}
    /\ Goto(Following[phase])
    /\ UNCHANGED <<app, unused, analysis>>

(* One round of a for loop.                                                *)
Round(pass, item) ==
    /\ phase = pass
    /\ item \in todo
    /\ UNCHANGED app

Ended(outcome) == Goto(outcome) /\ UNCHANGED <<app, unused, analysis>>

(* `a += b` on u8, which either panics or wraps.                           *)
Overflows(a, b) == OverflowChecks /\ a + b > 255

Sum8(a, b) == (a + b) % 256

Raised(a, b) == IF a >= b THEN a ELSE b

-----------------------------------------------------------------------------
(* Mutant: handlers may be bound to interrupts the dispatchers get.        *)
ValidBound ==
    /\ \A c \in Contexts : app.uses[c] \subseteq app.resources
    /\ app.uses["init"] \cap app.late = {}
    /\ app.late \subseteq app.assigned
    /\ \A c \in Contexts : app.spawn[c] \cup app.schedule[c] \subseteq app.tasks
    /\ Cardinality({app.priority[t] : t \in app.tasks}) <= Cardinality(app.free)

(* Mutant: one free interrupt is enough for any number of levels.          *)
ValidCount ==
    /\ \A c \in Contexts : app.uses[c] \subseteq app.resources
    /\ app.uses["init"] \cap app.late = {}
    /\ app.late \subseteq app.assigned
    /\ \A c \in Contexts : app.spawn[c] \cup app.schedule[c] \subseteq app.tasks
    /\ app.tasks # {} => app.free # {}
    /\ (app.handlers \ Exceptions) \cap app.free = {}

(* check::app, one conjunct per check.  A late resource that no context    *)
(* uses must be assigned as well.                                          *)
Valid ==
    /\ \A c \in Contexts : app.uses[c] \subseteq app.resources
    /\ app.uses["init"] \cap app.late = {}
    /\ app.late \subseteq app.assigned
    /\ \A c \in Contexts : app.spawn[c] \cup app.schedule[c] \subseteq app.tasks
    /\ Cardinality({app.priority[t] : t \in app.tasks}) <= Cardinality(app.free)
    /\ (app.handlers \ Exceptions) \cap app.free = {}

Check ==
    /\ phase = "check"
    /\ Goto(IF Valid THEN "ownerships" ELSE "rejected")
    /\ UNCHANGED <<app, unused, analysis>>

(* Mutant: the ceiling is the priority of the last access.                 *)
AccessLast(c, r) ==
    LET old == analysis.ownerships[r]
        p   == Priority(c)
        mixed == old.kind # "none" /\ old.ceiling # p
    IN /\ Round("ownerships", <<c, r>>)
       /\ todo' = todo \ {<<c, r>>}
       /\ analysis' =
            [analysis EXCEPT
               !.ownerships[r] = CASE old.kind = "none" -> Owned(p)
                                   [] mixed -> Shared(p)
                                   [] OTHER -> old,
               !.needs_sync = IF mixed /\ r \notin app.mutable
                              THEN @ \cup {r} ELSE @]
       /\ UNCHANGED <<phase, unused>>

(* Mutant: Sync is asked for as soon as a second context has access.       *)
AccessSync(c, r) ==
    LET old == analysis.ownerships[r]
        p   == Priority(c)
    IN /\ Round("ownerships", <<c, r>>)
       /\ todo' = todo \ {<<c, r>>}
       /\ analysis' =
            [analysis EXCEPT
               !.ownerships[r] = IF old.kind = "none" THEN Owned(p)
                                 ELSE Shared(Raised(old.ceiling, p)),
               !.needs_sync = IF old.kind # "none" /\ r \notin app.mutable
                              THEN @ \cup {r} ELSE @]
       /\ UNCHANGED <<phase, unused>>

(* First pass: who owns a resource, or at which ceiling it is shared, and  *)
(* which immutable resources have to be Sync.                              *)
Access(c, r) ==
    LET old == analysis.ownerships[r]
        p   == Priority(c)
        mixed == old.kind # "none" /\ old.ceiling # p
    IN /\ Round("ownerships", <<c, r>>)
       /\ todo' = todo \ {<<c, r>>}
       /\ analysis' =
            [analysis EXCEPT
               !.ownerships[r] = CASE old.kind = "none" -> Owned(p)
                                   [] mixed -> Shared(Raised(old.ceiling, p))
                                   [] OTHER -> old,
               !.needs_sync = IF mixed /\ r \notin app.mutable
                              THEN @ \cup {r} ELSE @]
       /\ UNCHANGED <<phase, unused>>

(* One message per caller, for spawn and then for schedule.                *)
Count(pass, c, t) ==
    /\ Round(pass, <<c, t>>)
    /\ IF t \notin app.tasks THEN Ended("bug")
       ELSE IF Overflows(analysis.capacities[t], 1) THEN Ended("panic")
       ELSE /\ todo' = todo \ {<<c, t>>}
            /\ analysis' = [analysis EXCEPT !.capacities[t] = Sum8(@, 1)]
            /\ UNCHANGED <<phase, unused>>

(* `capacity = n` replaces what was inferred.                              *)
Override ==
    /\ phase = "override"
    /\ analysis' = [analysis EXCEPT !.capacities =
                      [t \in Tasks |-> IF app.capacity[t] # 0
                                       THEN app.capacity[t] ELSE @[t]]]
    /\ Goto("timer_queue")
    /\ UNCHANGED <<app, unused>>

(* Mutant: room for one message per schedule call.                         *)
TimerQueueOne(c, t) ==
    /\ Round("timer_queue", <<c, t>>)
    /\ todo' = todo \ {<<c, t>>}
    /\ analysis' = [analysis EXCEPT
                      !.timer_queue.capacity = Sum8(@, 1),
                      !.timer_queue.priority = Raised(@, app.priority[t]),
                      !.timer_queue.tasks = @ \cup {t}]
    /\ UNCHANGED <<phase, unused>>

(* Every schedule call makes room for all the messages of its task.        *)
TimerQueue(c, t) ==
    LET tq == analysis.timer_queue IN
    /\ Round("timer_queue", <<c, t>>)
    /\ IF Overflows(tq.capacity, analysis.capacities[t]) THEN Ended("panic")
       ELSE /\ todo' = todo \ {<<c, t>>}
            /\ analysis' =
                 [analysis EXCEPT
                    !.timer_queue.capacity = Sum8(@, analysis.capacities[t]),
                    !.timer_queue.priority = Raised(@, app.priority[t]),
                    !.timer_queue.tasks = @ \cup {t}]
            /\ UNCHANGED <<phase, unused>>

(* Tasks go to the dispatcher of their priority, lowest priority first;    *)
(* the first task of a priority takes the next free interrupt.             *)
Dispatch(t) ==
    LET level == app.priority[t]
        known == level \in DOMAIN analysis.dispatchers
        size  == analysis.capacities[t]
    IN /\ Round("dispatchers", <<t>>)
       /\ \A item \in todo : level <= app.priority[item[1]]
       /\ IF ~known /\ unused = {} THEN Ended("bug")
          ELSE \E old \in IF known THEN {analysis.dispatchers[level]}
                          ELSE {[interrupt |-> i, capacity |-> 0, tasks |-> {}] :
                                  i \in unused} :
                 IF Overflows(old.capacity, size) THEN Ended("panic")
                 ELSE /\ todo' = todo \ {<<t>>}
                      /\ unused' = unused \ {old.interrupt}
                      /\ analysis' = [analysis EXCEPT !.dispatchers =
                           [l \in DOMAIN @ \cup {level} |->
                              IF l # level THEN @[l]
                              ELSE [old EXCEPT !.capacity = Sum8(@, size),
                                               !.tasks = @ \cup {t}]]]
                      /\ UNCHANGED phase

(* Mutant: a ready queue for the level of each name, declared or not.      *)
InitSendNames ==
    /\ phase = "init_send"
    /\ analysis' = [analysis EXCEPT
                      !.ready_queues = [l \in {app.priority[t] : t \in Tasks} |-> 0]]
    /\ Goto("spawn")
    /\ UNCHANGED <<app, unused>>

(* Mutant: the ceiling of the timer queue starts at 0 as well.             *)
InitSendZero ==
    /\ phase = "init_send"
    /\ analysis' =
         [analysis EXCEPT
            !.needs_send = @ \cup app.spawn["init"] \cup app.schedule["init"],
            !.ready_queues = [l \in DOMAIN analysis.dispatchers |-> 0]]
    /\ Goto("spawn")
    /\ UNCHANGED <<app, unused>>

(* Messages from init need Send; the ceilings of the queues start at 0 and *)
(* that of the timer queue at its own priority.                            *)
InitSend ==
    /\ phase = "init_send"
    /\ analysis' =
         [analysis EXCEPT
            !.needs_send = @ \cup app.spawn["init"] \cup app.schedule["init"],
            !.ready_queues = [l \in DOMAIN analysis.dispatchers |-> 0],
            !.timer_queue.ceiling = analysis.timer_queue.priority]
    /\ Goto("spawn")
    /\ UNCHANGED <<app, unused>>

(* Mutant: the ready queue gets the priority of the last spawner.          *)
SpawnLast(c, t) ==
    /\ Round("spawn", <<c, t>>)
    /\ todo' = todo \ {<<c, t>>}
    /\ analysis' =
         IF c = "init" THEN analysis
         ELSE [analysis EXCEPT !.ready_queues[app.priority[t]] = Priority(c)]
    /\ UNCHANGED <<phase, unused>>

(* Mutant: Send is asked for only where the receiver can preempt.          *)
SpawnUp(c, t) ==
    /\ Round("spawn", <<c, t>>)
    /\ todo' = todo \ {<<c, t>>}
    /\ analysis' =
         IF c # "init" /\ app.priority[t] > Priority(c)
         THEN [analysis EXCEPT !.needs_send = @ \cup {t}] ELSE analysis
    /\ UNCHANGED <<phase, unused>>

(* Spawn calls raise the ceilings of the free queue of the task and of the *)
(* ready queue of its level; init is left out.  The lookups of these       *)
(* passes succeed: Count has seen every call, and Dispatch every task.     *)
Spawn(c, t) ==
    LET level == app.priority[t] IN
    /\ Round("spawn", <<c, t>>)
    /\ todo' = todo \ {<<c, t>>}
    /\ analysis' =
         IF c = "init" THEN analysis
         ELSE [analysis EXCEPT
                 !.free_queues[t] = Raised(@, Priority(c)),
                 !.ready_queues[level] = Raised(@, Priority(c)),
                 !.needs_send = IF level # Priority(c) THEN @ \cup {t} ELSE @]
    /\ UNCHANGED <<phase, unused>>

(* Mutant: schedule leaves the ceiling of the free queue alone.            *)
ScheduleTimer(c, t) ==
    /\ Round("schedule", <<c, t>>)
    /\ todo' = todo \ {<<c, t>>}
    /\ analysis' =
         IF c = "init" THEN analysis
         ELSE [analysis EXCEPT !.timer_queue.ceiling = Raised(@, Priority(c))]
    /\ UNCHANGED <<phase, unused>>

(* Schedule calls raise those of the free queue and of the timer queue.    *)
Schedule(c, t) ==
    /\ Round("schedule", <<c, t>>)
    /\ todo' = todo \ {<<c, t>>}
    /\ analysis' =
         IF c = "init" THEN analysis
         ELSE [analysis EXCEPT
                 !.free_queues[t] = Raised(@, Priority(c)),
                 !.timer_queue.ceiling = Raised(@, Priority(c))]
    /\ UNCHANGED <<phase, unused>>

(* codegen rounds the sizes of free and ready queues up to powers of two,  *)
(* which has to succeed in a u8.                                           *)
Codegen ==
    /\ phase = "schedule" /\ todo = {}
    /\ Ended(IF \/ \E t \in app.tasks : analysis.capacities[t] > 128
                \/ \E l \in DOMAIN analysis.dispatchers :
                      analysis.dispatchers[l].capacity > 128
             THEN "panic" ELSE "done")

(* The macro has returned tokens or an error, or it has panicked.          *)
Expanded == phase \in Outcomes /\ UNCHANGED vars

Next ==
    \/ Check \/ EndOfLoop \/ Override \/ InitSend \/ Codegen \/ Expanded
    \/ \E c \in Contexts, r \in Resources : Access(c, r)
    \/ \E c \in Contexts, t \in Tasks :
          \/ Count("spawn_counts", c, t) \/ Count("schedule_counts", c, t)
          \/ TimerQueue(c, t) \/ Spawn(c, t) \/ Schedule(c, t)
    \/ \E t \in Tasks : Dispatch(t)

Spec == Init /\ [][Next]_vars

-----------------------------------------------------------------------------
Expands == phase = "done"

Users(r) == {c \in Contexts \ {"init"} : r \in app.uses[c]}

(* The locks the generated code takes exclude every user of a mutable      *)
(* resource that could preempt, whatever the order of the accesses, and    *)
(* lock out no more than the users' priorities call for (analyze::app,     *)
(* "Ceiling analysis of R/W resource").  Module Kernel assumes this of its *)
(* Ceiling.                                                                *)
CeilingsExact ==
    Expands => \A r \in app.mutable : \A c \in Users(r) :
        LET own == analysis.ownerships[r]
        IN /\ \A d \in Users(r) : Priority(c) < Priority(d) =>
                 NeedsLock(own, Priority(c)) /\ own.ceiling >= Priority(d)
           /\ NeedsLock(own, Priority(c)) =>
                 \E d \in Users(r) : Priority(d) = own.ceiling

(* An immutable resource is asserted Sync exactly when contexts of         *)
(* different priorities share it (analyze::app, "Sync analysis").          *)
SyncExact ==
    Expands => \A r \in Resources :
        r \in analysis.needs_sync <=>
            /\ r \notin app.mutable
            /\ \E c, d \in Users(r) : Priority(c) # Priority(d)

(* p and q are priorities of contexts that work on one end of a queue: the *)
(* claim of the lower one has to mask the higher one.                      *)
Excluded(ends, ceiling) ==
    \A p, q \in ends : p < q => ceiling >= q

Callers(calls, t) == {Priority(c) : c \in {d \in Contexts \ {"init"} : <<d, t>> \in calls}}

(* Contexts that take a slot of a task, by spawn or by schedule, cannot    *)
(* preempt each other inside the dequeue of its free queue.                *)
FreeQueuesExclude ==
    Expands => \A t \in app.tasks :
        Excluded(Callers(SpawnCalls \cup ScheduleCalls, t), analysis.free_queues[t])

(* Spawners of the tasks of one level cannot preempt each other inside the *)
(* enqueue of its ready queue.                                             *)
Spawners(level) ==
    UNION {Callers(SpawnCalls, t) : t \in analysis.dispatchers[level].tasks}

SpawnersExclude ==
    Expands => \A l \in DOMAIN analysis.dispatchers :
        Excluded(Spawners(l), analysis.ready_queues[l])

(* SysTick and the contexts that schedule cannot preempt each other inside *)
(* the timer queue, and SysTick runs no lower than the tasks it makes      *)
(* ready.                                                                  *)
TimerQueueExcludes ==
    Expands => \A t \in app.tasks :
        LET tq == analysis.timer_queue
        IN (\E c \in Contexts : <<c, t>> \in ScheduleCalls) =>
              /\ t \in tq.tasks
              /\ tq.priority >= app.priority[t]
              /\ Excluded(Callers(ScheduleCalls, t) \cup {tq.priority}, tq.ceiling)

(* Every task has exactly one dispatcher, of its own priority, and no two  *)
(* dispatchers, nor a dispatcher and a handler, share an interrupt.        *)
DispatchersApart ==
    Expands =>
        LET d == analysis.dispatchers
        IN /\ \A t \in app.tasks : \A l \in DOMAIN d :
                 t \in d[l].tasks <=> l = app.priority[t]
           /\ {app.priority[t] : t \in app.tasks} = DOMAIN d
           /\ \A l, m \in DOMAIN d : d[l].interrupt = d[m].interrupt => l = m
           /\ \A l \in DOMAIN d : d[l].interrupt \notin app.handlers

(* The code enqueues without a check: every message that has a slot must   *)
(* fit in the ready queue of its level and in the timer queue.  A message  *)
(* is its task and the slot its input lies in.                             *)
Messages(tasks) == UNION {{t} \X (1..analysis.capacities[t]) : t \in tasks}

Fits(tasks, capacity) == Cardinality(Messages(tasks)) <= capacity

QueuesFit ==
    Expands =>
        /\ \A l \in DOMAIN analysis.dispatchers :
              Fits(analysis.dispatchers[l].tasks, analysis.dispatchers[l].capacity)
        /\ Fits(analysis.timer_queue.tasks, analysis.timer_queue.capacity)

(* Send is asserted of the inputs of every task that init sends to or that *)
(* is spawned from another priority, whatever the order of the calls, and  *)
(* of no task all of whose senders, by spawn and by schedule, have its own *)
(* priority (analyze::app; tests/cpass/no-send.rs).  What schedule asks    *)
(* for is the other half, SendCoversSchedule.                              *)
FromInit(t) == t \in app.spawn["init"] \cup app.schedule["init"]

Crosses(calls, t) == \E p \in Callers(calls, t) : p # app.priority[t]

SendAsserted ==
    Expands => \A t \in Tasks :
        /\ FromInit(t) \/ Crosses(SpawnCalls, t) => t \in analysis.needs_send
        /\ t \in analysis.needs_send =>
              FromInit(t) \/ Crosses(SpawnCalls \cup ScheduleCalls, t)

(* analyze.rs:167: "Send is required when sending messages from a task     *)
(* whose priority doesn't match the priority of the receiving task"; a     *)
(* schedule call sends a message too.                                      *)
SendCoversSchedule ==
    Expands => \A t \in app.tasks :
        Crosses(ScheduleCalls, t) => t \in analysis.needs_send

(* What check::app lets through never reaches an expect("BUG: ..").        *)
NoBug == phase # "bug"

(* A capacity in the documented range 1..=255 compiles (macros/src/lib.rs, *)
(* the `capacity` argument).                                               *)
CapacitiesAccepted == phase # "panic"
=============================================================================
