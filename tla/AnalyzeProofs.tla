--------------------------- MODULE AnalyzeProofs ---------------------------
(***************************************************************************)
(* Theorems about the check and the analysis, for every application and    *)
(* every order in which a pass takes its items.                            *)
(***************************************************************************)
EXTENDS Analyze, FiniteSetTheorems, TLAPS

-----------------------------------------------------------------------------
(* What each pass has handled so far.                                      *)

Failed == {"rejected", "panic", "bug"}

Sending == {"spawn", "schedule", "done"}

Handled(pass, later) ==
    {x \in Work(pass) : phase \in later \/ (phase = pass /\ x \notin todo)}

Timing == {"dispatchers", "init_send"} \cup Sending
Looking == {"spawn_counts", "schedule_counts", "override", "timer_queue"} \cup Timing

Looked == Handled("ownerships", Looking)
Timed == Handled("timer_queue", Timing)
Placed == {t \in app.tasks : <<t>> \in Handled("dispatchers", {"init_send"} \cup Sending)}
Spawned == Handled("spawn", {"schedule", "done"})
Scheduled == Handled("schedule", {"done"})
InitSent == phase \in Sending

progress == <<Looked, Timed, Placed, Spawned, Scheduled, InitSent>>

TimerQueueType == [capacity : 0..255, priority : 0..255, ceiling : 0..255,
                   tasks : SUBSET Tasks]

(* The fields of Analysis.                                                 *)
Shape ==
    /\ analysis = [ownerships |-> analysis.ownerships,
                   needs_sync |-> analysis.needs_sync,
                   capacities |-> analysis.capacities,
                   timer_queue |-> analysis.timer_queue,
                   dispatchers |-> analysis.dispatchers,
                   needs_send |-> analysis.needs_send,
                   free_queues |-> analysis.free_queues,
                   ready_queues |-> analysis.ready_queues]
    /\ analysis.ready_queues =
          [l \in DOMAIN analysis.ready_queues |-> analysis.ready_queues[l]]

-----------------------------------------------------------------------------
(* The inductive invariant.                                                *)

(* The contexts other than init whose access to r has been looked at.      *)
Seen(r) == {c \in Contexts \ {"init"} : <<c, r>> \in Looked}

(* The ceiling is the highest priority among them, and a resource is       *)
(* shared if there are two.                                                *)
OwnershipOK(r) ==
    LET own == analysis.ownerships[r] IN
    /\ own.kind = "none" <=> Seen(r) = {}
    /\ own.kind = "owned" => \A c \in Seen(r) : Priority(c) = own.ceiling
    /\ own.kind = "shared" => \E c \in Seen(r) : Priority(c) # own.ceiling
    /\ own.kind # "none" =>
          /\ \A c \in Seen(r) : Priority(c) <= own.ceiling
          /\ \E c \in Seen(r) : Priority(c) = own.ceiling
    /\ r \in analysis.needs_sync <=> r \notin app.mutable /\ own.kind = "shared"

OwnershipsOK == \A r \in Resources : OwnershipOK(r)

TimerOK ==
    LET tq == analysis.timer_queue IN
    /\ \A c \in Contexts, t \in Tasks : <<c, t>> \in Timed =>
          t \in tq.tasks /\ app.priority[t] <= tq.priority
    /\ InitSent => tq.priority <= tq.ceiling
    /\ \A c \in Contexts \ {"init"}, t \in Tasks : <<c, t>> \in Scheduled =>
          Priority(c) <= tq.ceiling

FreeOK ==
    \A c \in Contexts \ {"init"}, t \in Tasks : <<c, t>> \in Spawned \cup Scheduled =>
        Priority(c) <= analysis.free_queues[t]

ReadyOK ==
    /\ InitSent => DOMAIN analysis.ready_queues = DOMAIN analysis.dispatchers
    /\ \A c \in Contexts \ {"init"}, t \in Tasks :
          <<c, t>> \in Spawned /\ app.priority[t] \in DOMAIN analysis.dispatchers =>
              Priority(c) <= analysis.ready_queues[app.priority[t]]

DispatchersOK ==
    LET d == analysis.dispatchers IN
    /\ DOMAIN d = {app.priority[t] : t \in Placed}
    /\ \A l \in DOMAIN d :
          /\ d[l].tasks = {t \in Placed : app.priority[t] = l}
          /\ d[l].interrupt \in app.free \ unused
    /\ \A l, m \in DOMAIN d : d[l].interrupt = d[m].interrupt => l = m

(* As many interrupts have been given out as there are dispatchers.        *)
UnusedOK ==
    Cardinality(unused) + Cardinality(DOMAIN analysis.dispatchers)
        = Cardinality(app.free)

SendOK ==
    \A t \in Tasks : t \in analysis.needs_send <=>
        \/ InitSent /\ t \in app.spawn["init"] \cup app.schedule["init"]
        \/ \E c \in Contexts \ {"init"} :
              <<c, t>> \in Spawned /\ Priority(c) # app.priority[t]

IInv ==
    /\ TypeOK
    /\ Shape
    /\ phase # "bug"
    /\ phase \notin Failed =>
          /\ phase # "check" => Valid
          /\ OwnershipsOK
          /\ TimerOK
          /\ FreeOK
          /\ ReadyOK
          /\ DispatchersOK
          /\ UnusedOK
          /\ SendOK

-----------------------------------------------------------------------------
(* Typing.                                                                 *)

LEMMA AppTyped ==
    ASSUME app \in AppType
    PROVE  /\ \A c \in Contexts \ {"init"} : Priority(c) \in 0..255
           /\ \A t \in Tasks : app.priority[t] \in 0..255
           /\ \A t \in Tasks : app.capacity[t] \in 0..255
           /\ \A c \in Contexts : app.uses[c] \subseteq Resources
           /\ \A c \in Contexts : app.spawn[c] \subseteq Tasks
           /\ \A c \in Contexts : app.schedule[c] \subseteq Tasks
           /\ app.tasks \subseteq Tasks /\ app.mutable \subseteq Resources
           /\ app.free \subseteq Interrupts /\ app.handlers \subseteq Handlers
BY DEF AppType, Priority, Contexts

LEMMA Bytes ==
    ASSUME NEW a \in 0..255, NEW b \in 0..255
    PROVE  Sum8(a, b) \in 0..255 /\ Raised(a, b) \in 0..255
                /\ a <= Raised(a, b) /\ b <= Raised(a, b)
BY DEF Sum8, Raised

LEMMA Transitive ==
    ASSUME NEW a \in 0..255, NEW b \in 0..255, NEW c \in 0..255, a <= b, b <= c
    PROVE  a <= c
OBVIOUS

LEMMA BelowTransitive ==
    ASSUME NEW a \in 0..255, NEW b \in 0..255, NEW c \in 0..255, a < b, b <= c
    PROVE  a < c
OBVIOUS

-----------------------------------------------------------------------------
(* What a step changes: the progress of its own pass and the fields it     *)
(* assigns.                                                                *)

Unsent == <<analysis.needs_send, analysis.free_queues, analysis.ready_queues>>
Unplaced == <<analysis.dispatchers, unused>>
Owning == <<analysis.ownerships, analysis.needs_sync>>

LEMMA AccessEffect ==
    ASSUME TypeOK, Shape, NEW c \in Contexts, NEW r \in Resources, Access(c, r)
    PROVE  /\ c # "init" /\ Looked' = Looked \cup {<<c, r>>}
           /\ UNCHANGED <<app, Timed, Placed, Spawned, Scheduled, InitSent>>
           /\ Shape'
           /\ UNCHANGED <<analysis.capacities, analysis.timer_queue, Unplaced, Unsent>>
<1> DEFINE old == analysis.ownerships[r]
           p == Priority(c)
           mixed == old.kind # "none" /\ old.ceiling # p
<1>1. analysis' = [analysis EXCEPT
               !.ownerships[r] = CASE old.kind = "none" -> Owned(p)
                                   [] mixed -> Shared(Raised(old.ceiling, p))
                                   [] OTHER -> old,
               !.needs_sync = IF mixed /\ r \notin app.mutable
                              THEN @ \cup {r} ELSE @]
  BY DEF Access
<1>2. /\ phase = "ownerships" /\ <<c, r>> \in todo /\ todo' = todo \ {<<c, r>>}
      /\ UNCHANGED <<app, phase, unused>>
  BY DEF Access, Round
<1>3. todo \subseteq Accesses
  BY <1>2 DEF TypeOK, Work
<1>4. c # "init" /\ Looked' = Looked \cup {<<c, r>>}
  BY <1>2, <1>3 DEF Looked, Handled, Looking, Timing, Sending, Work, Accesses
<1>5. UNCHANGED <<app, Timed, Placed, Spawned, Scheduled, InitSent>>
  BY <1>2 DEF Timed, Placed, Spawned, Scheduled, InitSent, Handled, Work, Timing, Sending,
              ScheduleCalls, SpawnCalls
<1>6. /\ Shape'
      /\ UNCHANGED <<analysis.capacities, analysis.timer_queue, Unplaced, Unsent>>
  BY <1>1, <1>2 DEF Shape, Unplaced, Unsent
<1> QED
  BY <1>4, <1>5, <1>6

(* A step of another pass: no access is looked at, and so on.              *)
LEMMA TimerQueueEffect ==
    ASSUME TypeOK, Shape, NEW c \in Contexts, NEW t \in Tasks, TimerQueue(c, t),
           phase' \notin Failed
    PROVE  /\ Timed' = Timed \cup {<<c, t>>}
           /\ UNCHANGED <<app, Looked, Placed, Spawned, Scheduled, InitSent>>
           /\ analysis'.timer_queue =
                [analysis.timer_queue EXCEPT
                   !.capacity = Sum8(@, analysis.capacities[t]),
                   !.priority = Raised(@, app.priority[t]),
                   !.tasks = @ \cup {t}]
           /\ Shape' /\ ~InitSent
           /\ UNCHANGED <<analysis.capacities, Owning, Unplaced, Unsent>>
<1>1. /\ phase = "timer_queue" /\ <<c, t>> \in todo /\ todo' = todo \ {<<c, t>>}
      /\ UNCHANGED <<app, phase, unused>>
      /\ analysis' = [analysis EXCEPT
                    !.timer_queue.capacity = Sum8(@, analysis.capacities[t]),
                    !.timer_queue.priority = Raised(@, app.priority[t]),
                    !.timer_queue.tasks = @ \cup {t}]
  BY DEF TimerQueue, Round, Ended, Goto, Failed
<1>2. todo \subseteq ScheduleCalls
  BY <1>1 DEF TypeOK, Work
<1>3. Timed' = Timed \cup {<<c, t>>}
  BY <1>1, <1>2 DEF Timed, Handled, Timing, Sending, Work, ScheduleCalls
<1>4. UNCHANGED <<app, Looked, Placed, Spawned, Scheduled, InitSent>> /\ ~InitSent
  BY <1>1 DEF Looked, Placed, Spawned, Scheduled, InitSent, Handled, Work, Looking,
              Timing, Sending, Accesses, ScheduleCalls, SpawnCalls
<1>5. /\ analysis'.timer_queue =
                [analysis.timer_queue EXCEPT
                   !.capacity = Sum8(@, analysis.capacities[t]),
                   !.priority = Raised(@, app.priority[t]),
                   !.tasks = @ \cup {t}]
      /\ Shape' /\ UNCHANGED <<analysis.capacities, Owning, Unplaced, Unsent>>
  BY <1>1 DEF Shape, Owning, Unplaced, Unsent
<1> QED
  BY <1>3, <1>4, <1>5

LEMMA CountEffect ==
    ASSUME TypeOK, Shape, NEW c \in Contexts, NEW t \in Tasks,
           NEW pass \in {"spawn_counts", "schedule_counts"}, Count(pass, c, t),
           phase' \notin Failed
    PROVE  /\ UNCHANGED <<app, progress>>
           /\ analysis'.capacities =
                [analysis.capacities EXCEPT ![t] = Sum8(@, 1)]
           /\ Shape' /\ ~InitSent
           /\ UNCHANGED <<analysis.timer_queue, Owning, Unplaced, Unsent>>
<1>1. /\ phase = pass /\ <<c, t>> \in todo /\ todo' = todo \ {<<c, t>>}
      /\ UNCHANGED <<app, phase, unused>>
      /\ analysis' = [analysis EXCEPT !.capacities[t] = Sum8(@, 1)]
  BY DEF Count, Round, Ended, Goto, Failed
<1>2. UNCHANGED <<app, progress>> /\ ~InitSent
  BY <1>1 DEF progress, Looked, Timed, Placed, Spawned, Scheduled, InitSent, Handled,
              Work, Looking, Timing, Sending, Accesses, ScheduleCalls, SpawnCalls
<1>3. /\ analysis'.capacities = [analysis.capacities EXCEPT ![t] = Sum8(@, 1)]
      /\ Shape' /\ UNCHANGED <<analysis.timer_queue, Owning, Unplaced, Unsent>>
  BY <1>1 DEF Shape, Owning, Unplaced, Unsent
<1> QED
  BY <1>2, <1>3

LEMMA DispatchEffect ==
    ASSUME TypeOK, Shape, NEW t \in Tasks, Dispatch(t), phase' \notin Failed
    PROVE  /\ Placed' = Placed \cup {t}
           /\ UNCHANGED <<app, Looked, Timed, Spawned, Scheduled, InitSent>>
           /\ Shape' /\ ~InitSent
           /\ UNCHANGED <<analysis.capacities, analysis.timer_queue, Owning, Unsent>>
<1>1. /\ phase = "dispatchers" /\ <<t>> \in todo /\ todo' = todo \ {<<t>>}
      /\ UNCHANGED <<app, phase>>
      /\ \E f : analysis' = [analysis EXCEPT !.dispatchers = f]
  BY DEF Dispatch, Round, Ended, Goto, Failed
<1>2. todo \subseteq {<<u>> : u \in app.tasks}
  BY <1>1 DEF TypeOK, Work
<1>3. Placed' = Placed \cup {t}
  BY <1>1, <1>2 DEF Placed, Handled, Sending, Work
<1>4. UNCHANGED <<app, Looked, Timed, Spawned, Scheduled, InitSent>> /\ ~InitSent
  BY <1>1 DEF Looked, Timed, Spawned, Scheduled, InitSent, Handled, Work, Looking,
              Timing, Sending, Accesses, ScheduleCalls, SpawnCalls
<1>5. Shape' /\ UNCHANGED <<analysis.capacities, analysis.timer_queue, Owning, Unsent>>
  BY <1>1 DEF Shape, Owning, Unsent
<1> QED
  BY <1>3, <1>4, <1>5

LEMMA SpawnEffect ==
    ASSUME TypeOK, Shape, NEW c \in Contexts, NEW t \in Tasks, Spawn(c, t)
    PROVE  /\ Spawned' = Spawned \cup {<<c, t>>}
           /\ UNCHANGED <<app, Looked, Timed, Placed, Scheduled, InitSent>>
           /\ c # "init" =>
                /\ analysis'.free_queues =
                      [analysis.free_queues EXCEPT ![t] = Raised(@, Priority(c))]
                /\ analysis'.ready_queues =
                      [analysis.ready_queues EXCEPT ![app.priority[t]] = Raised(@, Priority(c))]
                /\ analysis'.needs_send =
                      IF app.priority[t] # Priority(c)
                      THEN analysis.needs_send \cup {t} ELSE analysis.needs_send
           /\ c = "init" => UNCHANGED Unsent
           /\ Shape' /\ InitSent
           /\ UNCHANGED <<analysis.capacities, analysis.timer_queue, Owning, Unplaced>>
<1>1. /\ phase = "spawn" /\ <<c, t>> \in todo /\ todo' = todo \ {<<c, t>>}
      /\ UNCHANGED <<app, phase, unused>>
      /\ analysis' = IF c = "init" THEN analysis
         ELSE [analysis EXCEPT
                 !.free_queues[t] = Raised(@, Priority(c)),
                 !.ready_queues[app.priority[t]] = Raised(@, Priority(c)),
                 !.needs_send = IF app.priority[t] # Priority(c) THEN @ \cup {t} ELSE @]
  BY DEF Spawn, Round
<1>2. todo \subseteq SpawnCalls
  BY <1>1 DEF TypeOK, Work
<1>3. Spawned' = Spawned \cup {<<c, t>>}
  BY <1>1, <1>2 DEF Spawned, Handled, Work, SpawnCalls
<1>4. UNCHANGED <<app, Looked, Timed, Placed, Scheduled, InitSent>> /\ InitSent
  BY <1>1 DEF Looked, Timed, Placed, Scheduled, InitSent, Handled, Work, Looking,
              Timing, Sending, Accesses, ScheduleCalls
<1>5. CASE c = "init"
  BY <1>1, <1>3, <1>4, <1>5 DEF Shape, Owning, Unplaced, Unsent
<1>6. CASE c # "init"
  BY <1>1, <1>3, <1>4, <1>6 DEF Shape, Owning, Unplaced, Unsent
<1> QED
  BY <1>5, <1>6

LEMMA ScheduleEffect ==
    ASSUME TypeOK, Shape, NEW c \in Contexts, NEW t \in Tasks, Schedule(c, t)
    PROVE  /\ Scheduled' = Scheduled \cup {<<c, t>>}
           /\ UNCHANGED <<app, Looked, Timed, Placed, Spawned, InitSent>>
           /\ c # "init" =>
                /\ analysis'.free_queues =
                      [analysis.free_queues EXCEPT ![t] = Raised(@, Priority(c))]
                /\ analysis'.timer_queue =
                      [analysis.timer_queue EXCEPT !.ceiling = Raised(@, Priority(c))]
           /\ c = "init" => UNCHANGED <<analysis.free_queues, analysis.timer_queue>>
           /\ Shape' /\ InitSent
           /\ UNCHANGED <<analysis.capacities, analysis.needs_send,
                          analysis.ready_queues, Owning, Unplaced>>
<1>1. /\ phase = "schedule" /\ <<c, t>> \in todo /\ todo' = todo \ {<<c, t>>}
      /\ UNCHANGED <<app, phase, unused>>
      /\ analysis' = IF c = "init" THEN analysis
         ELSE [analysis EXCEPT
                 !.free_queues[t] = Raised(@, Priority(c)),
                 !.timer_queue.ceiling = Raised(@, Priority(c))]
  BY DEF Schedule, Round
<1>2. todo \subseteq ScheduleCalls
  BY <1>1 DEF TypeOK, Work
<1>3. Scheduled' = Scheduled \cup {<<c, t>>}
  BY <1>1, <1>2 DEF Scheduled, Handled, Work, ScheduleCalls
<1>4. UNCHANGED <<app, Looked, Timed, Placed, Spawned, InitSent>> /\ InitSent
  BY <1>1 DEF Looked, Timed, Placed, Spawned, InitSent, Handled, Work, Looking,
              Timing, Sending, Accesses, ScheduleCalls, SpawnCalls
<1>5. CASE c = "init"
  BY <1>1, <1>3, <1>4, <1>5 DEF Shape, Owning, Unplaced
<1>6. CASE c # "init"
  BY <1>1, <1>3, <1>4, <1>6 DEF Shape, Owning, Unplaced
<1> QED
  BY <1>5, <1>6

(* Between two passes nothing is handled.                                  *)
LEMMA EndOfLoopEffect ==
    ASSUME TypeOK, EndOfLoop
    PROVE  UNCHANGED <<app, analysis, unused, progress>>
<1>1. /\ phase \in {"ownerships", "spawn_counts", "schedule_counts", "timer_queue",
                    "dispatchers", "spawn"}
      /\ todo = {} /\ phase' = Following[phase] /\ todo' = Work(phase')
      /\ UNCHANGED <<app, unused, analysis>>
  BY DEF EndOfLoop, Following, Goto
<1>2. UNCHANGED <<Accesses, SpawnCalls, ScheduleCalls>>
  BY <1>1 DEF Accesses, SpawnCalls, ScheduleCalls
<1>3. CASE phase = "ownerships"
  BY <1>1, <1>2, <1>3 DEF Following, progress, Looked, Timed, Placed, Spawned, Scheduled,
     InitSent, Handled, Work, Looking, Timing, Sending
<1>4. CASE phase \in {"spawn_counts", "schedule_counts"}
  BY <1>1, <1>2, <1>4 DEF Following, progress, Looked, Timed, Placed, Spawned, Scheduled,
     InitSent, Handled, Work, Looking, Timing, Sending
<1>5. CASE phase = "timer_queue"
  BY <1>1, <1>2, <1>5 DEF Following, progress, Looked, Timed, Placed, Spawned, Scheduled,
     InitSent, Handled, Work, Looking, Timing, Sending
<1>6. CASE phase = "dispatchers"
  BY <1>1, <1>2, <1>6 DEF Following, progress, Looked, Timed, Placed, Spawned, Scheduled,
     InitSent, Handled, Work, Looking, Timing, Sending
<1>7. CASE phase = "spawn"
  BY <1>1, <1>2, <1>7 DEF Following, progress, Looked, Timed, Placed, Spawned, Scheduled,
     InitSent, Handled, Work, Looking, Timing, Sending
<1> QED
  BY <1>1, <1>3, <1>4, <1>5, <1>6, <1>7

LEMMA CheckEffect ==
    ASSUME Check
    PROVE  /\ UNCHANGED <<app, analysis, unused, progress>>
           /\ phase' = IF Valid THEN "ownerships" ELSE "rejected"
BY DEF Check, Goto, progress, Looked, Timed, Placed, Spawned, Scheduled, InitSent,
       Handled, Work, Looking, Timing, Sending, Accesses

LEMMA OverrideEffect ==
    ASSUME TypeOK, Shape, Override
    PROVE  /\ UNCHANGED <<app, progress>> /\ phase' = "timer_queue" /\ ~InitSent
           /\ analysis'.capacities = [t \in Tasks |-> IF app.capacity[t] # 0
                                        THEN app.capacity[t] ELSE analysis.capacities[t]]
           /\ Shape' /\ UNCHANGED <<analysis.timer_queue, Owning, Unplaced, Unsent>>
<1>1. /\ phase = "override" /\ phase' = "timer_queue" /\ todo' = Work("timer_queue")
      /\ UNCHANGED <<app, unused>>
      /\ analysis' = [analysis EXCEPT !.capacities =
                      [t \in Tasks |-> IF app.capacity[t] # 0
                                       THEN app.capacity[t] ELSE @[t]]]
  BY DEF Override, Goto
<1>2. UNCHANGED <<app, progress>> /\ ~InitSent
  BY <1>1 DEF progress, Looked, Timed, Placed, Spawned, Scheduled, InitSent, Handled,
              Work, Looking, Timing, Sending, Accesses, ScheduleCalls
<1>3. /\ analysis'.capacities = [t \in Tasks |-> IF app.capacity[t] # 0
                                   THEN app.capacity[t] ELSE analysis.capacities[t]]
      /\ Shape' /\ UNCHANGED <<analysis.timer_queue, Owning, Unplaced, Unsent>>
  BY <1>1 DEF Shape, Owning, Unplaced, Unsent
<1> QED
  BY <1>1, <1>2, <1>3

LEMMA InitSendEffect ==
    ASSUME TypeOK, Shape, InitSend
    PROVE  /\ UNCHANGED <<app, Looked, Timed, Placed, Spawned, Scheduled>>
           /\ ~InitSent /\ InitSent' /\ phase' = "spawn"
           /\ Spawned = {} /\ Scheduled = {}
           /\ analysis'.needs_send = analysis.needs_send
                 \cup app.spawn["init"] \cup app.schedule["init"]
           /\ analysis'.ready_queues = [l \in DOMAIN analysis.dispatchers |-> 0]
           /\ analysis'.timer_queue = [analysis.timer_queue EXCEPT
                 !.ceiling = analysis.timer_queue.priority]
           /\ Shape' /\ UNCHANGED <<analysis.capacities, analysis.free_queues, Owning, Unplaced>>
<1>1. /\ phase = "init_send" /\ phase' = "spawn" /\ todo' = Work("spawn")
      /\ UNCHANGED <<app, unused>>
      /\ analysis' = [analysis EXCEPT
            !.needs_send = @ \cup app.spawn["init"] \cup app.schedule["init"],
            !.ready_queues = [l \in DOMAIN analysis.dispatchers |-> 0],
            !.timer_queue.ceiling = analysis.timer_queue.priority]
  BY DEF InitSend, Goto
<1>2. /\ UNCHANGED <<app, Looked, Timed, Placed, Spawned, Scheduled>>
      /\ ~InitSent /\ InitSent' /\ Spawned = {} /\ Scheduled = {}
  BY <1>1 DEF Looked, Timed, Placed, Spawned, Scheduled, InitSent, Handled,
              Work, Looking, Timing, Sending, Accesses, SpawnCalls, ScheduleCalls
<1>3. /\ analysis'.needs_send = analysis.needs_send
                 \cup app.spawn["init"] \cup app.schedule["init"]
      /\ analysis'.ready_queues = [l \in DOMAIN analysis.dispatchers |-> 0]
      /\ analysis'.timer_queue = [analysis.timer_queue EXCEPT
            !.ceiling = analysis.timer_queue.priority]
      /\ Shape' /\ UNCHANGED <<analysis.capacities, analysis.free_queues, Owning, Unplaced>>
  BY <1>1 DEF Shape, Owning, Unplaced
<1> QED
  BY <1>1, <1>2, <1>3

LEMMA CodegenEffect ==
    ASSUME Codegen, phase' \notin Failed
    PROVE  UNCHANGED <<app, analysis, unused, progress>> /\ phase' = "done"
<1>1. /\ phase = "schedule" /\ todo = {} /\ phase' = "done"
      /\ UNCHANGED <<app, unused, analysis>>
  BY DEF Codegen, Ended, Goto, Failed
<1> QED
  BY <1>1 DEF progress, Looked, Timed, Placed, Spawned, Scheduled, InitSent, Handled, Work,
     Looking, Timing, Sending, Accesses, SpawnCalls, ScheduleCalls

-----------------------------------------------------------------------------
(* Each part of the invariant depends on the progress of a pass and on a   *)
(* few fields, and steps that leave those alone preserve it.               *)

LEMMA OwnershipsFrame ==
    ASSUME OwnershipsOK, UNCHANGED <<app, Looked, Owning>>
    PROVE  OwnershipsOK'
<1>1. /\ analysis'.ownerships = analysis.ownerships
      /\ analysis'.needs_sync = analysis.needs_sync
      /\ app' = app
  BY DEF Owning
<1>2. \A c : Priority(c)' = Priority(c)
  BY DEF Priority
<1>3. \A r \in Resources : Seen(r)' = Seen(r)
  BY DEF Seen, Contexts
<1> QED
  BY <1>1, <1>2, <1>3 DEF OwnershipsOK, OwnershipOK

LEMMA TimerFrame ==
    ASSUME TimerOK, UNCHANGED <<app, Timed, Scheduled, InitSent, analysis.timer_queue>>
    PROVE  TimerOK'
BY DEF TimerOK, Priority, Contexts

LEMMA FreeFrame ==
    ASSUME FreeOK, UNCHANGED <<app, Spawned, Scheduled, analysis.free_queues>>
    PROVE  FreeOK'
BY DEF FreeOK, Priority, Contexts

LEMMA ReadyFrame ==
    ASSUME ReadyOK, UNCHANGED <<app, Spawned, InitSent, analysis.ready_queues,
                                DOMAIN analysis.dispatchers>>
    PROVE  ReadyOK'
BY DEF ReadyOK, Priority, Contexts

LEMMA DispatchersFrame ==
    ASSUME DispatchersOK, UnusedOK, UNCHANGED <<app, Placed, Unplaced>>
    PROVE  DispatchersOK' /\ UnusedOK'
<1>1. analysis'.dispatchers = analysis.dispatchers /\ unused' = unused
      /\ app' = app /\ Placed' = Placed
  BY DEF Unplaced
<1>2. {app.priority[t] : t \in Placed}' = {app.priority[t] : t \in Placed}
  BY <1>1
<1>3. \A l : {t \in Placed : app.priority[t] = l}' = {t \in Placed : app.priority[t] = l}
  BY <1>1
<1>4. UnusedOK'
  BY <1>1 DEF UnusedOK
<1>5. DispatchersOK'
  BY <1>1, <1>2, <1>3 DEF DispatchersOK
<1> QED
  BY <1>4, <1>5

LEMMA SendFrame ==
    ASSUME SendOK, UNCHANGED <<app, Spawned, InitSent, analysis.needs_send>>
    PROVE  SendOK'
BY DEF SendOK, Priority, Contexts

LEMMA ValidFrame ==
    ASSUME UNCHANGED app
    PROVE  Valid' = Valid
BY DEF Valid, Contexts

-----------------------------------------------------------------------------
(* The pass that a part of the invariant is about preserves it.            *)

(* One more access: the ceiling is raised to its priority.                 *)
LEMMA AccessOwnerships ==
    ASSUME TypeOK, Shape, OwnershipsOK, NEW c \in Contexts, NEW r \in Resources,
           Access(c, r)
    PROVE  OwnershipsOK'
<1> DEFINE old == analysis.ownerships[r]
           new == analysis'.ownerships[r]
           p == Priority(c)
           mixed == old.kind # "none" /\ old.ceiling # p
<1>1. /\ c # "init" /\ Looked' = Looked \cup {<<c, r>>} /\ app' = app
  BY AccessEffect
<1>2. analysis' = [analysis EXCEPT
               !.ownerships[r] = CASE old.kind = "none" -> Owned(p)
                                   [] mixed -> Shared(Raised(old.ceiling, p))
                                   [] OTHER -> old,
               !.needs_sync = IF mixed /\ r \notin app.mutable
                              THEN @ \cup {r} ELSE @]
  BY DEF Access
<1>3. /\ analysis.ownerships \in [Resources -> Ownership] /\ app \in AppType
  BY DEF TypeOK
<1>4. /\ new = CASE old.kind = "none" -> Owned(p)
                 [] mixed -> Shared(Raised(old.ceiling, p))
                 [] OTHER -> old
      /\ \A s \in Resources \ {r} : analysis'.ownerships[s] = analysis.ownerships[s]
      /\ analysis'.needs_sync = IF mixed /\ r \notin app.mutable
                                THEN analysis.needs_sync \cup {r} ELSE analysis.needs_sync
  BY <1>2, <1>3 DEF Shape
<1>5. \A d : Priority(d)' = Priority(d)
  BY <1>1 DEF Priority
<1>6. \A d \in Contexts \ {"init"} : Priority(d) \in 0..255
  BY <1>3, AppTyped
<1>7. Seen(r)' = Seen(r) \cup {c}
  BY <1>1 DEF Seen, Contexts
<1>8. old \in Ownership /\ p \in 0..255
  BY <1>1, <1>3, <1>6
<1>9. ASSUME NEW s \in Resources \ {r} PROVE OwnershipOK(s)'
  <2>1. Seen(s)' = Seen(s)
    BY <1>1 DEF Seen, Contexts
  <2>2. OwnershipOK(s)
    BY DEF OwnershipsOK
  <2>3. analysis'.needs_sync \cap {s} = analysis.needs_sync \cap {s}
    BY <1>4
  <2> QED
    BY <1>1, <1>4, <1>5, <2>1, <2>2, <2>3 DEF OwnershipOK
<1>10. OwnershipOK(r)'
  <2>1. OwnershipOK(r)
    BY DEF OwnershipsOK
  <2>2. Seen(r) \subseteq Contexts \ {"init"}
    BY DEF Seen
  <2>3. CASE old.kind = "none"
    <3>1. new = [kind |-> "owned", ceiling |-> p] /\ Seen(r)' = {c}
      BY <1>4, <1>7, <2>1, <2>3 DEF Owned, OwnershipOK
    <3> QED
      BY <1>1, <1>4, <1>5, <1>8, <2>1, <2>3, <3>1 DEF OwnershipOK
  <2>4. CASE old.kind # "none" /\ old.ceiling = p
    <3>1. new = old /\ analysis'.needs_sync = analysis.needs_sync
      BY <1>4, <2>4
    <3>2. \E d \in Seen(r) : Priority(d) = old.ceiling
      BY <2>1, <2>4 DEF OwnershipOK
    <3> QED
      BY <1>1, <1>5, <1>6, <1>7, <1>8, <2>1, <2>2, <2>4, <3>1, <3>2 DEF OwnershipOK
  <2>5. CASE mixed
    <3> DEFINE m == Raised(old.ceiling, p)
    <3>1. /\ new = [kind |-> "shared", ceiling |-> m]
          /\ r \in analysis'.needs_sync <=> r \notin app.mutable
      BY <1>4, <2>1, <2>5 DEF Shared, OwnershipOK
    <3>2. PICK d \in Seen(r) : Priority(d) = old.ceiling
      BY <2>1, <2>5 DEF OwnershipOK
    <3>3. old.ceiling \in 0..255
      BY <1>8 DEF Ownership
    <3>4. \A e \in Seen(r) \cup {c} : Priority(e) <= m
      <4>1. \A e \in Seen(r) : Priority(e) \in 0..255 /\ Priority(e) <= old.ceiling
        BY <1>6, <2>1, <2>2, <2>5, SMTT(30), ZenonT(30) DEF OwnershipOK
      <4>2. old.ceiling <= m /\ p <= m /\ m \in 0..255
        BY <1>8, <3>3, Bytes, ZenonT(60)
      <4>3. ASSUME NEW e \in Seen(r) PROVE Priority(e) <= m
        <5>1. Priority(e) \in 0..255 /\ Priority(e) <= old.ceiling
          BY <4>1
        <5> HIDE DEF m
        <5> QED
          BY <3>3, <4>2, <5>1, Transitive, ZenonT(60)
      <4> QED
        BY <4>2, <4>3
    <3>5. \E e \in Seen(r) \cup {c} : Priority(e) = m
      BY <3>2, <3>3, <1>8 DEF Raised
    <3>6. \E e \in Seen(r) \cup {c} : Priority(e) # m
      BY <2>5, <3>2, <3>3, <1>8 DEF Raised
    <3> QED
      BY <1>1, <1>5, <1>7, <3>1, <3>4, <3>5, <3>6 DEF OwnershipOK
  <2> QED
    BY <2>3, <2>4, <2>5
<1> QED
  BY <1>9, <1>10 DEF OwnershipsOK

LEMMA TimerQueueTimer ==
    ASSUME TypeOK, Shape, TimerOK, NEW c \in Contexts, NEW t \in Tasks,
           TimerQueue(c, t), phase' \notin Failed
    PROVE  TimerOK'
<1> DEFINE tq == analysis.timer_queue
<1>1. /\ Timed' = Timed \cup {<<c, t>>} /\ app' = app /\ Scheduled' = Scheduled
      /\ ~InitSent' /\ Scheduled = {}
  <2>1. phase = "timer_queue"
    BY DEF TimerQueue, Round
  <2> QED
    BY <2>1, TimerQueueEffect DEF Scheduled, Handled
<1>2. tq \in TimerQueueType /\ app \in AppType
  BY DEF TypeOK, TimerQueueType
<1>3. /\ analysis'.timer_queue.priority = Raised(tq.priority, app.priority[t])
      /\ analysis'.timer_queue.tasks = tq.tasks \cup {t}
  BY <1>2, TimerQueueEffect, ZenonT(60) DEF TimerQueueType
<1>4. \A u \in Tasks : app.priority[u] \in 0..255
  BY <1>2, AppTyped
<1>5. /\ tq.priority <= analysis'.timer_queue.priority
      /\ app.priority[t] <= analysis'.timer_queue.priority
      /\ analysis'.timer_queue.priority \in 0..255 /\ tq.priority \in 0..255
  <2>1. tq.priority \in 0..255 /\ app.priority[t] \in 0..255
    BY <1>2, <1>4 DEF TimerQueueType
  <2>2. /\ Raised(tq.priority, app.priority[t]) \in 0..255
        /\ tq.priority <= Raised(tq.priority, app.priority[t])
        /\ app.priority[t] <= Raised(tq.priority, app.priority[t])
    BY <2>1, Bytes, ZenonT(60)
  <2> QED
    BY <1>3, <2>1, <2>2
<1>6. ASSUME NEW d \in Contexts, NEW u \in Tasks, <<d, u>> \in Timed'
      PROVE  /\ u \in analysis'.timer_queue.tasks
             /\ app.priority[u] <= analysis'.timer_queue.priority
  <2>1. CASE u = t
    BY <1>3, <1>5, <2>1
  <2>2. CASE u # t
    <3>1. <<d, u>> \in Timed
      BY <1>1, <1>6, <2>2
    <3>2. u \in tq.tasks /\ app.priority[u] <= tq.priority
      BY <3>1 DEF TimerOK
    <3>3. app.priority[u] \in 0..255
      BY <1>4
    <3> QED
      BY <1>3, <1>5, <3>2, <3>3, Transitive, ZenonT(60)
  <2> QED
    BY <2>1, <2>2
<1> QED
  BY <1>1, <1>6 DEF TimerOK, Contexts

LEMMA ScheduleTimerQueue ==
    ASSUME TypeOK, Shape, TimerOK, NEW c \in Contexts, NEW t \in Tasks, Schedule(c, t)
    PROVE  TimerOK'
<1> DEFINE tq == analysis.timer_queue
<1>1. /\ Scheduled' = Scheduled \cup {<<c, t>>} /\ app' = app /\ Timed' = Timed
      /\ InitSent' = InitSent
      /\ c # "init" => analysis'.timer_queue = [tq EXCEPT !.ceiling = Raised(@, Priority(c))]
      /\ c = "init" => analysis'.timer_queue = tq
  BY ScheduleEffect
<1>2. tq \in TimerQueueType /\ app \in AppType
  BY DEF TypeOK, TimerQueueType
<1>3. \A d : Priority(d)' = Priority(d)
  BY <1>1 DEF Priority
<1>4. CASE c = "init"
  BY <1>1, <1>3, <1>4 DEF TimerOK, Contexts
<1>5. CASE c # "init"
  <2>1. /\ analysis'.timer_queue.tasks = tq.tasks
        /\ analysis'.timer_queue.priority = tq.priority
        /\ analysis'.timer_queue.ceiling = Raised(tq.ceiling, Priority(c))
    BY <1>1, <1>2, <1>5 DEF TimerQueueType
  <2>2. /\ tq.ceiling \in 0..255 /\ tq.priority \in 0..255 /\ Priority(c) \in 0..255
        /\ \A d \in Contexts \ {"init"} : Priority(d) \in 0..255
    BY <1>2, <1>5, AppTyped DEF TimerQueueType
  <2>3. /\ analysis'.timer_queue.ceiling \in 0..255
        /\ tq.ceiling <= analysis'.timer_queue.ceiling
        /\ Priority(c) <= analysis'.timer_queue.ceiling
    <3>1. /\ Raised(tq.ceiling, Priority(c)) \in 0..255
          /\ tq.ceiling <= Raised(tq.ceiling, Priority(c))
          /\ Priority(c) <= Raised(tq.ceiling, Priority(c))
      BY <2>2, Bytes, ZenonT(60)
    <3> QED
      BY <2>1, <3>1, SMTT(30), ZenonT(30)
  <2>4. ASSUME InitSent PROVE tq.priority <= analysis'.timer_queue.ceiling
    <3>1. tq.priority <= tq.ceiling
      BY <2>4 DEF TimerOK
    <3> QED
      BY <2>2, <2>3, <3>1, Transitive, ZenonT(60)
  <2>5. ASSUME NEW d \in Contexts \ {"init"}, NEW u \in Tasks, <<d, u>> \in Scheduled'
        PROVE  Priority(d) <= analysis'.timer_queue.ceiling
    <3>1. CASE d = c
      BY <2>3, <3>1
    <3>2. CASE d # c
      <4>1. Priority(d) <= tq.ceiling /\ Priority(d) \in 0..255
        BY <1>1, <2>2, <2>5, <3>2 DEF TimerOK
      <4> QED
        BY <2>2, <2>3, <4>1, Transitive, ZenonT(60)
    <3> QED
      BY <3>1, <3>2
  <2>6. \A d \in Contexts, u \in Tasks : <<d, u>> \in Timed =>
           u \in tq.tasks /\ app.priority[u] <= tq.priority
    BY DEF TimerOK
  <2> QED
    BY <1>1, <1>3, <2>1, <2>4, <2>5, <2>6 DEF TimerOK, Contexts
<1> QED
  BY <1>4, <1>5

LEMMA InitSendTimer ==
    ASSUME TypeOK, Shape, TimerOK, InitSend
    PROVE  TimerOK'
<1> DEFINE tq == analysis.timer_queue
<1>1. /\ Scheduled' = {} /\ app' = app /\ Timed' = Timed
      /\ analysis'.timer_queue = [tq EXCEPT !.ceiling = tq.priority]
  BY InitSendEffect
<1>2. tq \in TimerQueueType
  BY DEF TypeOK, TimerQueueType
<1>3. /\ analysis'.timer_queue.tasks = tq.tasks
      /\ analysis'.timer_queue.priority = tq.priority
      /\ analysis'.timer_queue.ceiling = tq.priority
      /\ tq.priority \in 0..255
  BY <1>1, <1>2 DEF TimerQueueType
<1>4. tq.priority <= tq.priority
  BY <1>3
<1> QED
  BY <1>1, <1>3, <1>4 DEF TimerOK, Contexts

(* The ceiling of a free queue rises with spawn and schedule alike.        *)
LEMMA SendFree ==
    ASSUME TypeOK, Shape, FreeOK, NEW c \in Contexts, NEW t \in Tasks,
           Spawn(c, t) \/ Schedule(c, t)
    PROVE  FreeOK'
<1> DEFINE f == analysis.free_queues
<1>1. /\ (Spawned \cup Scheduled)' = Spawned \cup Scheduled \cup {<<c, t>>}
      /\ app' = app
      /\ c # "init" => analysis'.free_queues = [f EXCEPT ![t] = Raised(@, Priority(c))]
      /\ c = "init" => analysis'.free_queues = f
  BY SpawnEffect, ScheduleEffect, ZenonT(60) DEF Unsent
<1>2. f \in [Tasks -> 0..255] /\ app \in AppType
  BY DEF TypeOK
<1>3. \A d : Priority(d)' = Priority(d)
  BY <1>1 DEF Priority
<1>4. ASSUME NEW d \in Contexts \ {"init"}, NEW u \in Tasks,
             <<d, u>> \in (Spawned \cup Scheduled)'
      PROVE  Priority(d) <= analysis'.free_queues[u]
  <2>1. Priority(d) \in 0..255 /\ f[u] \in 0..255 /\ f[t] \in 0..255
    BY <1>2, AppTyped
  <2>2. CASE <<d, u>> \in Spawned \cup Scheduled
    <3>1. Priority(d) <= f[u]
      BY <2>2 DEF FreeOK
    <3>2. CASE c = "init" \/ u # t
      BY <1>1, <1>2, <3>1, <3>2
    <3>3. CASE c # "init" /\ u = t
      <4>1. Priority(c) \in 0..255
        BY <1>2, <3>3, AppTyped
      <4>2. /\ Raised(f[u], Priority(c)) \in 0..255
            /\ f[u] <= Raised(f[u], Priority(c))
        BY <2>1, <4>1, Bytes, ZenonT(60)
      <4>3. analysis'.free_queues[u] = Raised(f[u], Priority(c))
        BY <1>1, <1>2, <3>3
      <4> HIDE DEF f
      <4> QED
        BY <2>1, <3>1, <4>2, <4>3, Transitive, ZenonT(60)
    <3> QED
      BY <3>2, <3>3
  <2>3. CASE d = c /\ u = t
    <3>1. analysis'.free_queues[u] = Raised(f[t], Priority(d))
      BY <1>1, <1>2, <2>3
    <3>2. Priority(d) <= Raised(f[t], Priority(d))
      BY <2>1, Bytes, ZenonT(60)
    <3> QED
      BY <3>1, <3>2
  <2> QED
    BY <1>1, <1>4, <2>2, <2>3
<1> QED
  BY <1>3, <1>4 DEF FreeOK, Contexts

LEMMA SpawnReady ==
    ASSUME TypeOK, Shape, ReadyOK, NEW c \in Contexts, NEW t \in Tasks, Spawn(c, t)
    PROVE  ReadyOK'
<1> DEFINE q == analysis.ready_queues
           levels == DOMAIN analysis.dispatchers
<1>1. /\ Spawned' = Spawned \cup {<<c, t>>} /\ app' = app /\ InitSent /\ InitSent'
      /\ c # "init" => analysis'.ready_queues =
                          [q EXCEPT ![app.priority[t]] = Raised(@, Priority(c))]
      /\ c = "init" => analysis'.ready_queues = q
      /\ analysis'.dispatchers = analysis.dispatchers
  BY SpawnEffect DEF Unsent, Unplaced
<1>2. /\ q = [l \in levels |-> q[l]] /\ DOMAIN q = levels
      /\ \A l \in levels : q[l] \in 0..255
      /\ app \in AppType
  BY <1>1 DEF TypeOK, Shape, ReadyOK
<1>3. \A d : Priority(d)' = Priority(d)
  BY <1>1 DEF Priority
<1>4. ASSUME NEW d \in Contexts \ {"init"}, NEW u \in Tasks,
             <<d, u>> \in Spawned', app.priority[u] \in levels
      PROVE  Priority(d) <= analysis'.ready_queues[app.priority[u]]
  <2> DEFINE l == app.priority[u]
  <2>1. Priority(d) \in 0..255 /\ q[l] \in 0..255
    BY <1>2, <1>4, AppTyped
  <2>2. CASE <<d, u>> \in Spawned
    <3>1. Priority(d) <= q[l]
      BY <1>4, <2>2 DEF ReadyOK
    <3>2. CASE c = "init" \/ l # app.priority[t]
      <4>1. analysis'.ready_queues[l] = q[l]
        BY <1>1, <1>2, <1>4, <3>2
      <4> QED
        BY <3>1, <4>1
    <3>3. CASE c # "init" /\ l = app.priority[t]
      <4>1. Priority(c) \in 0..255
        BY <1>2, <3>3, AppTyped, SMTT(30), ZenonT(30)
      <4>2. /\ Raised(q[l], Priority(c)) \in 0..255
            /\ q[l] <= Raised(q[l], Priority(c))
        BY <2>1, <4>1, Bytes, ZenonT(60)
      <4>3. analysis'.ready_queues[l] = Raised(q[l], Priority(c))
        BY <1>1, <1>2, <1>4, <3>3
      <4> HIDE DEF q, l
      <4>4. Priority(d) <= analysis'.ready_queues[l]
        BY <2>1, <3>1, <4>2, <4>3, Transitive, ZenonT(60)
      <4> QED
        BY <4>4 DEF l
    <3> QED
      BY <3>2, <3>3
  <2>3. CASE d = c /\ u = t
    <3>1. analysis'.ready_queues[l] = Raised(q[l], Priority(d))
      BY <1>1, <1>2, <1>4, <2>3
    <3>2. Priority(d) <= Raised(q[l], Priority(d))
      BY <2>1, Bytes, ZenonT(60)
    <3> QED
      BY <3>1, <3>2
  <2> QED
    BY <1>1, <1>4, <2>2, <2>3, SMTT(30), ZenonT(30)
<1>5. DOMAIN analysis'.ready_queues = DOMAIN analysis'.dispatchers
  BY <1>1, <1>2
<1> QED
  BY <1>1, <1>3, <1>4, <1>5 DEF ReadyOK, Contexts

LEMMA InitSendReady ==
    ASSUME TypeOK, Shape, InitSend
    PROVE  ReadyOK'
<1>1. /\ Spawned' = {} /\ analysis'.dispatchers = analysis.dispatchers
      /\ DOMAIN analysis'.ready_queues = DOMAIN analysis.dispatchers
  BY InitSendEffect DEF Unplaced
<1> QED
  BY <1>1 DEF ReadyOK

LEMMA SpawnSend ==
    ASSUME TypeOK, Shape, SendOK, NEW c \in Contexts, NEW t \in Tasks, Spawn(c, t)
    PROVE  SendOK'
<1>1. /\ Spawned' = Spawned \cup {<<c, t>>} /\ app' = app /\ InitSent' = InitSent
      /\ analysis'.needs_send = IF c # "init" /\ app.priority[t] # Priority(c)
                                THEN analysis.needs_send \cup {t} ELSE analysis.needs_send
  BY SpawnEffect DEF Unsent
<1>2. \A d : Priority(d)' = Priority(d)
  BY <1>1 DEF Priority
<1>3. ASSUME NEW u \in Tasks
      PROVE  u \in analysis'.needs_send <=>
               \/ InitSent' /\ u \in app.spawn["init"] \cup app.schedule["init"]
               \/ \E d \in Contexts \ {"init"} :
                     <<d, u>> \in Spawned' /\ Priority(d) # app.priority[u]
  <2>1. u \in analysis.needs_send <=>
               \/ InitSent /\ u \in app.spawn["init"] \cup app.schedule["init"]
               \/ \E d \in Contexts \ {"init"} :
                     <<d, u>> \in Spawned /\ Priority(d) # app.priority[u]
    BY DEF SendOK
  <2>2. CASE u = t /\ c # "init" /\ app.priority[t] # Priority(c)
    BY <1>1, <2>1, <2>2
  <2>3. CASE u # t
    BY <1>1, <2>1, <2>3, SMTT(30), ZenonT(30)
  <2>4. CASE u = t /\ (c = "init" \/ app.priority[t] = Priority(c))
    BY <1>1, <2>1, <2>4
  <2> QED
    BY <2>2, <2>3, <2>4
<1> QED
  BY <1>1, <1>2, <1>3 DEF SendOK, Contexts

LEMMA InitSendSend ==
    ASSUME TypeOK, Shape, SendOK, InitSend
    PROVE  SendOK'
<1>1. /\ Spawned' = {} /\ Spawned = {} /\ app' = app /\ ~InitSent /\ InitSent'
      /\ analysis'.needs_send = analysis.needs_send
            \cup app.spawn["init"] \cup app.schedule["init"]
  BY InitSendEffect
<1> QED
  BY <1>1 DEF SendOK

-----------------------------------------------------------------------------
(* The first task of a level gets an interrupt no other dispatcher has.    *)
LEMMA DispatchDispatchers ==
    ASSUME TypeOK, Shape, DispatchersOK, NEW t \in Tasks, Dispatch(t), phase' \notin Failed
    PROVE  DispatchersOK'
<1> DEFINE d == analysis.dispatchers
           e == analysis'.dispatchers
           level == app.priority[t]
           size == analysis.capacities[t]
<1>1. PICK old \in IF level \in DOMAIN d THEN {d[level]}
                   ELSE {[interrupt |-> i, capacity |-> 0, tasks |-> {}] : i \in unused} :
         /\ unused' = unused \ {old.interrupt}
         /\ analysis' = [analysis EXCEPT !.dispatchers =
                           [l \in DOMAIN @ \cup {level} |->
                              IF l # level THEN @[l]
                              ELSE [old EXCEPT !.capacity = Sum8(@, size),
                                               !.tasks = @ \cup {t}]]]
  BY DEF Dispatch, Ended, Goto, Failed
<1>2. e = [l \in DOMAIN d \cup {level} |->
              IF l # level THEN d[l] ELSE [old EXCEPT !.capacity = Sum8(@, size),
                                                      !.tasks = @ \cup {t}]]
  BY <1>1 DEF Shape
<1>3. Placed' = Placed \cup {t} /\ app' = app
  BY DispatchEffect
<1>4. /\ \A l \in DOMAIN d : d[l] \in Dispatcher
      /\ unused \subseteq app.free
  BY DEF TypeOK
<1>5. /\ old.interrupt \in app.free /\ old.interrupt \notin unused'
      /\ e[level].interrupt = old.interrupt /\ e[level].tasks = old.tasks \cup {t}
      /\ level \in DOMAIN d => old = d[level]
      /\ level \notin DOMAIN d => old.tasks = {} /\ old.interrupt \in unused
  <2>1. CASE level \in DOMAIN d
    <3>1. old = d[level] /\ d[level] \in Dispatcher
      BY <1>1, <1>4, <2>1
    <3>2. d[level].interrupt \in app.free \ unused
      BY <2>1 DEF DispatchersOK
    <3>3. e[level] = [old EXCEPT !.capacity = Sum8(@, size), !.tasks = @ \cup {t}]
      BY <1>2, SMTT(30), ZenonT(30)
    <3>4. e[level].interrupt = old.interrupt /\ e[level].tasks = old.tasks \cup {t}
      BY <3>1, <3>3 DEF Dispatcher
    <3>5. old.interrupt \in app.free /\ old.interrupt \notin unused'
      BY <1>1, <3>1, <3>2
    <3> QED
      BY <2>1, <3>1, <3>4, <3>5
  <2>2. CASE level \notin DOMAIN d
    <3>1. PICK i \in unused : old = [interrupt |-> i, capacity |-> 0, tasks |-> {}]
      BY <1>1, <2>2
    <3>2. e[level] = [old EXCEPT !.capacity = Sum8(@, size), !.tasks = @ \cup {t}]
      BY <1>2
    <3> QED
      BY <1>1, <1>4, <2>2, <3>1, <3>2, ZenonT(60)
  <2> QED
    BY <2>1, <2>2
<1>6. DOMAIN e = {app'.priority[u] : u \in Placed'}
  BY <1>2, <1>3 DEF DispatchersOK
<1>7. ASSUME NEW l \in DOMAIN e
      PROVE  /\ e[l].tasks = {u \in Placed' : app.priority[u] = l}
             /\ e[l].interrupt \in app.free \ unused'
  <2>1. CASE l = level
    BY <1>2, <1>3, <1>5, <2>1 DEF DispatchersOK
  <2>2. CASE l # level
    BY <1>1, <1>2, <1>3, <1>7, <2>2 DEF DispatchersOK
  <2> QED
    BY <2>1, <2>2
<1>8. ASSUME NEW l \in DOMAIN e, NEW m \in DOMAIN e, e[l].interrupt = e[m].interrupt
      PROVE  l = m
  <2>1. \A k \in DOMAIN d : k # level =>
           /\ e[k] = d[k] /\ d[k].interrupt \notin unused
           /\ d[k].interrupt # old.interrupt
    BY <1>2, <1>5 DEF DispatchersOK
  <2> QED
    BY <1>2, <1>5, <1>8, <2>1 DEF DispatchersOK
<1> QED
  BY <1>3, <1>6, <1>7, <1>8 DEF DispatchersOK

LEMMA FiniteBytes == ASSUME NEW S, S \subseteq 0..255 PROVE IsFiniteSet(S)
<1>1. IsFiniteSet(0..255)
  <2>1. 0 \in Int /\ 255 \in Int
    OBVIOUS
  <2>2. \A a, b \in Int : IsFiniteSet(a..b)
    BY FS_Interval
  <2> QED
    BY <2>1, <2>2, Zenon
<1>2. S \in SUBSET (0..255)
  OBVIOUS
<1> QED
  BY <1>1, <1>2, FS_Subset

LEMMA DispatchUnused ==
    ASSUME TypeOK, Shape, DispatchersOK, UnusedOK, NEW t \in Tasks, Dispatch(t),
           phase' \notin Failed
    PROVE  UnusedOK'
<1> DEFINE d == analysis.dispatchers
           e == analysis'.dispatchers
           level == app.priority[t]
<1>1. PICK old \in IF level \in DOMAIN d THEN {d[level]}
                   ELSE {[interrupt |-> i, capacity |-> 0, tasks |-> {}] : i \in unused} :
         /\ unused' = unused \ {old.interrupt}
         /\ analysis' = [analysis EXCEPT !.dispatchers =
                           [l \in DOMAIN @ \cup {level} |->
                              IF l # level THEN @[l]
                              ELSE [old EXCEPT !.capacity = Sum8(@, analysis.capacities[t]),
                                               !.tasks = @ \cup {t}]]]
  <2>1. ~Ended("bug") /\ ~Ended("panic")
    BY DEF Ended, Goto, Failed
  <2> QED
    BY <2>1 DEF Dispatch
<1>2. DOMAIN e = DOMAIN d \cup {level} /\ app' = app
  <2>1. app' = app
    BY DispatchEffect
  <2> QED
    BY <1>1, <2>1 DEF Shape
<1>3. /\ IsFiniteSet(unused) /\ IsFiniteSet(DOMAIN d)
      /\ Cardinality(unused) \in Nat /\ Cardinality(DOMAIN d) \in Nat
  <2>1. unused \subseteq Interrupts /\ DOMAIN d \subseteq 0..255
    BY AppTyped DEF TypeOK
  <2>2. unused \in SUBSET Interrupts /\ IsFiniteSet(Interrupts)
    BY <2>1, NamesAssumption
  <2>3. IsFiniteSet(unused) /\ IsFiniteSet(DOMAIN d)
    BY <2>1, <2>2, FiniteBytes, FS_Subset
  <2> QED
    BY <2>3, FS_CardinalityType
<1>4. CASE level \in DOMAIN d
  <2>1. old = d[level] /\ d[level].interrupt \notin unused
    BY <1>1, <1>4 DEF DispatchersOK
  <2>2. unused' = unused /\ DOMAIN e = DOMAIN d
    BY <1>1, <1>2, <1>4, <2>1
  <2> QED
    BY <1>2, <2>2 DEF UnusedOK
<1>5. CASE level \notin DOMAIN d
  <2>1. old.interrupt \in unused
    BY <1>1, <1>5
  <2>2. Cardinality(unused') = Cardinality(unused) - 1
    BY <1>1, <1>3, <2>1, FS_RemoveElement
  <2>3. Cardinality(DOMAIN e) = Cardinality(DOMAIN d) + 1
    BY <1>2, <1>3, <1>5, FS_AddElement
  <2> QED
    BY <1>2, <1>3, <2>2, <2>3 DEF UnusedOK
<1> QED
  BY <1>4, <1>5

(* check::app has counted the levels, so no dispatcher is left without an  *)
(* interrupt.                                                              *)
LEMMA DispatchNoBug ==
    ASSUME TypeOK, DispatchersOK, UnusedOK, Valid, NEW t \in Tasks, Dispatch(t)
    PROVE  phase' # "bug"
<1> DEFINE d == analysis.dispatchers
           level == app.priority[t]
           levels == {app.priority[u] : u \in app.tasks}
<1> SUFFICES ASSUME level \notin DOMAIN d, unused = {} PROVE FALSE
  BY DEF Dispatch, Round, Ended, Goto
<1>1. t \in app.tasks /\ Placed \subseteq app.tasks
  BY DEF Dispatch, Round, TypeOK, Work, Placed
<1>2. DOMAIN d \subseteq levels /\ level \in levels
  BY <1>1 DEF DispatchersOK
<1>3. levels \subseteq 0..255
  BY AppTyped, SMTT(30), ZenonT(30) DEF TypeOK
<1>4. IsFiniteSet(levels)
  BY <1>3, FiniteBytes
<1>5. Cardinality(DOMAIN d) = Cardinality(app.free) /\ Cardinality(DOMAIN d) \in Nat
  <2>1. IsFiniteSet(DOMAIN d)
    BY <1>2, <1>4, FS_Subset
  <2>2. Cardinality(DOMAIN d) \in Nat /\ Cardinality(unused) = 0
    BY <2>1, FS_CardinalityType, FS_EmptySet
  <2> QED
    BY <2>2 DEF UnusedOK
<1>6. Cardinality(levels) <= Cardinality(DOMAIN d)
  BY <1>5 DEF Valid
<1>7. Cardinality(levels) \in Nat /\ Cardinality(DOMAIN d) <= Cardinality(levels)
  BY <1>2, <1>4, FS_CardinalityType, FS_Subset
<1>8. levels = DOMAIN d
  BY <1>2, <1>4, <1>5, <1>6, <1>7, FS_Subset
<1> QED
  BY <1>2, <1>8

LEMMA CountNoBug ==
    ASSUME TypeOK, Valid, NEW c \in Contexts, NEW t \in Tasks,
           NEW pass \in {"spawn_counts", "schedule_counts"}, Count(pass, c, t)
    PROVE  phase' # "bug"
<1>1. phase = pass /\ <<c, t>> \in todo
  BY DEF Count, Round
<1>2. t \in app.spawn[c] \cup app.schedule[c]
  BY <1>1 DEF TypeOK, Work, SpawnCalls, ScheduleCalls
<1>3. t \in app.tasks
  BY <1>2 DEF Valid
<1> QED
  BY <1>1, <1>3 DEF Count, Ended, Goto

-----------------------------------------------------------------------------
(* Dispatch makes the only change to the dispatchers while no message has  *)
(* been looked at.                                                         *)
LEMMA DispatchReady ==
    ASSUME TypeOK, Shape, NEW t \in Tasks, Dispatch(t), phase' \notin Failed
    PROVE  ReadyOK'
<1>1. Spawned' = Spawned /\ ~InitSent'
  BY DispatchEffect
<1>2. Spawned = {}
  BY DEF Dispatch, Round, Spawned, Handled
<1> QED
  BY <1>1, <1>2 DEF ReadyOK

-----------------------------------------------------------------------------
(* Types and fields survive each step.                                     *)

Phases == {"check", "ownerships", "spawn_counts", "schedule_counts", "override",
           "timer_queue", "dispatchers", "init_send", "spawn", "schedule"} \cup Outcomes

LEMMA WorkFrame == ASSUME UNCHANGED app PROVE \A p : Work(p)' = Work(p)
BY DEF Work, Accesses, SpawnCalls, ScheduleCalls

(* A step to another phase, with its work to do.                           *)
LEMMA GotoTypes ==
    ASSUME TypeOK, Shape, UNCHANGED <<app, unused, analysis>>,
           NEW p \in Phases, Goto(p)
    PROVE  TypeOK' /\ Shape'
<1>1. Work(phase)' = todo'
  BY WorkFrame DEF Goto
<1>2. phase' \in Phases /\ todo' \subseteq Work(phase)'
  BY <1>1 DEF Goto
<1>3. Shape'
  BY DEF Shape
<1>4. TypeOK'
  BY <1>2 DEF TypeOK, Phases
<1> QED
  BY <1>3, <1>4

(* A round of a loop.                                                      *)
LEMMA RoundTypes ==
    ASSUME TypeOK, UNCHANGED <<app, phase>>, todo' \subseteq todo
    PROVE  app' \in AppType /\ phase' \in Phases /\ todo' \subseteq Work(phase)'
<1>1. Work(phase)' = Work(phase)
  BY DEF Work, Accesses, SpawnCalls, ScheduleCalls
<1> QED
  BY <1>1, SMTT(30), ZenonT(30) DEF TypeOK, Phases

LEMMA AccessTypes ==
    ASSUME TypeOK, Shape, NEW c \in Contexts, NEW r \in Resources, Access(c, r)
    PROVE  TypeOK' /\ Shape'
<1> DEFINE old == analysis.ownerships[r]
           p == Priority(c)
           mixed == old.kind # "none" /\ old.ceiling # p
<1>1. /\ phase' = phase /\ todo' \subseteq todo /\ UNCHANGED <<app, unused>>
      /\ analysis' = [analysis EXCEPT
               !.ownerships[r] = CASE old.kind = "none" -> Owned(p)
                                   [] mixed -> Shared(Raised(old.ceiling, p))
                                   [] OTHER -> old,
               !.needs_sync = IF mixed /\ r \notin app.mutable
                              THEN @ \cup {r} ELSE @]
  BY DEF Access, Round
<1>2. /\ c # "init" /\ Shape'
      /\ UNCHANGED <<analysis.capacities, analysis.timer_queue, Unplaced, Unsent>>
  BY AccessEffect
<1>3. p \in 0..255 /\ old \in Ownership
  BY <1>2, AppTyped, SMTT(30), ZenonT(30) DEF TypeOK
<1>4. Owned(p) \in Ownership /\ Shared(Raised(old.ceiling, p)) \in Ownership
  <2>1. old.ceiling \in 0..255
    BY <1>3, SMTT(30), ZenonT(30) DEF Ownership
  <2>2. Raised(old.ceiling, p) \in 0..255
    BY <1>3, <2>1, Bytes, ZenonT(60)
  <2> QED
    BY <1>3, <2>2 DEF Owned, Shared, Ownership
<1>5. /\ analysis'.ownerships \in [Resources -> Ownership]
      /\ analysis'.needs_sync \subseteq Resources
  BY <1>1, <1>3, <1>4, SMTT(30), ZenonT(30) DEF TypeOK, Shape
<1>6. app' \in AppType /\ phase' \in Phases /\ todo' \subseteq Work(phase)'
  BY <1>1, RoundTypes
<1> QED
  BY <1>1, <1>2, <1>5, <1>6, ZenonT(60) DEF TypeOK, Phases, Unplaced, Unsent

LEMMA CountTypes ==
    ASSUME TypeOK, Shape, NEW c \in Contexts, NEW t \in Tasks,
           NEW pass \in {"spawn_counts", "schedule_counts"}, Count(pass, c, t)
    PROVE  TypeOK' /\ Shape'
<1>1. CASE Ended("bug") \/ Ended("panic")
  BY <1>1, GotoTypes, SMTT(30), ZenonT(30) DEF Ended, Count, Round, Phases, Outcomes
<1>2. CASE /\ todo' = todo \ {<<c, t>>}
           /\ analysis' = [analysis EXCEPT !.capacities[t] = Sum8(@, 1)]
           /\ UNCHANGED <<phase, unused>>
  <2>1. app' = app /\ phase = pass
    BY DEF Count, Round
  <2>2. /\ analysis'.capacities = [analysis.capacities EXCEPT ![t] = Sum8(@, 1)]
        /\ Shape' /\ UNCHANGED <<analysis.timer_queue, Owning, Unplaced, Unsent>>
    BY <1>2, <2>1, CountEffect DEF Failed
  <2>3. Sum8(analysis.capacities[t], 1) \in 0..255
    <3>1. analysis.capacities[t] \in 0..255 /\ 1 \in 0..255
      BY DEF TypeOK
    <3> QED
      BY <3>1, Bytes, ZenonT(60)
  <2>4. app' \in AppType /\ phase' \in Phases /\ todo' \subseteq Work(phase)'
    BY <1>2, <2>1, RoundTypes
  <2>5. analysis'.capacities \in [Tasks -> 0..255]
    BY <2>2, <2>3, ZenonT(60) DEF TypeOK
  <2>6. /\ UNCHANGED <<unused, analysis.ownerships, analysis.needs_sync>>
        /\ UNCHANGED <<analysis.timer_queue, analysis.dispatchers, analysis.needs_send>>
        /\ UNCHANGED <<analysis.free_queues, analysis.ready_queues>>
    BY <1>2, <2>2 DEF Owning, Unplaced, Unsent
  <2> QED
    BY <2>1, <2>2, <2>4, <2>5, <2>6, ZenonT(60) DEF TypeOK, Phases
<1> QED
  BY <1>1, <1>2 DEF Count

LEMMA OverrideTypes ==
    ASSUME TypeOK, Shape, Override
    PROVE  TypeOK' /\ Shape'
<1>1. /\ analysis'.capacities = [t \in Tasks |-> IF app.capacity[t] # 0
                                   THEN app.capacity[t] ELSE analysis.capacities[t]]
      /\ Shape' /\ UNCHANGED <<analysis.timer_queue, Owning, Unplaced, Unsent>>
      /\ app' = app /\ phase' = "timer_queue"
  BY OverrideEffect
<1>2. analysis'.capacities \in [Tasks -> 0..255]
  BY <1>1, AppTyped, SMTT(30), ZenonT(30) DEF TypeOK
<1>3. todo' = Work(phase)' /\ unused' = unused
  BY <1>1, WorkFrame DEF Override, Goto
<1> QED
  BY <1>1, <1>2, <1>3, ZenonT(60) DEF TypeOK, Owning, Unplaced, Unsent

LEMMA TimerQueueTypes ==
    ASSUME TypeOK, Shape, NEW c \in Contexts, NEW t \in Tasks, TimerQueue(c, t)
    PROVE  TypeOK' /\ Shape'
<1> DEFINE tq == analysis.timer_queue
<1>1. CASE Ended("panic")
  BY <1>1, GotoTypes DEF Ended, TimerQueue, Round, Phases, Outcomes
<1>2. CASE todo' = todo \ {<<c, t>>} /\ UNCHANGED <<phase, unused>>
  <2>1. app' = app /\ phase = "timer_queue"
    BY DEF TimerQueue, Round
  <2>2. /\ analysis'.timer_queue =
                [tq EXCEPT !.capacity = Sum8(@, analysis.capacities[t]),
                           !.priority = Raised(@, app.priority[t]),
                           !.tasks = @ \cup {t}]
        /\ Shape' /\ UNCHANGED <<analysis.capacities, Owning, Unplaced, Unsent>>
    BY <1>2, <2>1, TimerQueueEffect DEF Failed
  <2>3. tq \in TimerQueueType
    BY DEF TypeOK, TimerQueueType
  <2>4. /\ tq.capacity \in 0..255 /\ tq.priority \in 0..255
        /\ analysis.capacities[t] \in 0..255 /\ app.priority[t] \in 0..255
    BY <2>3, AppTyped, SMTT(30), ZenonT(30) DEF TimerQueueType, TypeOK
  <2>5. /\ Sum8(tq.capacity, analysis.capacities[t]) \in 0..255
        /\ Raised(tq.priority, app.priority[t]) \in 0..255
    BY <2>4, Bytes, ZenonT(60)
  <2>6. analysis'.timer_queue \in TimerQueueType
    <3>1. analysis'.timer_queue = [capacity |-> Sum8(tq.capacity, analysis.capacities[t]),
                                   priority |-> Raised(tq.priority, app.priority[t]),
                                   ceiling |-> tq.ceiling, tasks |-> tq.tasks \cup {t}]
      BY <2>2, <2>3 DEF TimerQueueType
    <3>2. tq.ceiling \in 0..255 /\ tq.tasks \cup {t} \subseteq Tasks
      BY <2>3 DEF TimerQueueType
    <3> HIDE DEF tq
    <3> QED
      BY <2>5, <3>1, <3>2, SMTT(30), ZenonT(30) DEF TimerQueueType
  <2>7. app' \in AppType /\ phase' \in Phases /\ todo' \subseteq Work(phase)'
    BY <1>2, <2>1, RoundTypes
  <2>8. /\ UNCHANGED <<unused, analysis.ownerships, analysis.needs_sync>>
        /\ UNCHANGED <<analysis.capacities, analysis.dispatchers, analysis.needs_send>>
        /\ UNCHANGED <<analysis.free_queues, analysis.ready_queues>>
    BY <1>2, <2>2 DEF Owning, Unplaced, Unsent
  <2> QED
    BY <2>1, <2>2, <2>6, <2>7, <2>8, ZenonT(60) DEF TypeOK, Phases, TimerQueueType
<1> QED
  BY <1>1, <1>2 DEF TimerQueue

LEMMA DispatchTypes ==
    ASSUME TypeOK, Shape, NEW t \in Tasks, Dispatch(t)
    PROVE  TypeOK' /\ Shape'
<1> DEFINE d == analysis.dispatchers
           e == analysis'.dispatchers
           level == app.priority[t]
           size == analysis.capacities[t]
<1>1. CASE Ended("bug") \/ Ended("panic")
  BY <1>1, GotoTypes DEF Ended, Dispatch, Round, Phases, Outcomes
<1>2. ASSUME ~Ended("bug"), ~Ended("panic") PROVE TypeOK' /\ Shape'
  <2>1. PICK old \in IF level \in DOMAIN d THEN {d[level]}
                     ELSE {[interrupt |-> i, capacity |-> 0, tasks |-> {}] : i \in unused} :
         /\ todo' = todo \ {<<t>>} /\ phase' = phase
         /\ unused' = unused \ {old.interrupt}
         /\ analysis' = [analysis EXCEPT !.dispatchers =
                           [l \in DOMAIN @ \cup {level} |->
                              IF l # level THEN @[l]
                              ELSE [old EXCEPT !.capacity = Sum8(@, size),
                                               !.tasks = @ \cup {t}]]]
    BY <1>2 DEF Dispatch
  <2>2. /\ app' = app /\ phase = "dispatchers" /\ Shape'
        /\ UNCHANGED <<analysis.capacities, analysis.timer_queue, Owning, Unsent>>
    BY <2>1, DispatchEffect DEF Dispatch, Round, Failed
  <2>3. /\ \A l \in DOMAIN d : d[l] \in Dispatcher
        /\ unused \subseteq Interrupts /\ unused \subseteq app.free
        /\ DOMAIN d \subseteq 0..255
        /\ level \in 0..255 /\ size \in 0..255
    BY AppTyped, SMTT(30), ZenonT(30) DEF TypeOK
  <2>4. old \in Dispatcher
    BY <2>1, <2>3 DEF Dispatcher
  <2>5. e = [l \in DOMAIN d \cup {level} |->
                IF l # level THEN d[l]
                ELSE [old EXCEPT !.capacity = Sum8(@, size), !.tasks = @ \cup {t}]]
    BY <2>1 DEF Shape
  <2>6. [old EXCEPT !.capacity = Sum8(@, size), !.tasks = @ \cup {t}] \in Dispatcher
    <3>1. old.capacity \in 0..255
      BY <2>4 DEF Dispatcher
    <3>2. Sum8(old.capacity, size) \in 0..255
      BY <2>3, <3>1, Bytes, ZenonT(60)
    <3> HIDE DEF size
    <3> QED
      BY <2>4, <3>2, SMTT(5), ZenonT(60) DEF Dispatcher
  <2>7. /\ DOMAIN e \subseteq 0..255
        /\ \A l \in DOMAIN e : e[l] \in Dispatcher
        /\ DOMAIN d \subseteq DOMAIN e
    BY <2>3, <2>5, <2>6
  <2>8. app' \in AppType /\ phase' \in Phases /\ todo' \subseteq Work(phase)'
    BY <2>1, <2>2, RoundTypes
  <2>9. unused' \subseteq app'.free
    BY <2>1, <2>2, <2>3
  <2> QED
    BY <2>2, <2>7, <2>8, <2>9, SMTT(30), ZenonT(30) DEF TypeOK, Phases, Owning, Unsent
<1> QED
  BY <1>1, <1>2

LEMMA InitSendTypes ==
    ASSUME TypeOK, Shape, InitSend
    PROVE  TypeOK' /\ Shape'
<1> DEFINE tq == analysis.timer_queue
<1>1. /\ app' = app /\ phase' = "spawn" /\ unused' = unused
      /\ analysis'.needs_send = analysis.needs_send
            \cup app.spawn["init"] \cup app.schedule["init"]
      /\ analysis'.ready_queues = [l \in DOMAIN analysis.dispatchers |-> 0]
      /\ analysis'.timer_queue = [tq EXCEPT !.ceiling = tq.priority]
      /\ Shape' /\ UNCHANGED <<analysis.capacities, analysis.free_queues, Owning, Unplaced>>
  BY InitSendEffect DEF Unplaced
<1>2. tq \in TimerQueueType
  BY DEF TypeOK, TimerQueueType
<1>3. analysis'.timer_queue \in TimerQueueType
  <2>1. analysis'.timer_queue = [capacity |-> tq.capacity, priority |-> tq.priority,
                                 ceiling |-> tq.priority, tasks |-> tq.tasks]
    BY <1>1, <1>2 DEF TimerQueueType
  <2>2. /\ tq.capacity \in 0..255 /\ tq.priority \in 0..255 /\ tq.tasks \subseteq Tasks
    BY <1>2 DEF TimerQueueType
  <2> HIDE DEF tq
  <2> QED
    BY <2>1, <2>2 DEF TimerQueueType
<1>4. "init" \in Contexts
  BY DEF Contexts
<1>5. analysis'.needs_send \subseteq Tasks
  BY <1>1, <1>4, AppTyped DEF TypeOK
<1>6. todo' = Work(phase)'
  BY <1>1, WorkFrame DEF InitSend, Goto
<1>7. /\ analysis'.dispatchers = analysis.dispatchers
      /\ DOMAIN analysis'.ready_queues = DOMAIN analysis.dispatchers
      /\ \A l \in DOMAIN analysis'.ready_queues : analysis'.ready_queues[l] = 0
  BY <1>1 DEF Unplaced
<1>8. \A l \in DOMAIN analysis'.ready_queues : analysis'.ready_queues[l] \in 0..255
  BY <1>7, SMTT(30), ZenonT(30)
<1>9. TypeOK'
  BY <1>1, <1>3, <1>5, <1>6, <1>7, <1>8, ZenonT(60) DEF TypeOK, Owning, TimerQueueType
<1> QED
  BY <1>1, <1>9

LEMMA SpawnTypes ==
    ASSUME TypeOK, Shape, NEW c \in Contexts, NEW t \in Tasks, Spawn(c, t)
    PROVE  TypeOK' /\ Shape'
<1> DEFINE f == analysis.free_queues
           q == analysis.ready_queues
           l == app.priority[t]
<1>1. /\ app' = app /\ phase' = phase /\ todo' \subseteq todo /\ unused' = unused
      /\ Shape' /\ UNCHANGED <<analysis.capacities, analysis.timer_queue, Owning, Unplaced>>
      /\ c = "init" => UNCHANGED Unsent
      /\ c # "init" =>
           /\ analysis'.free_queues = [f EXCEPT ![t] = Raised(@, Priority(c))]
           /\ analysis'.ready_queues = [q EXCEPT ![l] = Raised(@, Priority(c))]
           /\ analysis'.needs_send = IF l # Priority(c) THEN analysis.needs_send \cup {t}
                                     ELSE analysis.needs_send
  BY SpawnEffect DEF Spawn, Round, Unplaced
<1>2. app' \in AppType /\ phase' \in Phases /\ todo' \subseteq Work(phase)'
  BY <1>1, RoundTypes
<1>3. /\ analysis'.free_queues \in [Tasks -> 0..255] /\ analysis'.needs_send \subseteq Tasks
      /\ DOMAIN analysis'.ready_queues = DOMAIN q
      /\ \A m \in DOMAIN q : analysis'.ready_queues[m] \in 0..255
  <2>1. CASE c = "init"
    BY <1>1, <2>1 DEF TypeOK, Unsent
  <2>2. CASE c # "init"
    <3>1. /\ Priority(c) \in 0..255 /\ f \in [Tasks -> 0..255]
          /\ \A m \in DOMAIN q : q[m] \in 0..255
      BY <2>2, AppTyped, SMTT(30), ZenonT(30) DEF TypeOK
    <3>2. \A a \in 0..255 : Raised(a, Priority(c)) \in 0..255
      BY <3>1, Bytes, ZenonT(60)
    <3>3. analysis'.free_queues \in [Tasks -> 0..255]
      <4>1. Raised(f[t], Priority(c)) \in 0..255
        BY <3>1, <3>2, ZenonT(60)
      <4> QED
        BY <1>1, <2>2, <3>1, <4>1, SMTT(30), ZenonT(30)
    <3>4. analysis'.needs_send \subseteq Tasks
      BY <1>1, <2>2 DEF TypeOK
    <3>5. q = [m \in DOMAIN q |-> q[m]]
      BY DEF Shape
    <3>6. DOMAIN analysis'.ready_queues = DOMAIN q
      BY <1>1, <2>2
    <3>7. ASSUME NEW m \in DOMAIN q PROVE analysis'.ready_queues[m] \in 0..255
      <4>1. q[m] \in 0..255 /\ Raised(q[m], Priority(c)) \in 0..255
        BY <3>1, <3>2, ZenonT(60)
      <4>2. analysis'.ready_queues[m] = IF m = l THEN Raised(q[m], Priority(c)) ELSE q[m]
        BY <1>1, <2>2, <3>5
      <4> QED
        BY <4>1, <4>2, SMTT(30), ZenonT(30)
    <3> QED
      BY <3>3, <3>4, <3>6, <3>7
  <2> QED
    BY <2>1, <2>2
<1> QED
  BY <1>1, <1>2, <1>3, SMTT(30), ZenonT(30) DEF TypeOK, Phases, Owning, Unplaced

LEMMA ScheduleTypes ==
    ASSUME TypeOK, Shape, NEW c \in Contexts, NEW t \in Tasks, Schedule(c, t)
    PROVE  TypeOK' /\ Shape'
<1> DEFINE f == analysis.free_queues
           tq == analysis.timer_queue
<1>1. /\ app' = app /\ phase' = phase /\ todo' \subseteq todo /\ unused' = unused
      /\ Shape' /\ UNCHANGED <<analysis.capacities, analysis.needs_send,
                               analysis.ready_queues, Owning, Unplaced>>
      /\ c = "init" => UNCHANGED <<f, tq>>
      /\ c # "init" =>
           /\ analysis'.free_queues = [f EXCEPT ![t] = Raised(@, Priority(c))]
           /\ analysis'.timer_queue = [tq EXCEPT !.ceiling = Raised(@, Priority(c))]
  BY ScheduleEffect DEF Schedule, Round, Unplaced
<1>2. app' \in AppType /\ phase' \in Phases /\ todo' \subseteq Work(phase)'
  BY <1>1, RoundTypes
<1>3. tq \in TimerQueueType
  BY DEF TypeOK, TimerQueueType
<1>4. analysis'.free_queues \in [Tasks -> 0..255] /\ analysis'.timer_queue \in TimerQueueType
  <2>1. CASE c = "init"
    BY <1>1, <1>3, <2>1 DEF TypeOK
  <2>2. CASE c # "init"
    <3>1. Priority(c) \in 0..255 /\ f \in [Tasks -> 0..255]
      BY <2>2, AppTyped, SMTT(30), ZenonT(30) DEF TypeOK
    <3>2. \A a \in 0..255 : Raised(a, Priority(c)) \in 0..255
      BY <3>1, Bytes, ZenonT(60)
    <3>3. analysis'.free_queues \in [Tasks -> 0..255]
      <4>1. Raised(f[t], Priority(c)) \in 0..255
        BY <3>1, <3>2, ZenonT(60)
      <4> QED
        BY <1>1, <2>2, <3>1, <4>1
    <3>4. analysis'.timer_queue = [capacity |-> tq.capacity, priority |-> tq.priority,
                                   ceiling |-> Raised(tq.ceiling, Priority(c)),
                                   tasks |-> tq.tasks]
      BY <1>1, <1>3, <2>2 DEF TimerQueueType
    <3>5. /\ tq.capacity \in 0..255 /\ tq.priority \in 0..255 /\ tq.ceiling \in 0..255
          /\ tq.tasks \subseteq Tasks
      BY <1>3 DEF TimerQueueType
    <3>6. analysis'.timer_queue \in TimerQueueType
      <4>1. Raised(tq.ceiling, Priority(c)) \in 0..255
        BY <3>2, <3>5, ZenonT(60)
      <4> HIDE DEF tq
      <4> QED
        BY <3>4, <3>5, <4>1, SMTT(30), ZenonT(30) DEF TimerQueueType
    <3> QED
      BY <3>3, <3>6
  <2> QED
    BY <2>1, <2>2
<1> QED
  BY <1>1, <1>2, <1>4, SMTT(30), ZenonT(30) DEF TypeOK, Phases, Owning, Unplaced, TimerQueueType

LEMMA TypesStep ==
    ASSUME TypeOK, Shape, [Next]_vars
    PROVE  TypeOK' /\ Shape'
<1>1. CASE Check
  BY <1>1, GotoTypes DEF Check, Phases, Outcomes
<1>2. CASE EndOfLoop
  <2>1. phase \in DOMAIN Following /\ Following[phase] \in Phases
    BY <1>2 DEF EndOfLoop, Following, Phases
  <2> QED
    BY <1>2, <2>1, GotoTypes DEF EndOfLoop
<1>3. CASE Codegen
  BY <1>3, GotoTypes DEF Codegen, Ended, Phases, Outcomes
<1>4. CASE Expanded \/ UNCHANGED vars
  BY <1>4, SMTT(30), ZenonT(30) DEF Expanded, vars, TypeOK, Shape, Work, Accesses, SpawnCalls, ScheduleCalls
<1> QED
  BY <1>1, <1>2, <1>3, <1>4, OverrideTypes, InitSendTypes, AccessTypes, CountTypes,
     TimerQueueTypes, SpawnTypes, ScheduleTypes, DispatchTypes DEF Next

-----------------------------------------------------------------------------
(* The invariant is inductive.                                             *)

Parts == /\ OwnershipsOK /\ TimerOK /\ FreeOK /\ ReadyOK
         /\ DispatchersOK /\ UnusedOK /\ SendOK

LEMMA InitInv == Init => IInv
<1> SUFFICES ASSUME Init PROVE IInv
  OBVIOUS
<1> USE DEF Init
<1>1. app \in AppType
  BY AppsAssumption
<1>2. /\ Looked = {} /\ Timed = {} /\ Placed = {} /\ Spawned = {} /\ Scheduled = {}
      /\ ~InitSent
  BY DEF Looked, Timed, Placed, Spawned, Scheduled, InitSent, Handled, Looking, Timing,
         Sending
<1>3. TypeOK
  BY <1>1, AppTyped DEF TypeOK, Work, Ownership, Nobody, Empty
<1>4. Shape
  BY DEF Shape, Empty
<1>5. OwnershipsOK
  BY <1>2 DEF OwnershipsOK, OwnershipOK, Seen, Nobody
<1>6. TimerOK /\ FreeOK /\ ReadyOK /\ SendOK
  BY <1>2 DEF TimerOK, FreeOK, ReadyOK, SendOK
<1>7. DispatchersOK
  BY <1>2 DEF DispatchersOK, Empty
<1>8. UnusedOK
  <2>1. app.free \in SUBSET Interrupts /\ IsFiniteSet(Interrupts)
    BY <1>1, AppTyped, NamesAssumption
  <2>2. IsFiniteSet(app.free)
    BY <2>1, FS_Subset
  <2>3. Cardinality(app.free) \in Nat
    BY <2>2, FS_CardinalityType
  <2>4. DOMAIN analysis.dispatchers = {} /\ unused = app.free
    BY DEF Empty
  <2>5. Cardinality({}) = 0
    BY FS_EmptySet
  <2> QED
    BY <2>3, <2>4, <2>5 DEF UnusedOK
<1> QED
  BY <1>3, <1>4, <1>5, <1>6, <1>7, <1>8 DEF IInv

(* Nothing that the invariant speaks of has changed.                       *)
LEMMA PartsFrame ==
    ASSUME Parts, UNCHANGED <<app, analysis, unused, progress>>
    PROVE  Parts'
BY OwnershipsFrame, TimerFrame, FreeFrame, ReadyFrame, DispatchersFrame, SendFrame
   DEF Parts, progress, Owning, Unplaced

LEMMA StepParts ==
    ASSUME TypeOK, Shape, Parts, phase \notin Failed, phase' \notin Failed, [Next]_vars
    PROVE  Parts'
<1> USE DEF Parts
<1>1. CASE Check
  BY <1>1, CheckEffect, PartsFrame
<1>2. CASE EndOfLoop
  BY <1>2, EndOfLoopEffect, PartsFrame
<1>3. CASE Codegen
  BY <1>3, CodegenEffect, PartsFrame
<1>4. CASE Expanded \/ UNCHANGED vars
  <2>1. UNCHANGED vars
    BY <1>4 DEF Expanded
  <2>2. UNCHANGED <<app, analysis, unused, progress>>
    BY <2>1 DEF vars, progress, Looked, Timed, Placed, Spawned, Scheduled, InitSent,
                Handled, Work, Accesses, SpawnCalls, ScheduleCalls
  <2> QED
    BY <2>2, PartsFrame
<1>5. CASE Override
  BY <1>5, OverrideEffect, OwnershipsFrame, TimerFrame, FreeFrame, ReadyFrame,
     DispatchersFrame, SendFrame DEF progress, Unplaced, Unsent
<1>6. ASSUME NEW c \in Contexts, NEW t \in Tasks,
             NEW pass \in {"spawn_counts", "schedule_counts"}, Count(pass, c, t)
      PROVE  Parts'
  BY <1>6, CountEffect, OwnershipsFrame, TimerFrame, FreeFrame, ReadyFrame,
     DispatchersFrame, SendFrame DEF progress, Unplaced, Unsent
<1>7. ASSUME NEW c \in Contexts, NEW r \in Resources, Access(c, r) PROVE Parts'
  BY <1>7, AccessEffect, AccessOwnerships, TimerFrame, FreeFrame, ReadyFrame,
     DispatchersFrame, SendFrame DEF Unplaced, Unsent
<1>8. ASSUME NEW c \in Contexts, NEW t \in Tasks, TimerQueue(c, t) PROVE Parts'
  BY <1>8, TimerQueueEffect, TimerQueueTimer, OwnershipsFrame, FreeFrame, ReadyFrame,
     DispatchersFrame, SendFrame DEF Unplaced, Unsent
<1>9. ASSUME NEW t \in Tasks, Dispatch(t) PROVE Parts'
  BY <1>9, DispatchEffect, DispatchDispatchers, DispatchUnused, DispatchReady,
     OwnershipsFrame, TimerFrame, FreeFrame, SendFrame DEF Unsent
<1>10. CASE InitSend
  <2>1. FreeOK'
    BY <1>10, InitSendEffect, FreeFrame
  <2> QED
    BY <1>10, <2>1, InitSendEffect, InitSendTimer, InitSendReady, InitSendSend,
       OwnershipsFrame, DispatchersFrame
<1>11. ASSUME NEW c \in Contexts, NEW t \in Tasks, Spawn(c, t) PROVE Parts'
  BY <1>11, SpawnEffect, SendFree, SpawnReady, SpawnSend, OwnershipsFrame, TimerFrame,
     DispatchersFrame
<1>12. ASSUME NEW c \in Contexts, NEW t \in Tasks, Schedule(c, t) PROVE Parts'
  BY <1>12, ScheduleEffect, ScheduleTimerQueue, SendFree, OwnershipsFrame, ReadyFrame,
     DispatchersFrame, SendFrame DEF Unplaced
<1> QED
  BY <1>1, <1>2, <1>3, <1>4, <1>5, <1>6, <1>7, <1>8, <1>9, <1>10, <1>11, <1>12 DEF Next

(* An application that got past the check stays valid; the macro ends in   *)
(* no other way than the three.                                            *)
LEMMA StepValid ==
    ASSUME TypeOK, phase \notin {"check"} \cup Failed => Valid, [Next]_vars,
           phase' \notin {"check"} \cup Failed
    PROVE  Valid'
<1>1. app' = app
  BY ZenonT(60) DEF Next, Check, EndOfLoop, Override, InitSend, Codegen, Expanded, Ended, Access,
         Count, TimerQueue, Spawn, Schedule, Dispatch, Round, vars
<1>2. CASE phase = "check"
  <2>1. Check \/ UNCHANGED vars
    BY <1>2 DEF Next, EndOfLoop, Following, Override, InitSend, Codegen, Expanded,
                Outcomes, Access, Count, TimerQueue, Spawn, Schedule, Dispatch, Round
  <2>2. Valid
    BY <1>2, <2>1, CheckEffect DEF vars, Failed
  <2> QED
    BY <1>1, <2>2, ValidFrame
<1>3. CASE phase \in Failed
  BY <1>3, ZenonT(40) DEF Next, Check, EndOfLoop, Following, Override, InitSend, Codegen, Expanded,
              Failed, Outcomes, Access, Count, TimerQueue, Spawn, Schedule, Dispatch,
              Round, vars
<1> QED
  BY <1>1, <1>2, <1>3, ValidFrame, SMTT(30), ZenonT(30)

LEMMA StepNoBug ==
    ASSUME TypeOK, Parts, phase # "bug",
           phase \notin {"check"} \cup Failed => Valid, [Next]_vars
    PROVE  phase' # "bug"
<1>1. ASSUME NEW c \in Contexts, NEW t \in Tasks,
             NEW pass \in {"spawn_counts", "schedule_counts"}, Count(pass, c, t)
      PROVE  phase' # "bug"
  BY <1>1, CountNoBug DEF Count, Round, Failed
<1>2. ASSUME NEW t \in Tasks, Dispatch(t) PROVE phase' # "bug"
  BY <1>2, DispatchNoBug DEF Parts, Dispatch, Round, Failed
<1>3. CASE Check \/ EndOfLoop \/ Override \/ InitSend \/ Codegen \/ Expanded
           \/ UNCHANGED vars
  BY <1>3 DEF Check, EndOfLoop, Following, Override, InitSend, Codegen, Expanded, Goto,
              Ended, vars
<1>4. ASSUME NEW c \in Contexts, NEW r \in Resources, Access(c, r) PROVE phase' # "bug"
  BY <1>4 DEF Access, Round
<1>5. ASSUME NEW c \in Contexts, NEW t \in Tasks,
             TimerQueue(c, t) \/ Spawn(c, t) \/ Schedule(c, t)
      PROVE  phase' # "bug"
  BY <1>5 DEF TimerQueue, Spawn, Schedule, Round, Ended, Goto
<1> QED
  BY <1>1, <1>2, <1>3, <1>4, <1>5 DEF Next

(* Once the macro has failed it stays so.                                  *)
LEMMA FailedStays == ASSUME phase \in Failed, [Next]_vars PROVE phase' \in Failed
BY ZenonT(60) DEF Next, Check, EndOfLoop, Following, Override, InitSend, Codegen, Expanded, Failed,
       Outcomes, Access, Count, TimerQueue, Spawn, Schedule, Dispatch, Round, vars

LEMMA StepInv == ASSUME IInv, [Next]_vars PROVE IInv'
<1>1. TypeOK' /\ Shape'
  BY TypesStep DEF IInv
<1>2. CASE phase \in Failed
  <2>1. phase' \in Failed
    BY <1>2, FailedStays
  <2>2. phase' = phase
    BY <1>2, ZenonT(40) DEF Next, Check, EndOfLoop, Following, Override, InitSend, Codegen, Expanded,
         Failed, Access, Count, TimerQueue, Spawn, Schedule, Dispatch, Round, vars
  <2> QED
    BY <1>1, <1>2, <2>1, <2>2 DEF IInv
<1>3. CASE phase \notin Failed
  <2>1. Parts /\ TypeOK /\ Shape /\ (phase # "check" => Valid)
    BY <1>3 DEF IInv, Parts
  <2>2. phase' # "bug"
    BY <2>1, StepNoBug DEF Failed, IInv
  <2>3. phase' \notin Failed => Parts'
    BY <1>3, <2>1, StepParts
  <2>4. phase' \notin {"check"} \cup Failed => Valid'
    BY <2>1, StepValid
  <2> QED
    BY <1>1, <2>2, <2>3, <2>4 DEF IInv, Parts
<1> QED
  BY <1>2, <1>3

(* The analysis so far is right about what its passes have handled.        *)
THEOREM AnalyzeInductive == Spec => []IInv
BY InitInv, StepInv, PTL DEF Spec

-----------------------------------------------------------------------------
(* When the macro returns tokens, every item has been handled.             *)
LEMMA AllHandled ==
    ASSUME IInv, phase = "done"
    PROVE  /\ Valid /\ Parts /\ InitSent
           /\ Looked = Accesses /\ Timed = ScheduleCalls
           /\ Spawned = SpawnCalls /\ Scheduled = ScheduleCalls
           /\ Placed = app.tasks
BY DEF IInv, Parts, Failed, InitSent, Looked, Timed, Placed, Spawned, Scheduled, Handled,
       Work, Looking, Timing, Sending

LEMMA AllSeen ==
    ASSUME IInv, phase = "done", NEW r \in Resources
    PROVE  Seen(r) = Users(r)
BY AllHandled DEF Seen, Users, Accesses

(* The compile-time values have the types of Analysis.                     *)
THEOREM AnalyzeTypes == Spec => []TypeOK
<1>1. IInv => TypeOK
  BY DEF IInv
<1> QED
  BY <1>1, AnalyzeInductive, PTL

(* The ceilings are right for any number of users at any priorities, in    *)
(* whatever order the accesses come.                                       *)
THEOREM Ceilings == Spec => []CeilingsExact
<1>1. ASSUME IInv, phase = "done", NEW r \in app.mutable, NEW c \in Users(r)
      PROVE  LET own == analysis.ownerships[r]
             IN /\ \A d \in Users(r) : Priority(c) < Priority(d) =>
                      NeedsLock(own, Priority(c)) /\ own.ceiling >= Priority(d)
                /\ NeedsLock(own, Priority(c)) =>
                      \E d \in Users(r) : Priority(d) = own.ceiling
  <2> DEFINE own == analysis.ownerships[r]
  <2>1. r \in Resources /\ app \in AppType /\ own \in Ownership
    BY <1>1, AppTyped DEF IInv, TypeOK
  <2>2. OwnershipOK(r) /\ Seen(r) = Users(r)
    BY <1>1, <2>1, AllHandled, AllSeen DEF Parts, OwnershipsOK
  <2>3. own.kind \in {"none", "owned", "shared"} /\ own.ceiling \in 0..255
    BY <2>1 DEF Ownership
  <2>4. own.kind # "none"
    BY <1>1, <2>2 DEF OwnershipOK
  <2>5. /\ \A d \in Users(r) : Priority(d) <= own.ceiling
        /\ \E d \in Users(r) : Priority(d) = own.ceiling
        /\ own.kind = "owned" => \A d \in Users(r) : Priority(d) = own.ceiling
    BY <2>2, <2>4 DEF OwnershipOK
  <2>6. \A d \in Users(r) : Priority(d) \in 0..255
    BY <2>1, AppTyped DEF Users
  <2>7. ASSUME NEW d \in Users(r), Priority(c) < Priority(d)
        PROVE  NeedsLock(own, Priority(c)) /\ own.ceiling >= Priority(d)
    <3>1. /\ Priority(c) \in 0..255 /\ Priority(d) \in 0..255
          /\ Priority(c) <= own.ceiling /\ Priority(d) <= own.ceiling
          /\ own.kind = "owned" =>
                Priority(c) = own.ceiling /\ Priority(d) = own.ceiling
      BY <1>1, <2>5, <2>6
    <3> HIDE DEF own
    <3>2. own.kind # "owned"
      BY <2>7, <3>1, SMTT(30), ZenonT(30)
    <3>3. Priority(c) < own.ceiling
      BY <2>3, <2>7, <3>1, BelowTransitive, ZenonT(60)
    <3> QED
      BY <2>3, <2>4, <3>1, <3>2, <3>3 DEF NeedsLock
  <2> QED
    BY <2>5, <2>7
<1>2. IInv => CeilingsExact
  BY <1>1 DEF CeilingsExact, Expands
<1> QED
  BY <1>2, AnalyzeInductive, PTL

(* Sync is asked for exactly where priorities differ.                      *)
THEOREM Syncs == Spec => []SyncExact
<1>1. ASSUME IInv, phase = "done", NEW r \in Resources
      PROVE  r \in analysis.needs_sync <=>
               /\ r \notin app.mutable
               /\ \E c, d \in Users(r) : Priority(c) # Priority(d)
  <2> DEFINE own == analysis.ownerships[r]
  <2>1. OwnershipOK(r) /\ Seen(r) = Users(r)
    BY <1>1, AllHandled, AllSeen DEF Parts, OwnershipsOK
  <2>2. own.kind \in {"none", "owned", "shared"}
    BY <1>1 DEF IInv, TypeOK, Ownership
  <2>3. own.kind = "shared" <=> \E c, d \in Users(r) : Priority(c) # Priority(d)
    BY <2>1, <2>2 DEF OwnershipOK
  <2> QED
    BY <2>1, <2>3 DEF OwnershipOK
<1>2. IInv => SyncExact
  BY <1>1 DEF SyncExact, Expands
<1> QED
  BY <1>2, AnalyzeInductive, PTL

LEMMA CallersTyped ==
    ASSUME TypeOK, NEW calls, NEW t, NEW p \in Callers(calls, t)
    PROVE  p \in 0..255
<1>1. app \in AppType
  BY DEF TypeOK
<1>2. PICK d \in Contexts \ {"init"} : p = Priority(d)
  BY DEF Callers
<1> QED
  BY <1>1, <1>2, AppTyped

(* A ceiling that covers every priority excludes every pair.               *)
LEMMA CoverExcludes ==
    ASSUME NEW S, NEW ceiling, \A p \in S : p <= ceiling, ceiling \in 0..255,
           S \subseteq 0..255
    PROVE  Excluded(S, ceiling)
<1>1. ASSUME NEW q \in S PROVE ceiling >= q
  <2>1. q \in 0..255 /\ q <= ceiling
    OBVIOUS
  <2> QED
    BY <2>1
<1> QED
  BY <1>1 DEF Excluded

(* Spawners and schedulers of a task share its free queue safely.          *)
THEOREM FreeQueues == Spec => []FreeQueuesExclude
<1>1. ASSUME IInv, phase = "done", NEW t \in app.tasks
      PROVE  Excluded(Callers(SpawnCalls \cup ScheduleCalls, t), analysis.free_queues[t])
  <2>1. t \in Tasks /\ TypeOK /\ analysis.free_queues[t] \in 0..255
    BY <1>1, AppTyped DEF IInv, TypeOK
  <2>2. \A p \in Callers(SpawnCalls \cup ScheduleCalls, t) : p <= analysis.free_queues[t]
    BY <1>1, <2>1, AllHandled DEF Parts, FreeOK, Callers
  <2>3. Callers(SpawnCalls \cup ScheduleCalls, t) \subseteq 0..255
    BY <2>1, CallersTyped
  <2> QED
    BY <2>1, <2>2, <2>3, CoverExcludes
<1>2. IInv => FreeQueuesExclude
  BY <1>1 DEF FreeQueuesExclude, Expands
<1> QED
  BY <1>2, AnalyzeInductive, PTL

(* Spawners of the tasks of a level share its ready queue safely.          *)
THEOREM ReadyQueues == Spec => []SpawnersExclude
<1>1. ASSUME IInv, phase = "done", NEW l \in DOMAIN analysis.dispatchers
      PROVE  Excluded(Spawners(l), analysis.ready_queues[l])
  <2> DEFINE d == analysis.dispatchers
  <2>1. TypeOK /\ Parts /\ app \in AppType
    BY <1>1, AllHandled DEF IInv, TypeOK
  <2>2. DOMAIN analysis.ready_queues = DOMAIN d
    BY <1>1, AllHandled DEF Parts, ReadyOK
  <2>3. analysis.ready_queues[l] \in 0..255
    BY <1>1, <2>1, <2>2 DEF TypeOK
  <2>4. d[l].tasks = {t \in app.tasks : app.priority[t] = l}
    BY <1>1, AllHandled DEF Parts, DispatchersOK
  <2>5. ASSUME NEW p \in Spawners(l)
        PROVE  p <= analysis.ready_queues[l] /\ p \in 0..255
    <3>1. PICK t \in d[l].tasks : p \in Callers(SpawnCalls, t)
      BY <2>5 DEF Spawners
    <3>2. t \in Tasks /\ app.priority[t] = l
      BY <2>1, <2>4, <3>1, AppTyped
    <3>3. p <= analysis.ready_queues[l]
      BY <1>1, <3>1, <3>2, AllHandled DEF Parts, ReadyOK, Callers
    <3> QED
      BY <2>1, <3>1, <3>3, CallersTyped
  <2>6. Spawners(l) \subseteq 0..255 /\ \A p \in Spawners(l) : p <= analysis.ready_queues[l]
    BY <2>5
  <2> QED
    BY <2>3, <2>6, CoverExcludes
<1>2. IInv => SpawnersExclude
  BY <1>1 DEF SpawnersExclude, Expands
<1> QED
  BY <1>2, AnalyzeInductive, PTL

(* SysTick and schedulers share the timer queue safely.                    *)
THEOREM TimerQueues == Spec => []TimerQueueExcludes
<1>1. ASSUME IInv, phase = "done", NEW t \in app.tasks, NEW c \in Contexts,
             <<c, t>> \in ScheduleCalls
      PROVE  LET tq == analysis.timer_queue
             IN /\ t \in tq.tasks
                /\ tq.priority >= app.priority[t]
                /\ Excluded(Callers(ScheduleCalls, t) \cup {tq.priority}, tq.ceiling)
  <2> DEFINE tq == analysis.timer_queue
  <2>1. t \in Tasks /\ TypeOK /\ Parts /\ app.priority[t] \in 0..255
    BY <1>1, AllHandled, AppTyped DEF IInv, TypeOK
  <2>2. tq.priority \in 0..255 /\ tq.ceiling \in 0..255
    BY <2>1 DEF TypeOK
  <2>3. t \in tq.tasks /\ app.priority[t] <= tq.priority /\ tq.priority <= tq.ceiling
    BY <1>1, <2>1, AllHandled DEF Parts, TimerOK
  <2>4. \A p \in Callers(ScheduleCalls, t) : p <= tq.ceiling
    BY <1>1, <2>1, AllHandled DEF Parts, TimerOK, Callers
  <2>5. Callers(ScheduleCalls, t) \subseteq 0..255
    BY <2>1, CallersTyped
  <2> HIDE DEF tq
  <2>6. Excluded(Callers(ScheduleCalls, t) \cup {tq.priority}, tq.ceiling)
    BY <2>2, <2>3, <2>4, <2>5, CoverExcludes
  <2>7. tq.priority >= app.priority[t]
    BY <2>1, <2>2, <2>3
  <2> QED
    BY <2>3, <2>6, <2>7 DEF tq
<1>2. IInv => TimerQueueExcludes
  BY <1>1 DEF TimerQueueExcludes, Expands
<1> QED
  BY <1>2, AnalyzeInductive, PTL

(* Every task has one dispatcher, and each dispatcher its own interrupt.   *)
THEOREM Dispatchers == Spec => []DispatchersApart
<1>1. ASSUME IInv, phase = "done"
      PROVE  LET d == analysis.dispatchers
             IN /\ \A t \in app.tasks : \A l \in DOMAIN d :
                      t \in d[l].tasks <=> l = app.priority[t]
                /\ {app.priority[t] : t \in app.tasks} = DOMAIN d
                /\ \A l, m \in DOMAIN d : d[l].interrupt = d[m].interrupt => l = m
                /\ \A l \in DOMAIN d : d[l].interrupt \notin app.handlers
  <2> DEFINE d == analysis.dispatchers
  <2>1. DispatchersOK /\ Valid /\ Placed = app.tasks /\ app \in AppType
    BY <1>1, AllHandled DEF Parts, IInv, TypeOK
  <2>2. ASSUME NEW l \in DOMAIN d PROVE d[l].interrupt \notin app.handlers
    <3>1. d[l].interrupt \in app.free /\ app.free \subseteq Interrupts
      BY <2>1, AppTyped DEF DispatchersOK
    <3> QED
      BY <2>1, <3>1, NamesAssumption DEF Valid
  <2> QED
    BY <2>1, <2>2 DEF DispatchersOK
<1>2. IInv => DispatchersApart
  BY <1>1 DEF DispatchersApart, Expands
<1> QED
  BY <1>2, AnalyzeInductive, PTL

(* Send is asserted wherever a message comes from init or crosses          *)
(* priorities by spawn, and nowhere that none crosses at all.              *)
THEOREM Sends == Spec => []SendAsserted
<1>1. ASSUME IInv, phase = "done", NEW t \in Tasks
      PROVE  t \in analysis.needs_send <=> FromInit(t) \/ Crosses(SpawnCalls, t)
  <2>1. SendOK /\ InitSent /\ Spawned = SpawnCalls
    BY <1>1, AllHandled DEF Parts
  <2> QED
    BY <2>1 DEF SendOK, Callers, FromInit, Crosses
<1>2. \A t : Crosses(SpawnCalls, t) => Crosses(SpawnCalls \cup ScheduleCalls, t)
  BY DEF Crosses, Callers
<1>3. IInv => SendAsserted
  BY <1>1, <1>2 DEF SendAsserted, Expands
<1> QED
  BY <1>3, AnalyzeInductive, PTL

(* An application that passes check::app reaches no expect("BUG: ..").     *)
THEOREM CheckSuffices == Spec => []NoBug
<1>1. IInv => NoBug
  BY DEF IInv, NoBug
<1> QED
  BY <1>1, AnalyzeInductive, PTL

-----------------------------------------------------------------------------
(* The sizes of the queues.  They are sums of the capacities of tasks, and *)
(* an overflow check is what keeps them from coming out short.             *)

LEMMA Interval ==
    ASSUME NEW n \in 0..255
    PROVE  IsFiniteSet(1..n) /\ Cardinality(1..n) = n
<1>1. 1 \in Int /\ n \in Int /\ (IF 1 > n THEN 0 ELSE n - 1 + 1) = n
  OBVIOUS
<1> QED
  BY <1>1, FS_Interval

(* The messages of one task.                                               *)
LEMMA Inputs ==
    ASSUME NEW t, NEW n \in 0..255
    PROVE  IsFiniteSet({t} \X (1..n)) /\ Cardinality({t} \X (1..n)) = n
<1>1. IsFiniteSet({t}) /\ Cardinality({t}) = 1
  BY FS_Singleton
<1>2. IsFiniteSet(1..n) /\ Cardinality(1..n) = n
  BY Interval, ZenonT(30)
<1>3. IsFiniteSet({t} \X (1..n)) /\ Cardinality({t} \X (1..n)) = 1 * n
  BY <1>1, <1>2, FS_Product
<1>4. 1 * n = n
  OBVIOUS
<1> QED
  BY <1>3, <1>4

(* Two sets are together no larger than their sizes added.                 *)
LEMMA UnionSize ==
    ASSUME NEW S, NEW T, IsFiniteSet(S), IsFiniteSet(T)
    PROVE  /\ IsFiniteSet(S \cup T)
           /\ Cardinality(S \cup T) \in Nat
           /\ Cardinality(S \cup T) <= Cardinality(S) + Cardinality(T)
<1>1. /\ IsFiniteSet(S \cup T)
      /\ Cardinality(S \cup T) = Cardinality(S) + Cardinality(T) - Cardinality(S \cap T)
  BY FS_Union
<1>2. IsFiniteSet(S \cap T)
  BY FS_Intersection
<1>3. /\ Cardinality(S) \in Nat /\ Cardinality(T) \in Nat
      /\ Cardinality(S \cap T) \in Nat /\ Cardinality(S \cup T) \in Nat
  BY <1>1, <1>2, FS_CardinalityType
<1> QED
  BY <1>1, <1>3

FitsIn(tasks, capacity) == IsFiniteSet(Messages(tasks)) /\ Fits(tasks, capacity)

LEMMA NoMessages == ASSUME NEW n \in 0..255 PROVE FitsIn({}, n)
<1>1. Messages({}) = {}
  BY DEF Messages
<1>2. IsFiniteSet({}) /\ Cardinality({}) = 0
  BY FS_EmptySet
<1> QED
  BY <1>1, <1>2 DEF FitsIn, Fits

(* Room for one more task.                                                 *)
LEMMA FitsMore ==
    ASSUME NEW S, NEW t, NEW n \in 0..255, FitsIn(S, n),
           analysis.capacities[t] \in 0..255
    PROVE  FitsIn(S \cup {t}, n + analysis.capacities[t])
<1> DEFINE size == analysis.capacities[t]
           new == {t} \X (1..size)
<1>1. Messages(S \cup {t}) = Messages(S) \cup new
  BY DEF Messages
<1>2. IsFiniteSet(new) /\ Cardinality(new) = size
  BY Inputs, ZenonT(30)
<1>3. IsFiniteSet(Messages(S)) /\ Cardinality(Messages(S)) <= n
  BY DEF FitsIn, Fits
<1> HIDE DEF new
<1>4. /\ IsFiniteSet(Messages(S) \cup new)
      /\ Cardinality(Messages(S) \cup new) \in Nat
      /\ Cardinality(Messages(S) \cup new) <= Cardinality(Messages(S)) + Cardinality(new)
  BY <1>2, <1>3, UnionSize
<1>5. Cardinality(Messages(S)) \in Nat
  BY <1>3, FS_CardinalityType
<1>6. Cardinality(Messages(S) \cup new) <= n + size
  BY <1>2, <1>3, <1>4, <1>5
<1> QED
  BY <1>1, <1>4, <1>6 DEF FitsIn, Fits

(* Passes that run while capacities are still counted.                     *)
Counting == {"check", "ownerships", "spawn_counts", "schedule_counts", "override"}

(* While capacities change no queue has been sized; afterwards each one    *)
(* has room for the messages of the tasks it serves so far.                *)
SizesOK ==
    LET tq == analysis.timer_queue
        d  == analysis.dispatchers
    IN /\ phase \in Counting => tq.tasks = {} /\ DOMAIN d = {}
       /\ FitsIn(tq.tasks, tq.capacity)
       /\ \A l \in DOMAIN d : FitsIn(d[l].tasks, d[l].capacity)

RoomInv == phase \notin Failed => SizesOK

LEMMA InitRoom == Init => RoomInv
<1> SUFFICES ASSUME Init PROVE SizesOK
  BY DEF RoomInv
<1>1. /\ analysis.timer_queue.tasks = {} /\ analysis.timer_queue.capacity = 0
      /\ DOMAIN analysis.dispatchers = {}
  BY DEF Init, Empty
<1>2. FitsIn({}, 0)
  BY NoMessages
<1> QED
  BY <1>1, <1>2 DEF SizesOK

LEMMA SizesFrame ==
    ASSUME SizesOK, phase' \in Counting => phase \in Counting,
           UNCHANGED <<analysis.capacities, analysis.timer_queue.tasks,
                       analysis.timer_queue.capacity, analysis.dispatchers>>
    PROVE  SizesOK'
BY DEF SizesOK, FitsIn, Fits, Messages

(* As long as no queue has been sized, any capacities do.                  *)
LEMMA SizesUnset ==
    ASSUME TypeOK, SizesOK, phase \in Counting,
           UNCHANGED <<analysis.timer_queue, analysis.dispatchers>>
    PROVE  SizesOK'
<1>1. /\ analysis'.timer_queue.tasks = {} /\ analysis'.timer_queue.capacity \in 0..255
      /\ DOMAIN analysis'.dispatchers = {}
  BY DEF SizesOK, TypeOK
<1>2. Messages({})' = {} /\ IsFiniteSet({}) /\ Cardinality({}) = 0
  BY FS_EmptySet DEF Messages
<1>3. 0 <= analysis'.timer_queue.capacity
  BY <1>1
<1> QED
  BY <1>1, <1>2, <1>3 DEF SizesOK, FitsIn, Fits

(* Without an overflow the sum of two bytes is their sum.                  *)
LEMMA CheckedSum ==
    ASSUME NEW a \in 0..255, NEW b \in 0..255, OverflowChecks, ~Overflows(a, b)
    PROVE  Sum8(a, b) = a + b
BY DEF Sum8, Overflows

LEMMA TimerQueueSizes ==
    ASSUME OverflowChecks, TypeOK, Shape, SizesOK, NEW c \in Contexts, NEW t \in Tasks,
           TimerQueue(c, t), phase' \notin Failed
    PROVE  SizesOK'
<1> DEFINE tq == analysis.timer_queue
           size == analysis.capacities[t]
<1>1. /\ analysis'.timer_queue = [tq EXCEPT !.capacity = Sum8(@, size),
                                            !.priority = Raised(@, app.priority[t]),
                                            !.tasks = @ \cup {t}]
      /\ analysis'.capacities = analysis.capacities
      /\ analysis'.dispatchers = analysis.dispatchers
  BY TimerQueueEffect DEF Unplaced
<1>2. phase = "timer_queue" /\ phase' = phase /\ ~Overflows(tq.capacity, size)
  BY DEF TimerQueue, Round, Ended, Goto, Failed
<1>3. tq.capacity \in 0..255 /\ size \in 0..255 /\ tq \in TimerQueueType
  BY DEF TypeOK, TimerQueueType
<1>4. /\ analysis'.timer_queue.tasks = tq.tasks \cup {t}
      /\ analysis'.timer_queue.capacity = tq.capacity + size
  <2>1. Sum8(tq.capacity, size) = tq.capacity + size
    BY <1>2, <1>3, CheckedSum, ZenonT(30)
  <2> QED
    BY <1>1, <1>3, <2>1 DEF TimerQueueType
<1>5. FitsIn(tq.tasks \cup {t}, tq.capacity + size)
  BY <1>3, FitsMore, ZenonT(30) DEF SizesOK
<1>6. \A S, n : FitsIn(S, n)' <=> FitsIn(S, n)
  BY <1>1 DEF FitsIn, Fits, Messages
<1> QED
  BY <1>1, <1>2, <1>4, <1>5, <1>6 DEF SizesOK, Counting

LEMMA DispatchSizes ==
    ASSUME OverflowChecks, TypeOK, Shape, SizesOK, NEW t \in Tasks, Dispatch(t),
           phase' \notin Failed
    PROVE  SizesOK'
<1> DEFINE d == analysis.dispatchers
           e == analysis'.dispatchers
           level == app.priority[t]
           size == analysis.capacities[t]
<1>1. PICK old \in IF level \in DOMAIN d THEN {d[level]}
                   ELSE {[interrupt |-> i, capacity |-> 0, tasks |-> {}] : i \in unused} :
         /\ ~Overflows(old.capacity, size)
         /\ analysis' = [analysis EXCEPT !.dispatchers =
                           [l \in DOMAIN @ \cup {level} |->
                              IF l # level THEN @[l]
                              ELSE [old EXCEPT !.capacity = Sum8(@, size),
                                               !.tasks = @ \cup {t}]]]
  <2>1. ~Ended("bug") /\ ~Ended("panic")
    BY DEF Ended, Goto, Failed
  <2> QED
    BY <2>1 DEF Dispatch
<1>2. /\ DOMAIN e = DOMAIN d \cup {level}
      /\ \A l \in DOMAIN d : l # level => e[l] = d[l]
      /\ e[level] = [old EXCEPT !.capacity = Sum8(@, size), !.tasks = @ \cup {t}]
  BY <1>1 DEF Shape
<1>3. /\ phase = "dispatchers" /\ phase' = phase
      /\ analysis'.capacities = analysis.capacities
      /\ analysis'.timer_queue = analysis.timer_queue
  BY DispatchEffect DEF Dispatch, Round, Ended, Goto, Failed
<1>4. size \in 0..255
  BY DEF TypeOK
<1>5. old \in Dispatcher /\ FitsIn(old.tasks, old.capacity)
  <2>1. CASE level \in DOMAIN d
    BY <1>1, <2>1, SMTT(30), ZenonT(30) DEF TypeOK, SizesOK
  <2>2. CASE level \notin DOMAIN d
    <3>1. PICK i \in unused : old = [interrupt |-> i, capacity |-> 0, tasks |-> {}]
      BY <1>1, <2>2
    <3>2. i \in Interrupts
      BY AppTyped DEF TypeOK
    <3> QED
      BY <3>1, <3>2, NoMessages DEF Dispatcher
  <2> QED
    BY <2>1, <2>2
<1>6. old.capacity \in 0..255
  BY <1>5 DEF Dispatcher
<1>7. Sum8(old.capacity, size) = old.capacity + size
  BY <1>1, <1>4, <1>6, CheckedSum, ZenonT(30)
<1>8. e[level].tasks = old.tasks \cup {t} /\ e[level].capacity = old.capacity + size
  BY <1>2, <1>5, <1>7 DEF Dispatcher
<1>9. FitsIn(old.tasks \cup {t}, old.capacity + size)
  BY <1>4, <1>5, <1>6, FitsMore, ZenonT(30)
<1>10. \A S, n : FitsIn(S, n)' <=> FitsIn(S, n)
  BY <1>3 DEF FitsIn, Fits, Messages
<1>11. ASSUME NEW l \in DOMAIN e PROVE FitsIn(e[l].tasks, e[l].capacity)
  <2>1. CASE l = level
    BY <1>8, <1>9, <2>1
  <2>2. CASE l # level
    BY <1>2, <1>11, <2>2 DEF SizesOK
  <2> QED
    BY <2>1, <2>2
<1> QED
  BY <1>3, <1>10, <1>11 DEF SizesOK, Counting

(* Checked additions keep the queues large enough, step by step.           *)
LEMMA StepRoom ==
    ASSUME OverflowChecks, IInv, RoomInv, [Next]_vars
    PROVE  RoomInv'
<1> SUFFICES ASSUME phase' \notin Failed PROVE SizesOK'
  BY DEF RoomInv
<1>1. TypeOK /\ Shape /\ SizesOK
  BY FailedStays DEF IInv, RoomInv
<1>2. CASE UNCHANGED vars
  BY <1>1, <1>2, SizesFrame DEF vars
<1>3. CASE Check
  BY <1>1, <1>3, CheckEffect, SizesFrame DEF Check, Counting
<1>4. CASE EndOfLoop
  BY <1>1, <1>4, EndOfLoopEffect, SizesFrame DEF EndOfLoop, Goto, Following, Counting
<1>5. CASE Override
  BY <1>1, <1>5, OverrideEffect, SizesUnset DEF Override, Counting, Unplaced
<1>6. CASE InitSend
  <2>1. /\ analysis'.timer_queue = [analysis.timer_queue EXCEPT
                                      !.ceiling = analysis.timer_queue.priority]
        /\ analysis'.capacities = analysis.capacities
        /\ analysis'.dispatchers = analysis.dispatchers /\ phase' = "spawn"
    BY <1>1, <1>6, InitSendEffect DEF Unplaced
  <2>2. analysis.timer_queue \in TimerQueueType
    BY <1>1 DEF TypeOK, TimerQueueType
  <2> QED
    BY <1>1, <2>1, <2>2, SizesFrame DEF Counting, TimerQueueType
<1>7. CASE Codegen
  BY <1>1, <1>7, CodegenEffect, SizesFrame DEF Counting
<1>8. CASE Expanded
  BY <1>1, <1>8, SizesFrame DEF Expanded, vars
<1>9. ASSUME NEW c \in Contexts, NEW r \in Resources, Access(c, r) PROVE SizesOK'
  BY <1>1, <1>9, AccessEffect, SizesFrame DEF Access, Unplaced
<1>10. ASSUME NEW c \in Contexts, NEW t \in Tasks,
              NEW pass \in {"spawn_counts", "schedule_counts"}, Count(pass, c, t)
       PROVE  SizesOK'
  BY <1>1, <1>10, CountEffect, SizesUnset DEF Count, Round, Counting, Unplaced
<1>11. ASSUME NEW c \in Contexts, NEW t \in Tasks, TimerQueue(c, t) PROVE SizesOK'
  BY <1>1, <1>11, TimerQueueSizes
<1>12. ASSUME NEW c \in Contexts, NEW t \in Tasks, Spawn(c, t) PROVE SizesOK'
  BY <1>1, <1>12, SpawnEffect, SizesFrame DEF Spawn, Unplaced
<1>13. ASSUME NEW c \in Contexts, NEW t \in Tasks, Schedule(c, t) PROVE SizesOK'
  <2>1. /\ c # "init" => analysis'.timer_queue =
                 [analysis.timer_queue EXCEPT !.ceiling = Raised(@, Priority(c))]
        /\ c = "init" => analysis'.timer_queue = analysis.timer_queue
        /\ analysis'.capacities = analysis.capacities
        /\ analysis'.dispatchers = analysis.dispatchers
    BY <1>1, <1>13, ScheduleEffect DEF Unplaced
  <2>2. analysis.timer_queue \in TimerQueueType
    BY <1>1 DEF TypeOK, TimerQueueType
  <2>3. /\ analysis'.timer_queue.tasks = analysis.timer_queue.tasks
        /\ analysis'.timer_queue.capacity = analysis.timer_queue.capacity
    BY <2>1, <2>2 DEF TimerQueueType
  <2> QED
    BY <1>1, <1>13, <2>1, <2>3, SizesFrame DEF Schedule
<1>14. ASSUME NEW t \in Tasks, Dispatch(t) PROVE SizesOK'
  BY <1>1, <1>14, DispatchSizes
<1> QED
  BY <1>2, <1>3, <1>4, <1>5, <1>6, <1>7, <1>8, <1>9, <1>10, <1>11, <1>12, <1>13, <1>14
     DEF Next

(* With overflow checks, whatever order the calls and tasks come in, each  *)
(* ready queue has room for all messages of its level and the timer queue  *)
(* for those of every task that is scheduled.                              *)
THEOREM QueuesLargeEnough == ASSUME OverflowChecks PROVE Spec => []QueuesFit
<1>1. RoomInv => QueuesFit
  BY DEF RoomInv, SizesOK, FitsIn, QueuesFit, Expands, Failed
<1>2. Init => RoomInv
  BY InitRoom
<1>3. IInv /\ RoomInv /\ [Next]_vars => RoomInv'
  BY StepRoom
<1> QED
  BY <1>1, <1>2, <1>3, AnalyzeInductive, PTL DEF Spec
=============================================================================
