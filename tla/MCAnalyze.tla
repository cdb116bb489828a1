----------------------------- MODULE MCAnalyze -----------------------------
(***************************************************************************)
(* Applications to check module Analyze on: every combination of the       *)
(* declarations that a pass distinguishes, around a few names.             *)
(***************************************************************************)
EXTENDS Analyze

MCHandlers == {"uart", "svcall"}
MCExceptions == {"svcall"}
MCTasks == {"foo", "bar"}
MCResources == {"x"}
MCInterrupts == {"uart", "ssi0", "qei0"}

None == [c \in MCHandlers \cup MCTasks \cup {"init", "idle"} |-> {}]

Base == [handlers |-> MCHandlers, tasks |-> MCTasks,
         resources |-> MCResources, mutable |-> MCResources,
         late |-> {}, assigned |-> {}, free |-> {"ssi0", "qei0"},
         priority |-> [uart |-> 2, svcall |-> 1, foo |-> 1, bar |-> 2],
         capacity |-> [foo |-> 0, bar |-> 0],
         uses |-> None, spawn |-> None, schedule |-> None]

(* Who shares a resource, at which priorities: idle, two handlers, a task. *)
Sharing ==
    {[Base EXCEPT
        !.mutable = m, !.priority = [@ EXCEPT !.uart = p, !.svcall = q],
        !.uses = [None EXCEPT !["idle"] = u[1], !["uart"] = u[2],
                              !["svcall"] = u[3], !["bar"] = u[4]]] :
       m \in SUBSET MCResources, p \in 1..3, q \in {1, 3},
       u \in [1..4 -> SUBSET MCResources]}

(* Who sends messages to whom: init, idle, a handler and the tasks, with   *)
(* the tasks on one level or on two.                                       *)
Messaging ==
    {[Base EXCEPT
        !.priority = [@ EXCEPT !.uart = p, !.foo = q],
        !.spawn = [None EXCEPT !["init"] = a[1], !["uart"] = a[2],
                               !["idle"] = a[3], !["foo"] = a[3]],
        !.schedule = [None EXCEPT !["init"] = b[1], !["uart"] = b[2],
                                  !["bar"] = b[3]]] :
       p \in {1, 3}, q \in {1, 2},
       a \in [1..3 -> {{}, {"bar"}, {"foo", "bar"}}],
       b \in {<<{}, {}, {}>>, <<{"foo"}, {"bar"}, {}>>, <<{}, {"bar"}, {"foo"}>>,
              <<{}, {"foo", "bar"}, {"foo"}>>}}

(* Explicit capacities, up to the largest the parser takes.                *)
Sizes ==
    {[Base EXCEPT
        !.priority = [@ EXCEPT !.foo = q],
        !.capacity = [foo |-> m, bar |-> n],
        !.spawn = [None EXCEPT !["uart"] = {"foo"}],
        !.schedule = [None EXCEPT !["uart"] = s, !["idle"] = s]] :
       q \in {1, 2}, m, n \in {0, 1, 64, 128, 255}, s \in SUBSET MCTasks}

(* Declarations that do not fit together.                                  *)
Broken ==
    {[Base EXCEPT !.resources = r, !.mutable = {}, !.late = l, !.assigned = a,
        !.tasks = t, !.handlers = h, !.free = f, !.priority["foo"] = q,
        !.uses = [None EXCEPT !["init"] = i, !["idle"] = {"x"}],
        !.spawn = [None EXCEPT !["idle"] = {"bar"}]] :
       r, l, a, i \in SUBSET MCResources, t \in SUBSET MCTasks,
       h \in SUBSET MCHandlers, q \in {1, 2},
       f \in {{}, {"ssi0"}, {"ssi0", "uart"}}}

MCApps == Sharing \cup Messaging \cup Sizes \cup Broken

(* The applications of the findings, one set for each: a handler that      *)
(* schedules a task of a higher priority, or spawns it as well; a single   *)
(* inbox of 128 or 129 messages; two inboxes of 128 on one level.          *)
AcrossPriorities ==
    {[Base EXCEPT !.spawn = [None EXCEPT !["svcall"] = s],
                  !.schedule = [None EXCEPT !["svcall"] = {"bar"}]] :
       s \in {{}, {"bar"}}}

LargeInbox == {[Base EXCEPT !.capacity["foo"] = n] : n \in {128, 129}}

FullLevel ==
    {[Base EXCEPT !.priority["foo"] = 2,
                  !.capacity = [foo |-> 128, bar |-> 128]]}
=============================================================================
