----------------------------- MODULE MCDispatch -----------------------------
(***************************************************************************)
(* Applications to check module Dispatch on.  The instances are finite as  *)
(* they stand: no state constraint bounds them.                            *)
(***************************************************************************)
EXTENDS Dispatch, FiniteSetsExt

(* The ready queue of a level has the sum of the capacities of its tasks.  *)
ASSUME SumsAgree ==
    \A d \in Dispatchers :
        Cardinality(Messages(d)) = MapThenSumSet(LAMBDA t : Capacity[t], Served(d))

MCDispatchers == {"ssi0", "qei0"}

(* foo runs at level 1, baz, which is only scheduled, at level 3.  Senders *)
(* of foo preempt its dispatcher inside the dequeue, and the ceilings keep *)
(* them from preempting each other inside an enqueue.                      *)
MCHandlers == {}
MCTasks == {"foo", "baz"}
MCHome == [foo |-> "ssi0", baz |-> "qei0"]
MCPriority == [ssi0 |-> 1, qei0 |-> 3, SysTick |-> 3]
MCCapacity == [foo |-> 2, baz |-> 1]
MCSpawns == [init |-> {"foo"}, idle |-> {"foo"},
             foo |-> {}, baz |-> {"foo"}]
MCSchedules == [init |-> {}, idle |-> {"baz"}, foo |-> {"baz"},
                baz |-> {}]
MCFreeCeiling == [foo |-> 3, baz |-> 1]
MCReadyCeiling == [ssi0 |-> 3, qei0 |-> 0]
MCReadySize == [ssi0 |-> 2, qei0 |-> 1]

(* foo and bar share a level above their senders: the dispatcher starts    *)
(* while a sender is inside the enqueue.  Nothing is scheduled.            *)
SharedHandlers == {"uart"}
SharedTasks == {"foo", "bar"}
SharedDispatchers == {"ssi0"}
SharedHome == [foo |-> "ssi0", bar |-> "ssi0"]
SharedPriority == [uart |-> 1, ssi0 |-> 2, SysTick |-> 2]
SharedCapacity == [foo |-> 1, bar |-> 1]
SharedSpawns == [init |-> {"bar"}, idle |-> {"foo"}, uart |-> {"foo", "bar"},
                 foo |-> {}, bar |-> {}]
SharedSchedules == [init |-> {}, idle |-> {}, uart |-> {}, foo |-> {},
                    bar |-> {}]
SharedFreeCeiling == [foo |-> 1, bar |-> 1]
SharedReadyCeiling == [ssi0 |-> 1]
SharedReadySize == [ssi0 |-> 2]

(* init schedules bar, uart spawns baz, both at level 3: SysTick is above  *)
(* uart and above the ceiling of the ready queue they share.               *)
RaceTasks == {"bar", "baz"}
RaceHome == [bar |-> "ssi0", baz |-> "ssi0"]
RacePriority == [uart |-> 1, ssi0 |-> 3, SysTick |-> 3]
RaceCapacity == [bar |-> 1, baz |-> 1]
RaceSpawns == [init |-> {}, idle |-> {}, uart |-> {"baz"}, bar |-> {}, baz |-> {}]
RaceSchedules == [init |-> {"bar"}, idle |-> {}, uart |-> {}, bar |-> {}, baz |-> {}]
RaceFreeCeiling == [bar |-> 0, baz |-> 1]
RaceReadyCeiling == [ssi0 |-> 1]
RaceReadySize == [ssi0 |-> 2]

(* The hypothesis of the proofs about slots and messages holds of the two  *)
(* applications before and fails for the race.                             *)
ASSUME ExclusionTells == SendersExcluded <=> Tasks # RaceTasks
=============================================================================
