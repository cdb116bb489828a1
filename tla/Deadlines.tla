------------------------------ MODULE Deadlines ------------------------------
(***************************************************************************)
(* What schedule promises: a message is released after its instant, never  *)
(* before it, and of the messages that wait the one with the earliest      *)
(* instant first.  Time is the time that is left, a plain integer; how     *)
(* instants are represented and how the timer wakes up is left to module   *)
(* TimerQueue, which is shown to implement this one.                       *)
(***************************************************************************)
EXTENDS Integers

CONSTANTS Messages,
          Times      \* how far ahead a message may be scheduled

VARIABLE left        \* of each message that waits, the time until its instant

DeadlinesInit == left = [x \in {} |-> 0]

Pass == left' = [x \in DOMAIN left |-> left[x] - 1]

Schedule(x, d) ==
    /\ x \notin DOMAIN left
    /\ left' = [y \in DOMAIN left \cup {x} |-> IF y = x THEN d ELSE left[y]]

Release(x) ==
    /\ x \in DOMAIN left
    /\ left[x] < 0
    /\ \A y \in DOMAIN left : left[x] <= left[y]
    /\ left' = [y \in DOMAIN left \ {x} |-> left[y]]

DeadlinesNext ==
    \/ Pass
    \/ \E x \in Messages : Release(x) \/ \E d \in Times : Schedule(x, d)

DeadlinesSpec == DeadlinesInit /\ [][DeadlinesNext]_left
=============================================================================
