-------------------------------- MODULE Srp --------------------------------
(***************************************************************************)
(* The stack resource policy, the promise RTFM makes about the tasks of an *)
(* application: a task starts only once its priority exceeds the priority  *)
(* of every task it would preempt and the ceiling of every resource those  *)
(* tasks hold; from then on it never waits for a resource.  Nothing is     *)
(* said here of BASEPRI, PRIMASK or of how an access is granted: module    *)
(* Kernel says how the code does it and is shown to implement this one.    *)
(***************************************************************************)
EXTENDS Naturals

CONSTANTS Contexts,   \* init, idle and the handlers
          Resources,
          Prio,       \* logical priority of each context
          Ceilings,   \* priority ceiling of each resource
          Owned       \* the resources a context holds as soon as it starts

VARIABLES started,    \* contexts that have started and not finished
          held        \* [Contexts -> SUBSET Resources]

srpVars == <<started, held>>

(* Only the most urgent of the started contexts executes.                  *)
Executing(c) == c \in started /\ \A d \in started \ {c} : Prio[d] < Prio[c]

SrpInit ==
    /\ started = {"init"}
    /\ held = [c \in Contexts |-> IF c = "init" THEN Owned[c] ELSE {}]

(* init runs once, before anything else, and is replaced by idle.          *)
Boot ==
    /\ started = {"init"}
    /\ started' = {"idle"}
    /\ held' = [held EXCEPT !["init"] = {}, !["idle"] = Owned["idle"]]

Start(c) ==
    /\ c \notin started
    /\ "init" \notin started
    /\ \A d \in started : /\ Prio[d] < Prio[c]
                          /\ \A r \in held[d] : Ceilings[r] < Prio[c]
    /\ started' = started \cup {c}
    /\ held' = [held EXCEPT ![c] = Owned[c]]

(* A resource is taken only while nobody else holds it: no waiting.        *)
Take(c, r) ==
    /\ Executing(c)
    /\ \A d \in started : r \notin held[d]
    /\ held' = [held EXCEPT ![c] = @ \cup {r}]
    /\ UNCHANGED started

Give(c, r) ==
    /\ Executing(c)
    /\ r \in held[c] \ Owned[c]
    /\ held' = [held EXCEPT ![c] = @ \ {r}]
    /\ UNCHANGED started

Finish(c) ==
    /\ Executing(c)
    /\ held[c] = Owned[c]
    /\ started' = started \ {c}
    /\ held' = [held EXCEPT ![c] = {}]

SrpNext ==
    \/ Boot
    \/ \E c \in Contexts \ {"init", "idle"} : Start(c) \/ Finish(c)
    \/ \E c \in Contexts, r \in Resources : Take(c, r) \/ Give(c, r)

SrpSpec == SrpInit /\ [][SrpNext]_srpVars
=============================================================================
