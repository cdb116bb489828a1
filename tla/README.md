# A formal model of cortex-m-rtfm

This directory holds TLA+ specifications of the RTFM framework in `../src` (crates `cortex-m-rtfm`
and `cortex-m-rtfm-macros`): what `#[app]` computes at compile time, and what the program it
generates does on a Cortex-M core, from the items of the source to the last message of the timer
queue. TLC checks small applications, TLAPS proves the safety theorems for all of them. Paths below
are relative to `src/`.

## 1. The system

| Component | State | Operations | Where |
|---|---|---|---|
| Attribute syntax | the `App` under construction | `App::parse`, `resource_accesses`, `spawn_calls`, `schedule_calls` | `macros/src/syntax.rs` |
| Application check | none | `check::app` | `macros/src/check.rs` |
| Ceiling analysis | `Analysis`: ownerships, `needs_sync`, `needs_send`, capacities, dispatchers, ceilings of free, ready and timer queues | the passes of `analyze::app` over `HashMap`s | `macros/src/analyze.rs` |
| Code generation | `Context` (generated names) | `codegen::app` and its parts | `macros/src/codegen.rs` |
| Run time core | BASEPRI, PRIMASK, NVIC pending and active bits, a priority `Cell<u8>` per running context | `main`, `init`, `post_init`, `idle`, `export::run`, `rtfm::pend` | generated; `src/export.rs`, `src/lib.rs` |
| Shared resources | `static mut` data, one ceiling each | `Mutex::claim` of ARMv7-M and ARMv6-M | `src/lib.rs:256-328` |
| Software tasks | per task: free queue of slots, inputs; per level: ready queue | `spawn`, the dispatchers, `pre_init` | generated (`codegen.rs:931-1272`, `1442-1499`) |
| Timer queue | binary heap of `NotReady`, the SysTick counter | `schedule`, `enqueue_unchecked`, `isr` | `codegen.rs:1274-1440`, `src/tq.rs` |
| Time | 32-bit cycle count | `Instant`, `Duration` | `src/lib.rs:101-253` |
| Late resources, `MaybeUninit` | uninitialised statics | assignments at the end of `init`, `set`, `get_ref`, `get_mut` | `syntax.rs:1130-1160`, `src/export.rs` |

How they interact. The check and the analysis run at compile time; their result reaches the
program as constants only: ceilings, capacities, the interrupt of each level. At run time nothing
blocks. A context is preempted by the NVIC when an interrupt of higher priority is pending and
unmasked, so contexts form a stack. `claim` raises BASEPRI (or sets PRIMASK) around an access and
records the level in the priority cell of the context, which the next nested claim reads to
decide whether it has to lock at all. `spawn` takes a slot from the free queue of the task, writes
the input, puts the slot into the ready queue of the task's level and pends the dispatcher of the
level; the dispatcher takes it out, moves the input out of the slot, gives the slot back and calls
the task. `schedule` puts the slot into the timer queue, from which SysTick later moves it to the
ready queue. The queues between contexts are single-producer single-consumer rings, so the claims
around their shared ends carry the correctness of message passing. The timer queue is a binary heap
whose order is that of wrapping 32-bit instants; the SysTick counter is set for its root.

What is hard here, and the property each component owes:

* claims and cells: nested claims, preemption inside a claim, returns into one. No data race
  (README: "data race free memory sharing"), agreement of each cell with the hardware, no mask
  left behind, at most one context below that blocks (stack resource policy), every pending
  handler runs ("deadlock free execution");
* analysis: its items come in `HashMap` order, sums are taken in `u8`. The ceilings cover every
  pair of users in every order, `Sync` and `Send` are asserted where they are needed, the queues hold
  every message that has a slot;
* software tasks: queue operations preempted between any two memory accesses. No slot lost or
  doubled, no overflow of an unchecked enqueue, no lost wake-up, messages delivered once, with
  their input, in order;
* timer queue: wrapping instants, a deadline that passes while the timer is being set, an enqueue
  that meets a running counter. Every scheduled message becomes ready, in order and not before its
  instant;
* attribute syntax: items come in any order and each is compared with those before it. What is an
  application must not depend on the order, and each function has its own arguments;
* start-up and late resources: interrupts get pending while the program is configured one register
  at a time, and `init` may panic in between. Nothing is read before it is set, no handler runs
  before all are configured, and those that run preempt each other as declared.

## 2. Modules

| Module | What it is | Composes |
|---|---|---|
| `Syntax` | `App::parse`: from items to an `App` | |
| `Startup` | check, expansion, `pre_init`, `init`, `post_init`, `idle` | extends `Syntax`; an instance of `Analyze` (`Macro`) is its check |
| `Analyze` | `check::app`, `analyze::app`, queue sizes | its results are the assumptions on constants of `Kernel` and `Dispatch` |
| `Srp` | abstract: the stack resource policy | |
| `Kernel` | main, preemption, claims, cells, registers | implements `Srp` (`FollowsPolicy`) |
| `Inbox` | abstract: what spawn and schedule promise about messages | |
| `Dispatch` | spawn, schedule, dispatchers, SysTick as sender, rings | implements `Inbox` (`DeliversMessages`) |
| `Instants` | wrapping arithmetic of `Instant` | |
| `Deadlines` | abstract: messages are released in order, after their instants | |
| `TimerQueue` | schedule, the heap, SysTick and its counter | extends `Instants`; implements `Deadlines` (`MeetsDeadlines`) |
| `KernelProofs`, `AnalyzeProofs`, `DispatchProofs`, `TimerQueueProofs`, `SyntaxProofs`, `StartupProofs` | theorems about the module each is named after | `StartupProofs` extends `SyntaxProofs`, whose lemmas are about any parser run |
| `KernelPolicyProofs`, `InboxProofs` | that `Kernel` implements `Srp`, and `Dispatch` implements `Inbox` | extend `KernelProofs` and `DispatchProofs` |
| `MCKernel`, `MCAnalyze`, `MCDispatch`, `MCTimerQueue`, `MCStartup` | applications and sources for TLC | |

### Kernel

| Definition | Code |
|---|---|
| `active`, `pending`, `basepri`, `primask` | NVIC active and pending bits, the two mask registers |
| `priority[c]` | the `Cell<u8>` of the prelude, `codegen.rs:309-318` and `594-620` |
| `initial[h]` | the local of `export::run`, `src/export.rs:20-28` |
| `claims[c]` | the closures `c` is inside of: the locals of each `claim` on its stack frame |
| `FinishInit` | return of `init`, `post_init` (priorities checked and written), interrupts enabled, `idle` starts |
| `Pend`, `Preempt`, `Return` | `rtfm::pend` or a peripheral; entry and exit of a handler through `run` |
| `ClaimFree`, `ClaimBasepri`, `ClaimPrimask` and the matching releases | the branches of `claim`, `src/lib.rs:273-328` |

Each step is one access to a register that handlers share. The code around it touches only the
context's own cell and locals. A handler that preempts between two such instructions leaves
BASEPRI and PRIMASK as it found them and cannot reach the cell, so grouping the private accesses
with the shared one loses no behaviour. `NeedsLock`, `Direct` and `Proxies` say which resources a
context gets by plain reference. `Logical2hw` is computed in a byte, as `logical2hw` is.
The body of a context is any nesting of claims of its proxies; the borrow checker (claim takes
`&mut self`) rules out claiming a resource inside its own claim, and so does `Enter`.

### Syntax

The source is a sequence of items; an item is a record of what the parser asks about it (its
attributes, arguments, signature class, and the kinds of its statements), not a string of tokens.

| Definition | Code |
|---|---|
| `pos`, `app`, `verdict` | the loop over the items of `App::parse`, its locals, and its `Result` |
| `arm`, `read`, `args` | the arm of the match a function is in, and the loop of `InitArgs::parse` and `parse_args` |
| `Attribute` | `AppArgs::parse` |
| `Function`, `Argument`, `Insert` | a function: duplicate tests, one argument a step, the `check` function of its kind and the insertion |
| `Static`, `Extern`, `Other`, `End` | the other arms, and the `expect` of `init` (an outcome of its own, `panic`) |
| `Statics`, `Assigns`, `Remaining` | `extract_statics`, `extract_assignments` |

### Startup

It goes on where `Syntax` stops. `Application` is the parsed `App` as the check and the analysis see
it, `Check` is `check::app` (`Macro!Valid`) and the choice of a dispatcher for each level, which is
any injection because the interrupts come out of a `HashMap`. Names the device crate does not have,
and a second `SysTick`, are errors of the expanded program (`Known`).

| Definition | Code |
|---|---|
| `initialized` | the statics on which `MaybeUninit::set` ran, and the late resources (`src/export.rs:40-71`) |
| `Reads`, `Needs` | the `get_ref` and `get_mut` of a prelude, of a dispatcher and of SysTick |
| `Disable`, `PreInit`, `CallInit` | `main` up to `init`; `pre_init` static by static, the members of a map in any order |
| `Statement`, `Assign`, `Panic` | the body of `init` as generated: statements, then assignments; it may panic |
| `FinishInit`, `EnableInterrupt`, `SetPriority`, `CallIdle` | `post_init` register by register, with its assertions; interrupts on, `idle` |
| `Pend`, `Take`, `Return` | the NVIC with the priority bytes written so far (reset value 0, the most urgent) |

### Analyze

A pass is a value of `phase`; its loop takes any item of `todo`, which is every order of a
`HashMap`. (The loops over chained iterators visit all of one part before the next. Taking any
item includes those orders.) `Access`, `Count`, `Override`, `TimerQueue`, `Dispatch`, `InitSend`,
`Spawn` and `Schedule` are the loop bodies of `analyze::app`; `Valid` is `check::app`; `Codegen` is
the rounding to powers of two of `mk_typenum_capacity`. An outcome `bug` is an
`expect("BUG: ..")`, `panic` is any other panic. `OverflowChecks` says how the macro itself was
built: `u8` additions panic or wrap.

### Dispatch

Each step is one access to memory that other contexts use. `enqueue_unchecked` and `dequeue` of
`heapless::spsc::Queue` are two steps each, one on the buffer and one on the counter; the snapshot
of the counter between them is `op[c].at`, so two producers that meet really overwrite each other.
Counters run modulo twice the ring size, which distinguishes the same states as `usize` counters
of a power-of-two ring. `pc` follows the generated functions:

* a sender: `body` -Call-> `taking` -Taken-> `writing` -Write-> `posting` -Post-> `publishing`
  -Publish-> `pending` -Pend-> `body`; for schedule `writing` -Write-> `arming` -Arm-> `body`;
* SysTick: `body` -Fire-> `posting` and on like a sender;
* a dispatcher: `body` -Poll-> `taken` -Remove-> `reading` -Read-> `freeing` -Free-> `freed`
  -Run-> `body` with the task running (it may send itself) -Finish-> the loop again; Poll of an
  empty queue leads to `leaving` and Return.

An access through a claim is possible between `taking` and `writing` (free queue) and between
`publishing` and `pending` (ready queue); `Cell` is raised to the ceiling there and a handler
starts only above the cells of all active contexts, which `Kernel` proves of the real registers
(`CellCorrect`). The timer queue is changed in one step: its ceiling excludes all its users
(`TimerQueueExcludes`). Instants are abstracted: SysTick may find any message expired.
An input is identified by the body that sent it.

Senders above and below the dispatcher, spawn and schedule, and bodies that send themselves are all
present. `Inbox` is the promise: a message accepted is queued or deferred, handed over once with its input,
in order within a level, and refused only while `capacity` messages are under way. The refinement
mapping computes the abstract messages from slots: the message of slot `i` is whatever `inputs`
holds now, so an input overwritten too early changes an abstract message and fails the check.

### TimerQueue

The heap is only touched inside claims of its ceiling (`TimerQueueExcludes`), so an enqueue is one
step. Between the steps of the handler time goes on: the clock is read in one, the reload value and
the counter are written in later ones.

| Definition | Code |
|---|---|
| `now`, `instant[x]` | the DWT cycle counter, `NotReady::instant`; both wrap |
| `left[x]` | ghost: the plain integer time until the instant of `x` |
| `reload`, `current`, `tickint`, `pended` | SYST RVR, CVR and TICKINT, the pending bit of SysTick |
| `Roots` | `Ord for NotReady` and `BinaryHeap::peek`: an earliest message by the wrapped comparison |
| `Schedule` | `enqueue_unchecked`, `src/tq.rs:29-50` |
| `Measure`, `Pop`, `SetReload`, `ClearCurrent`, `DisableInterrupt`, `Deliver` | the statements of `isr`, `src/tq.rs:91-135` |
| `Count`, `Tick` | the SysTick counter and the clock: a counter with reload 0 stands still |

`Deadlines` is the promise: of the messages that wait, a release takes one whose instant has passed
and none is earlier. It knows nothing of wrapping instants or counters.

## 3. Runs

| Run | Shows | Instance |
|---|---|---|
| `Startup` | `TypeOK`, `VerdictExact`, `ArgumentsExact`, `NoUninitRead`, `NoHandlerBeforeIdle`, `PreemptsByPriority`, `StatementsOnce`, `FirstAssignmentWins`, `ReachesIdle` | 1412 sources: priorities below, at and above those of the device, each body of `init`, a user's SysTick, pairs of items that clash or not in both orders, all pairs of arguments |
| `Analyze` | ceilings, `Sync`, `Send`, sizes, dispatchers, no internal bug | 2358 applications: who shares a resource, who sends to whom, capacities up to 255, declarations that do not fit |
| `AnalyzeSend` | finding 3 | a task of another priority is scheduled, and spawned as well or not |
| `AnalyzeCapacity` | finding 4 | one inbox of 128 or of 129 messages |
| `AnalyzeRelease` | finding 5 | two inboxes of 128 messages on one level |
| `KernelArmv7m` | `TypeOK`, `MutualExclusion`, `CellMatchesHardware`, `NoSpuriousMasking`, `SingleBlocking`, `FollowsPolicy`, `PendingRuns` | 4 handlers on 3 of 4 priorities (two equal, one at the maximum, which needs PRIMASK), nested claims |
| `KernelZeroPriority` | finding 1 | a handler at priority 0 |
| `Dispatch` | `TypeOK`, `SlotsConserved`, `RoomLeft`, `DeliversMessages`, `NoLostWakeup` | 2 levels, spawn from below and above the dispatcher, schedule through SysTick |
| `DispatchLive` | `NoLostWakeup`, `DeliversMessages`, `MessagesRun` | 2 tasks of one level share a ready queue |
| `DispatchRace` | finding 2 | SysTick above the ceiling of a ready queue |
| `TimerQueue` | `TypeOK`, `InstantsExact`, `LatenessExact`, `WakesInTime`, `MeetsDeadlines`, `EveryMessageReleased` | 2 messages on a clock of 12 readings |
| `TimerStall` | finding 6 | one message |

The runs of `Kernel` are for ARMv7-M; the theorems about it hold for both architectures.

Bounds. No run has a state constraint: pending bits are sets, claims nest at most once per resource,
slots are bounded by capacities, ring counters and clocks wrap, sources are finite, so the instances
are finite as they stand. They are large enough for the cases that matter:

* `Kernel`: two handlers of equal priority, a ceiling at, between and above priorities of users, the
  highest priority, a claim inside a claim, of a lower and of a higher ceiling;
* `Dispatch`: ring counters that wrap, an inbox that fills up, each kind of sender preempted by each
  kind of context;
* `TimerQueue`: `Half = 6` and `Ahead = 3` put instants on both sides of the wrap; `MaxReload = 2 < Ahead`
  makes the handler set the timer more than once for a message; `Delay = 1` lets an instant pass
  between the reading of the clock and the start of the counter;
* `Startup`: `NVIC_PRIO_BITS = 2` makes 4 the highest priority and 5 one that the device does not have.

The parser and the generated program end (rejected, panicked, or idle with nothing pending), and
`Tick` stops at the bounds `Lag` and `Delay`; the cfgs of `Startup` and `TimerQueue` therefore do not
check for deadlock; the other runs do.

For every property of a passing run, `PROJECT.json` names a mutant, a plausible bug in one definition,
that makes TLC find it violated; the mutants stand before the definitions they change and are marked
`Mutant:`.

Fairness.

* `Kernel` and `Dispatch` assume that bodies other than `idle` end (only idle is declared divergent),
  that the processor goes on executing the context on top of the stack, and that the NVIC starts a
  pending interrupt that nothing masks. These are strong fairness: a preemption disables and
  re-enables them, and hardware takes a pending interrupt the moment the mask is lifted. Nothing is
  assumed of arrivals; `MessagesRun` and `PendingRuns` are stated for executions in which external
  interrupts stop, since arrivals at a higher priority may starve a lower one for ever.
* `TimerQueue` assumes that `post_init` comes, that time passes (strongly, because the bounds `Lag` and
  `Delay`, which stand for a processor that keeps up, disable it now and then), that SysTick is
  taken and goes on, and that dispatchers take what is ready, which is `MessagesRun` of `Dispatch`.
* `Startup` assumes that the compiler and `main` go on; `main` has nothing to wait for.

## 4. Proofs

| Module | Theorem | Property of a run |
|---|---|---|
| `KernelProofs` | `TypeCorrect`, `DataRaceFreedom`, `CellCorrect`, `BlockedOnce` | `TypeOK`, `MutualExclusion`, `CellMatchesHardware`, `SingleBlocking` |
| | `Inductive` | `[]IInv`, the inductive invariant |
| `KernelPolicyProofs` | `Implements` | `FollowsPolicy`: `Kernel` implements `Srp` |
| | `MaskedForAReason` | `NoSpuriousMasking` |
| `AnalyzeProofs` | `AnalyzeInductive` | `[]IInv`, the inductive invariant |
| | `AnalyzeTypes`, `Ceilings`, `Syncs`, `Sends`, `Dispatchers`, `CheckSuffices` | `TypeOK`, `CeilingsExact`, `SyncExact`, `SendAsserted`, `DispatchersApart`, `NoBug` |
| | `FreeQueues`, `ReadyQueues`, `TimerQueues` | `FreeQueuesExclude`, `SpawnersExclude`, `TimerQueueExcludes` |
| | `QueuesLargeEnough` | `QueuesFit` |
| `DispatchProofs` | `WakeupsKept`, `QueuesTyped`, `SlotsKept`, `RoomKept` | `NoLostWakeup`, `TypeOK`, `SlotsConserved`, `RoomLeft` |
| `InboxProofs` | `MessagesDelivered` | `DeliversMessages`: `Dispatch` implements `Inbox` |
| `TimerQueueProofs` | `TypeCorrect`, `InstantsCorrect`, `LatenessCorrect`, `TimerInTime` | `TypeOK`, `InstantsExact`, `LatenessExact`, `WakesInTime` |
| | `Implements` | `MeetsDeadlines`: `TimerQueue` implements `Deadlines` |
| `StartupProofs` | `OrderIrrelevant`, `ArgumentsKept` | `VerdictExact`, `ArgumentsExact` |
| | `Types`, `HandlersWait`, `Preemption`, `SetWhenRead` | `TypeOK`, `NoHandlerBeforeIdle`, `PreemptsByPriority`, `NoUninitRead` |
| | `EachOnce`, `FirstWins` | `StatementsOnce`, `FirstAssignmentWins` |

Every safety property of the passing runs, the three refinements included, is stated by a theorem.
The assumptions on constants are named where the constants are declared, and TLC evaluates them on
the instance of every run. The inductive invariants below hold in TLC on the instances of the runs, too.

### Kernel

For any set of handlers and resources, any priorities, either architecture and 1 to 7 priority bits.
`CeilingAssumption` (the ceiling of a resource is the highest priority of its users other than init)
is what theorem `Ceilings` proves of the analysis. `DeviceAssumption` and `HandlersAssumption` give the
constants their types. All theorems but `TypeCorrect` have the hypothesis `PositivePriorities`: with
priority 0 they are false (finding 1).

None of the safety properties is inductive: that a claim excludes a handler depends on what BASEPRI
is, which depends on what it was when every context below was preempted. `IInv` ties these together:

* `Ordered`: of two active contexts the higher one is above the priority cell of the lower one;
* `StackOK`, with `ClaimOK` and `NestOK`: the cell of a context covers the ceilings of all its claims,
  and the value that a claim will restore covers those of the claims around it;
* `BasepriOK`: BASEPRI masks exactly the handlers up to the cell of the running context (unless
  PRIMASK is set), and is a value that `logical2hw` produces below the highest priority;
* `SavedOK`: the BASEPRI that `run` saved on entry of a handler masks exactly the handlers up to the
  cell of the context it preempted, so a return re-establishes `BasepriOK` for that context;
* `PrimaskOK`: PRIMASK is set exactly inside claims of the `interrupt::free` kind, and what BASEPRI
  will mask once it is cleared is the level those claims restore.

`MasksUpTo` is the relation between a BASEPRI value and a level that all of them use; it is not
equality, because a context whose own priority already masks a level need not have it in BASEPRI.
From `Ordered` and `StackOK` a started context has a priority above the ceiling of everything
claimed below it, hence by `CeilingAssumption` is no user of those resources, and exclusion
follows. Each action has its own lemma (`PreemptStep`, `ReturnStep`, `ClaimBasepriStep`, ..), over
lemmas on pushing to and popping from a stack of claims (`PushOK`, `PopOK`) and on the conversion
(`Logical2hwOrder`, `Logical2hwInjective`).

`KernelPolicyProofs` adds three facts to `IInv`: the claims of a context are of different resources
(`Distinct`), its cell is its own priority or a ceiling it claimed (`Reasons`), and what it accesses
without a claim is not claimed below. Each step of `Kernel` is then a step of `Srp` or leaves
what `Srp` sees as it is, and a mask that is set can be traced to the claim that set it.

### Analyze

For any application, any order of the items of each pass, with or without overflow checks. The
argument follows the passes: `Looked`, `Timed`, `Placed`, `Spawned` and `Scheduled` are the items that
have been taken out of `todo` so far, and each part of `IInv` says what a table holds for exactly
those: an ownership is the maximum over the accesses looked at (`OwnershipsOK`), a ceiling covers the
callers looked at (`FreeOK`, `ReadyOK`, `TimerOK`), a dispatcher has the tasks placed so far and there
are as many unused interrupts as levels left (`DispatchersOK`, `UnusedOK`). At the end of a pass the
sets are complete and the properties follow. `CheckSuffices` counts: `check::app` has compared
levels with free interrupts, so the iterator does not run out.

`SendAsserted` bounds `needs_send` from both sides: it has every task that init sends to or that is
spawned across priorities, and none whose messages, spawned and scheduled, all stay at its own
priority. Whether a task that is only scheduled across priorities is in it, is left open by that
property; the code says no, and `SendCoversSchedule`, which says yes, is the property of finding 3.

`QueuesLargeEnough` has the hypothesis `OverflowChecks` (finding 5 is what happens without) and adds
`RoomInv` to `IInv`: while capacities are still counted no queue has been sized, and afterwards each
has room for the messages of the tasks it serves so far. `QueuesFit` counts messages, the pairs of a
task and one of its slots, so a sum of capacities is the cardinality of a union, which a task more
extends by at most its own capacity (`FitsMore`); no fold has to be reasoned about. TLC evaluates in
`MCDispatch` that this count and the sum agree (`SumsAgree`).

### Dispatch

For any tasks, handlers, levels, capacities and calls, under `AnalysisAssumption`, which is what theorems
`FreeQueues`, `ReadyQueues`, `TimerQueues`, `Dispatchers` and `QueuesLargeEnough` show of the analysis.

`WakeupsKept` holds for any sizes and ceilings, and even where senders race (finding 2): what it needs
is only that the interrupt is pended after the counter of the ready queue has moved, and that a
dispatcher leaves after it has seen its queue empty.

The other theorems have the hypothesis `SendersExcluded`: the ceiling of every ready queue covers all
its senders, SysTick included. The analysis does not ensure it (finding 2), and without it the
properties are false. TLC evaluates in `MCDispatch` that the hypothesis holds of the applications of
`Dispatch` and `DispatchLive` and fails for that of `DispatchRace` (`ExclusionTells`).

No property of the queues is inductive, since a ring is overwritten or read twice when two contexts
are between the same two accesses. `IInv` says where every slot is and what each context may rely on:

* `TokensOK`: every slot is in exactly one place (`Where`): live in the free queue, live in the ready
  queue, in the timer queue, or held by one context. `SlotsConserved` is the consequence;
* `EntriesOK`: what is live in a ring is a slot of a task the ring serves. Distinct positions hold
  distinct messages, so a ring is never fuller than there are messages, and `RoomLeft` follows from
  `QueuesFit`;
* `LocalsOK`: what a context read of a ring is still there. A consumer between its two accesses has the
  first entry and the head in its locals (`TakingOK`, `TakenOK`), a producer has written the entry at
  the tail it is about to publish (`PublishingOK`, `FreedOK`);
* `OrderOK`: of two active contexts the upper one is above the cell of the lower one. With the ceilings
  this makes a context that is between the two accesses the only one at its end of the ring, which is
  why the steps of others preserve `LocalsOK`.

Each action has its own lemma about the queues (`TakenQueues`, `PublishQueues`, ..), over lemmas about
rings (`GoodRing`, `Live`, `Marks`): what writing an entry and moving a counter does to the live positions.

`InboxProofs` adds `InputsOK`: a slot has an input from the moment it is written until it is read, and
the context that carries it has it otherwise. With that, `Taken` is a step `Accept` of `Inbox`, `Publish`
is `Enqueue`, `Arm` is `Defer`, `Fire` is `Expire`, `Remove` is `Dequeue` and `Run` is `HandOver`; every
other step leaves `Bar`, what `Inbox` sees, as it is. `IsAppend` and `IsTail` turn the contents of
rings into sequences.

### TimerQueue

For any width of the clock, any reload limit and any messages, under `TimesAssumption`: `Ahead + Lag <
Half`, so all instants under way lie within half a turn of the clock. `WrapTick` and `EarlierExact`
show that wrapped differences are then the time left, and that comparing instants compares it.
`IInv` adds to that: a message is in one place (`PlacesOK`), the handler's root stays the earliest while
it is in its claim and `diff` is what was left when the clock was read (`ClaimOK`), the timer's interrupt
is enabled while messages wait (`TickintOK`), and until `post_init` SysTick is pending if anything is
queued (`InitOK`). `WakesInTime` follows step by step: the counter reaches its end no later than the
earliest instant passes, except where it was set to stand still (finding 6). `LatenessCorrect` is for
builds without overflow checks.

### Startup

For any set of sources, names and devices of 1 to 7 priority bits. `SourcesAssumption` says that items,
arguments and statements come in sequences and that statements are numbered in the order they are
written in, `UniverseAssumption` that sources name no resources and tasks but those of the universe.

The parser (`SyntaxProofs`). A test for a duplicate looks at the items before, so neither `VerdictExact`
nor `ArgumentsExact` is inductive. `SyntaxOK` says what the `App` holds of the items passed so far
(`ContentOK`, `PastLegal`), and, inside a function, what the arguments read so far say (`ReadOK`: the last
priority among them, or the default). A refused item makes the source malformed or clashes with one of
those; when none is left, everything passed is everything there is. `Shaped` is what the parser can
tell of a source (each item for itself, and clashes), `WellFormed` adds the two rules that only the
documentation and the tests have (`Documented`). `VerdictExact` says that what is well formed is not
refused and what is not shaped is not accepted. The sources in between the parser accepts, against
finding 1 and the test on SysTick in section 5; the property would hold as well if it refused them.

Bodies. `Assigns` and `Remaining` select statements by their kind. `Ranked` shows that `Nth` enumerates a
set of indices in order, by counting: the ranks of n indices are n different numbers up to n. `AssignsMove` and
`StatementsStay` conclude that every statement is in exactly one of the two parts, and in which order.
(`SelectAgrees` has TLC evaluate that `Select` is the `SelectSeq` of its kind.) `Expansion` and
`RanThrough` follow that through the generated body of `init`, and `EachOnce` and `FirstWins` state it
of the run.

Start-up. `GuardOK`: until `main` has disabled interrupts none is enabled in the NVIC, and from then to
idle all are masked. `ParsedOK`: whatever the source says, the parser hands on bytes, resources and
tasks. `PreemptOK`: `post_init` has configured all vectors it does not still have to do (`Configured`),
and each handler on the stack was let in below the byte of those under it. `BytesReverse` turns bytes
back into priorities: the assertion `priority <= 1 << bits` is what keeps the shift from wrapping, for
every priority but 0. `ReadsOK` is why nothing is read before it is set: what the check accepted
(`CheckedOK`), which cells `pre_init` has set so far and that it fills a free queue only after it has
made it (`CellsOK`), which late resources the assignments run so far have set (`LateOK`), and how far
`init` is in its generated body (`RunOK`). `TodoOK` completes the types; `AppTyped` shows that what the
parser accepts is an application in the sense of module `Analyze`, which its assumption
`AppsAssumption` asks for.

### Model-checked only

* Liveness (`PendingRuns`, `MessagesRun`, `EveryMessageReleased`, `ReachesIdle`): the prover has no rules for
  fairness and `ENABLED`.
* That the theorems of `Analyze` are the assumptions of `Kernel` and `Dispatch`: the modules name their
  constants differently, and the correspondence is by reading (section 2).

## 5. Findings

1. `priority = 0` (`syntax.rs:875`) is accepted against the documentation (`macros/src/lib.rs:165`),
   becomes the most urgent hardware priority and breaks mutual exclusion (`KernelZeroPriority`).
2. The ceiling of a ready queue leaves out SysTick (`analyze.rs:156-175`); SysTick preempts a
   spawner inside its enqueue, and a message and its slot are lost (`DispatchRace`). The passing
   `Dispatch` runs are of applications without such a pair of senders. `SendersExcluded` is what the
   analysis would have to add; with it the theorems of section 4 hold.
3. A message scheduled across priorities needs no `Send` (`analyze.rs:180`, `AnalyzeSend`: a handler
   at level 1 only schedules a task at level 2).
4. Capacities above 128, documented as legal, panic in the macro (`codegen.rs:1580`,
   `AnalyzeCapacity`: one task with a capacity of 129).
5. A macro built without overflow checks wraps the sum of capacities, and the ready queue is too
   small for its messages (`analyze.rs:142`, `AnalyzeRelease`).
6. An instant that is exactly the reading of the clock counts as still to come and sets the reload
   value 0; the counter stands still and the message waits until an earlier one is scheduled
   (`tq.rs:106`, `TimerStall`).

Seen while modelling, without a run of their own:

* `duration_since` panics where overflow checks are on and the two instants lie on different sides of
  the wrap (`src/lib.rs:128`); `LatenessExact` is checked and proved for builds without them.
* Assignments at the end of `init` run backwards (`syntax.rs:1131`): after `X = 1; X = 2;` the value
  is 1 (`FirstAssignmentWins`). The book promises no order (`book/src/by-example/resources.md:84`).
* `tests/cfail/exception-sys-tick.rs` expects the error "the `SysTick` exception can't be used because
  it's used by the runtime"; nothing in `syntax.rs` or `check.rs` reports it. `Documented` is false of
  such a source and no property asks that it be accepted. The model does accept it where nothing is
  scheduled, as the code does (its handler is then configured and preempts like any other, which
  `PreemptsByPriority` checks); with messages scheduled the expanded program defines SysTick twice
  (`Known`). The test itself shows the disagreement.

## 6. Not modelled

* Token parsing, error messages, identifiers and attributes of the generated code, `module` and the
  static locals of functions: no state that other contexts share.
* Singleton resources: they are resources with another type.
* `NVIC_PRIO_BITS = 8`: the shift in `claim` does not compile (`DeviceAssumption`).
* Panics of handlers: the panic handler never returns, nothing happens after one. Those of `init` and
  `post_init` are modelled, because there interrupts are masked and enabled later.
* The operators of `Duration`: those of `u32`.
* `Peripherals`, re-exports: no behaviour. Book, examples, tests: read for what they promise.
* Resource claims inside the bodies that send messages: `Kernel` covers claims, `Dispatch` queues;
  a claim around a `spawn` only raises the cell further.
* `scheduled` and `start` times of tasks in `Dispatch`: copied with the input, decide nothing there;
  `LatenessExact` of `TimerQueue` is about them.

## 7. What could come next

A composition of `Dispatch` and `TimerQueue` in which SysTick delivers at its real instants; a theorem
that instantiates `Dispatch` with the constants that `Analyze` computes; the inductive argument behind
`PendingRuns` as a rank that each step of the running context lowers.
