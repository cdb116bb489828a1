--------------------------- MODULE StartupProofs ---------------------------
(***************************************************************************)
(* Theorems about the way from the source to idle, for every set of        *)
(* sources, every device and any names.                                    *)
(***************************************************************************)
EXTENDS Startup, SyntaxProofs

Before == {"compile", "rejected", "main"}
Masked == {"pre_init", "init", "post_init", "panicked"}

(* Why no handler gets in early: until main has disabled interrupts none   *)
(* is enabled and no exception pending; from then on until idle all are    *)
(* masked.                                                                 *)
GuardOK ==
    /\ pc \in Before \cup Masked \cup {"idle"}
    /\ pc \in {"compile", "rejected"} => pending = {}
    /\ pc = "main" => pending \subseteq NVIC
    /\ pc \in Before => enabled = {}
    /\ pc \in Masked => primask = TRUE
    /\ pc # "compile" => verdict = "ok"
    /\ stack # <<>> => pc = "idle"

LEMMA GuardInit == Init => GuardOK
BY DEF Init, SyntaxInit, GuardOK, Before, Masked

(* The parser has stopped when it said "ok".                               *)
LEMMA ParserStops == ASSUME SyntaxNext PROVE verdict # "ok"
BY DEF SyntaxNext, Attribute, Function, Argument, Insert, Static, Extern, Other,
       End, AtItem

LEMMA GuardStep == ASSUME GuardOK, [Next]_vars PROVE GuardOK'
<1> USE DEF GuardOK, Before, Masked, At
<1>1. CASE Parse
  BY <1>1, ParserStops DEF Parse, mainVars, hwVars
<1>2. CASE Check
  BY <1>2 DEF Check, hwVars, syntaxVars
<1>3. CASE Main
  <2>1. CASE Disable
    BY <2>1 DEF Disable, syntaxVars
  <2>2. CASE PreInit
    BY <2>2 DEF PreInit, syntaxVars, hwVars
  <2>3. CASE CallInit
    BY <2>3 DEF CallInit, syntaxVars, hwVars
  <2>4. CASE Statement
    BY <2>4 DEF Statement, syntaxVars, hwVars
  <2>5. CASE Assign
    BY <2>5 DEF Assign, syntaxVars, hwVars
  <2>6. CASE FinishInit
    BY <2>6 DEF FinishInit, InitDone, syntaxVars, hwVars
  <2>7. CASE \E v \in todo : EnableInterrupt(v)
    BY <2>7 DEF EnableInterrupt, Due, syntaxVars, mainVars
  <2>8. CASE \E v \in todo : SetPriority(v)
    BY <2>8 DEF SetPriority, Due, syntaxVars
  <2>9. CASE CallIdle
    BY <2>9 DEF CallIdle, syntaxVars
  <2> QED
    BY <1>3, <2>1, <2>2, <2>3, <2>4, <2>5, <2>6, <2>7, <2>8, <2>9 DEF Main
<1>4. CASE Panic
  BY <1>4 DEF Panic, syntaxVars, hwVars
<1>5. CASE \E v \in Vectors : Pend(v)
  BY <1>5 DEF Pend, NVIC, syntaxVars, mainVars
<1>6. CASE \E v \in Vectors : Take(v)
  BY <1>6 DEF Take, NVIC, syntaxVars, mainVars
<1>7. CASE Return
  BY <1>7 DEF Return, NVIC, syntaxVars, mainVars
<1>8. CASE UNCHANGED vars
  BY <1>8 DEF vars, NVIC
<1> QED
  BY <1>1, <1>2, <1>3, <1>4, <1>5, <1>6, <1>7, <1>8 DEF Next

LEMMA Guarded == Spec => []GuardOK
BY GuardInit, GuardStep, PTL DEF Spec

(* No handler runs before main has come to idle, whatever is pending when, *)
(* and none after a panic in init or in post_init.                         *)
THEOREM HandlersWait == Spec => []NoHandlerBeforeIdle
<1>1. GuardOK => NoHandlerBeforeIdle
  BY DEF GuardOK, NoHandlerBeforeIdle
<1>2. QED
  BY <1>1, Guarded, PTL

-----------------------------------------------------------------------------
(* The parser, as long as it runs; nothing else touches what it found.     *)
LEMMA ParserAlone == ASSUME [Next]_vars PROVE SyntaxNext \/ UNCHANGED syntaxVars
BY DEF Next, Parse, Check, Main, Disable, PreInit, CallInit, Statement, Assign, Panic,
       FinishInit, CallIdle, EnableInterrupt, SetPriority, Pend, Take, Return, vars,
       syntaxVars

LEMMA ParserInvariant == Spec => []SyntaxOK
<1>1. Init => SyntaxOK
  BY SyntaxStart DEF Init
<1>2. SyntaxOK /\ [Next]_vars => SyntaxOK'
  BY ParserAlone, SyntaxStep, SyntaxKept
<1> QED
  BY <1>1, <1>2, PTL DEF Spec

(* Whatever the order of its items, a well-formed source is not refused,   *)
(* one with a malformed item or a clash is not accepted, and the macro     *)
(* panics exactly when only init is missing.                               *)
THEOREM OrderIrrelevant == Spec => []VerdictExact
BY ParserInvariant, VerdictsExact, PTL

(* Every function of every accepted source has its own arguments: the last *)
(* priority and capacity written on it, or the defaults, and its lists.    *)
THEOREM ArgumentsKept == Spec => []ArgumentsExact
BY ParserInvariant, ArgumentsAgree, PTL

-----------------------------------------------------------------------------
Byte == 0..255

(* What the parser keeps: whatever is written in the source, the arguments *)
(* it hands on have bytes for numbers and name resources and tasks.        *)
ArgsOK(a) ==
    /\ DOMAIN a = ArgFields
    /\ a.priority \in Byte /\ a.capacity \in Byte
    /\ a.resources \subseteq Resources
    /\ a.spawn \subseteq Tasks /\ a.schedule \subseteq Tasks

FnsOK(map) == \A c \in DOMAIN map : ArgsOK(map[c].args)

ParsedOK ==
    /\ ArgsOK(args)
    /\ \A fn \in app.idle \cup app.init : ArgsOK(fn.args)
    /\ FnsOK(app.exceptions) /\ FnsOK(app.interrupts) /\ FnsOK(app.tasks)

LEMMA DefaultOK == ArgsOK(DefaultArgs)
BY DEF ArgsOK, DefaultArgs, ArgFields, Byte

LEMMA ParsedInit == Init => ParsedOK
BY DefaultOK DEF Init, SyntaxInit, ParsedOK, FnsOK, EmptyApp

LEMMA ParsedArgument == ASSUME SyntaxOK, ParsedOK, Argument PROVE ParsedOK'
<1> DEFINE arg == Item.args[read + 1]
<1>1. CASE Accepts(arg)
  <2>1. /\ args' = [args EXCEPT ![arg.key] = Meaning(arg),
                                !.given = @ \cup {arg.key}]
        /\ UNCHANGED app
    BY <1>1 DEF Argument
  <2>2. read + 1 \in DOMAIN Item.args /\ Item.item = "fn" /\ pos \in DOMAIN Items
        /\ source \in Sources
    <3>1. FnOK /\ source \in Sources
      BY DEF SyntaxOK, Argument
    <3>2. Len(Item.args) \in Nat /\ DOMAIN Item.args = 1..Len(Item.args)
      BY <3>1, SourceShape DEF FnOK, Item, Items
    <3>3. read \in 0..Len(Item.args) /\ read < Len(Item.args)
      BY <3>1 DEF FnOK, Argument
    <3> QED
      BY <3>1, <3>2, <3>3 DEF FnOK
  <2> HIDE DEF arg
  <2>3. /\ arg.key = "resources" => ToSet(arg.list) \subseteq Resources
        /\ arg.key \in {"spawn", "schedule"} => ToSet(arg.list) \subseteq Tasks
    BY <2>2, UniverseAssumption DEF Item, Items, arg
  <2>4. /\ arg.key \in Lists \cup {"priority", "capacity"}
        /\ arg.key \in {"priority", "capacity"} => arg.value \in Byte
    BY <1>1 DEF Accepts, Keys, Lists, Byte
  <2>5. /\ arg.key \in Lists => Meaning(arg) = ToSet(arg.list)
        /\ arg.key \notin Lists => Meaning(arg) = arg.value
    BY DEF Meaning
  <2>6. /\ DOMAIN args' = ArgFields
        /\ \A f \in ArgFields \ {"given"} :
              args'[f] = IF f = arg.key THEN Meaning(arg) ELSE args[f]
    BY <2>1, <2>4 DEF ParsedOK, ArgsOK, ArgFields, Lists
  <2>7. ArgsOK(args')
    BY <2>3, <2>4, <2>5, <2>6 DEF ParsedOK, ArgsOK, ArgFields, Lists
  <2> QED
    BY <2>1, <2>7 DEF ParsedOK, FnsOK, ArgsOK
<1>2. CASE ~Accepts(arg)
  BY <1>2 DEF Argument, Reject, ParsedOK, FnsOK, ArgsOK
<1> QED
  BY <1>1, <1>2

LEMMA ParsedInsert == ASSUME SyntaxOK, ParsedOK, Insert PROVE ParsedOK'
<1>1. CASE ~ValidFn
  BY <1>1 DEF Insert, Reject, ParsedOK, FnsOK, ArgsOK
<1>2. CASE ValidFn
  <2>1. ArgsOK(Fn.args)
    BY DEF Fn, ParsedOK
  <2>2. app' = WithFn /\ UNCHANGED args
    BY <1>2 DEF Insert
  <2>3. ASSUME NEW map, FnsOK(map) PROVE FnsOK(Put(map, Item.name, Fn))
    BY <2>1, <2>3 DEF Put, FnsOK
  <2>4. arm \in ArmNames /\ DOMAIN app = AppFields
    BY ArmsNamed DEF SyntaxOK, Insert, Going, ContentOK
  <2>5. /\ FnsOK(app'.exceptions) /\ FnsOK(app'.interrupts) /\ FnsOK(app'.tasks)
        /\ \A fn \in app'.idle \cup app'.init : ArgsOK(fn.args)
    BY <2>1, <2>2, <2>3, <2>4, SMTT(30), ZenonT(30) DEF WithFn, ParsedOK, ArmNames
  <2> QED
    BY <2>2, <2>5 DEF ParsedOK, FnsOK, ArgsOK
<1> QED
  BY <1>1, <1>2

LEMMA ParsedStep == ASSUME SyntaxOK, ParsedOK, SyntaxNext PROVE ParsedOK'
<1> USE DEF ParsedOK, FnsOK, ArgsOK
<1>1. CASE Function
  <2>1. CASE ArmOf(Item) = "none" \/ Taken(ArmOf(Item), Item.name)
    BY <1>1, <2>1 DEF Function, Reject
  <2>2. CASE ~(ArmOf(Item) = "none" \/ Taken(ArmOf(Item), Item.name))
    BY <1>1, <2>2, DefaultOK DEF Function
  <2> QED
    BY <2>1, <2>2
<1>2. CASE Static \/ Extern
  <2>1. DOMAIN app = AppFields
    BY <1>2 DEF Static, Extern, AtItem, SyntaxOK, Going, ContentOK
  <2>2. /\ UNCHANGED args
        /\ \A f \in AppFields \ {"resources", "free"} : app'[f] = app[f]
    BY <1>2, <2>1 DEF Static, Extern, NextItem, Reject
  <2> QED
    BY <2>2 DEF AppFields
<1>3. CASE Attribute \/ Other \/ End
  BY <1>3 DEF Attribute, Other, End, Reject
<1> QED
  BY <1>1, <1>2, <1>3, ParsedArgument, ParsedInsert DEF SyntaxNext

(* Every context, declared or not, has such arguments.                     *)
LEMMA GivenOK == ASSUME ParsedOK, NEW c PROVE ArgsOK(Given(c))
<1>1. CASE Fns(c) = {}
  BY <1>1, DefaultOK DEF Given
<1>2. CASE Fns(c) # {}
  <2>1. (CHOOSE fn \in Fns(c) : TRUE) \in Fns(c)
    BY <1>2
  <2>2. \A fn \in Fns(c) : ArgsOK(fn.args)
    BY DEF Fns, ParsedOK, FnsOK
  <2> QED
    BY <1>2, <2>1, <2>2 DEF Given
<1> QED
  BY <1>1, <1>2

LEMMA GivenByte == ASSUME ParsedOK, NEW c PROVE Given(c).priority \in Byte
BY GivenOK DEF ArgsOK

(* The bytes of priorities that the device has are in reverse order.       *)
LEMMA BytesReverse ==
    ASSUME NEW p \in 1..2^NVIC_PRIO_BITS, NEW q \in 1..2^NVIC_PRIO_BITS,
           PriorityByte(q) < PriorityByte(p)
    PROVE  p < q
<1>1. CASE NVIC_PRIO_BITS = 1
  BY <1>1 DEF PriorityByte
<1>2. CASE NVIC_PRIO_BITS = 2
  BY <1>2 DEF PriorityByte
<1>3. CASE NVIC_PRIO_BITS = 3
  BY <1>3 DEF PriorityByte
<1>4. CASE NVIC_PRIO_BITS = 4
  BY <1>4 DEF PriorityByte
<1>5. CASE NVIC_PRIO_BITS = 5
  BY <1>5 DEF PriorityByte
<1>6. CASE NVIC_PRIO_BITS = 6
  BY <1>6 DEF PriorityByte
<1>7. CASE NVIC_PRIO_BITS = 7
  BY <1>7 DEF PriorityByte
<1> QED
  BY <1>1, <1>2, <1>3, <1>4, <1>5, <1>6, <1>7, DeviceAssumption

(* Every vector has a priority that was declared, or that of a level.      *)
Dispatched == DOMAIN bound = Levels

LEMMA DeclaredByte ==
    ASSUME ParsedOK, Dispatched, NEW v \in Vectors
    PROVE  Declared(v) \in Byte
<1>1. CASE v \in Own
  <2>1. Declared(v) = Given(v).priority
    BY <1>1 DEF Declared, Timer
  <2> QED
    BY <2>1, GivenByte
<1>2. CASE v \notin Own /\ Timer(v)
  <2> DEFINE S == {1} \cup {Given(t).priority : t \in Scheduled}
  <2>1. S \subseteq 0..255
    BY GivenByte DEF Byte
  <2>2. Max(S) \in S
    BY <2>1, Largest, 255 \in Nat, SMTT(5), ZenonT(60)
  <2> QED
    BY <1>2, <2>1, <2>2 DEF Declared, Timer, TimerPriority, Byte
<1>3. CASE v \notin Own /\ ~Timer(v)
  <2>1. v \in ToSet(bound)
    BY <1>3 DEF Vectors, NVIC, Timer, Own
  <2>2. PICK l \in DOMAIN bound : bound[l] = v
    BY <2>1 DEF ToSet
  <2>3. (CHOOSE k \in DOMAIN bound : bound[k] = v) \in Levels
    BY <2>2 DEF Dispatched
  <2>4. Levels \subseteq Byte
    BY GivenByte DEF Levels
  <2> QED
    BY <1>3, <2>3, <2>4 DEF Declared
<1> QED
  BY <1>1, <1>2, <1>3

-----------------------------------------------------------------------------
(* Why handlers nest by their declared priorities: main has configured all *)
(* the vectors it does not have still to do, with the byte of a priority   *)
(* the device has, and a handler was let in only above those that run.     *)
Started == pc \notin {"compile", "rejected"}

Configured(v) ==
    Declared(v) <= 2^NVIC_PRIO_BITS /\ priority[v] = PriorityByte(Declared(v))

Within ==
    /\ pending \subseteq Vectors
    /\ stack \in Seq(Vectors)

Nested ==
    \A i, j \in 1..Len(stack) : i < j => priority[stack[j]] < priority[stack[i]]

PreemptOK ==
    /\ stack = <<>> \/ (Within /\ Nested)
    /\ ~Started => pending = {}
    /\ Started =>
          /\ Dispatched /\ Known
          /\ ToSet(bound) \subseteq Interrupts
          /\ Within
          /\ DOMAIN priority = Handlers
    /\ pc = "post_init" => \A v \in Vectors \ todo : Configured(v)
    /\ pc = "idle" => \A v \in Vectors : Configured(v)
    /\ DOMAIN priority = Handlers

(* What was declared does not change while app and bound do not.           *)
LEMMA FnsKept == ASSUME UNCHANGED app, NEW c PROVE Fns(c)' = Fns(c)
BY DEF Fns

LEMMA GivenKept == ASSUME UNCHANGED app, NEW c PROVE Given(c)' = Given(c)
<1> DEFINE G(fns) == IF fns = {} THEN DefaultArgs ELSE (CHOOSE fn \in fns : TRUE).args
<1>1. Given(c) = G(Fns(c)) /\ Given(c)' = G(Fns(c)')
  BY DEF Given
<1> HIDE DEF G
<1> QED
  BY <1>1, FnsKept

LEMMA DeclaredKept ==
    ASSUME UNCHANGED <<app, bound>>
    PROVE  /\ Vectors' = Vectors /\ NVIC' = NVIC
           /\ Dispatched' <=> Dispatched
           /\ Known' <=> Known
           /\ \A v \in Vectors : Declared(v)' = Declared(v)
<1>1. Scheduled' = Scheduled /\ Levels' = Levels
  BY GivenKept DEF Scheduled, Levels
<1>2. ToSet(bound)' = ToSet(bound)
  BY DEF ToSet
<1>3. Vectors' = Vectors /\ NVIC' = NVIC
  BY <1>1, <1>2 DEF Vectors, NVIC
<1>4. (Dispatched' <=> Dispatched) /\ (Known' <=> Known)
  BY <1>1 DEF Dispatched, Known
<1>5. TimerPriority' = TimerPriority
  <2> DEFINE S == {1} \cup {Given(t).priority : t \in Scheduled}
  <2>1. S' = S
    BY <1>1, GivenKept
  <2>2. TimerPriority = Max(S) /\ TimerPriority' = Max(S')
    BY DEF TimerPriority
  <2> HIDE DEF S
  <2> QED
    BY <2>1, <2>2
<1>6. ASSUME NEW v \in Vectors PROVE Declared(v)' = Declared(v)
  <2> DEFINE D(b) == CHOOSE l \in DOMAIN b : b[l] = v
  <2>1. CASE v \in Own
    BY <2>1, GivenKept DEF Declared, Own, Timer
  <2>2. CASE v \notin Own /\ Timer(v)
    BY <2>2, <1>5 DEF Declared, Own, Timer
  <2>3. CASE v \notin Own /\ ~Timer(v)
    <3>1. Declared(v) = D(bound) /\ Declared(v)' = D(bound')
      BY <2>3 DEF Declared, Own, Timer
    <3> HIDE DEF D
    <3> QED
      BY <3>1
  <2> QED
    BY <2>1, <2>2, <2>3
<1> QED
  BY <1>3, <1>4, <1>6

LEMMA AppKept == ASSUME UNCHANGED app PROVE Levels' = Levels /\ (Known' <=> Known)
BY GivenKept DEF Levels, Known, Scheduled

(* A step of main that configures no handler, and pends and runs none.     *)
LEMMA QuietStep ==
    ASSUME PreemptOK, UNCHANGED <<app, bound, priority, pending, stack>>,
           Started, Started',
           pc' = "post_init" => \A v \in Vectors \ todo' : Configured(v),
           pc' = "idle" => \A v \in Vectors : Configured(v)
    PROVE  PreemptOK'
<1>1. \A v \in Vectors : Configured(v)' <=> Configured(v)
  BY DeclaredKept DEF Configured
<1>2. (Within' <=> Within) /\ (Nested' <=> Nested) /\ ToSet(bound)' = ToSet(bound)
  BY DeclaredKept DEF Within, Nested, ToSet
<1> QED
  BY <1>1, <1>2, DeclaredKept DEF PreemptOK

LEMMA CheckStep == ASSUME PreemptOK, GuardOK, Check PROVE PreemptOK'
<1>1. stack = <<>> /\ pending = {}
  BY DEF Check, GuardOK
<1>2. UNCHANGED <<app, priority, pending, stack>> /\ DOMAIN priority = Handlers
  BY DEF Check, syntaxVars, hwVars, PreemptOK
<1>3. CASE pc' = "rejected"
  BY <1>1, <1>2, <1>3 DEF PreemptOK, Started
<1>4. CASE pc' = "main" /\ Known /\ bound' \in Injection(Levels, UNION app.free)
  <2>1. Dispatched' /\ Known'
    BY <1>2, <1>4, AppKept DEF Dispatched, Injection
  <2>2. ToSet(bound)' \subseteq Interrupts
    <3>1. \A l \in DOMAIN bound' : bound'[l] \in UNION app.free
      BY <1>4 DEF Injection
    <3> QED
      BY <3>1, <1>4 DEF ToSet, Known
  <2>3. Within'
    BY <1>1, <1>2 DEF Within
  <2> QED
    BY <1>1, <1>2, <1>4, <2>1, <2>2, <2>3 DEF PreemptOK, Started
<1> QED
  BY <1>3, <1>4 DEF Check

LEMMA SetPriorityStep ==
    ASSUME PreemptOK, NEW v \in todo, SetPriority(v)
    PROVE  PreemptOK'
<1>1. /\ pc = "post_init" /\ stack = <<>>
      /\ UNCHANGED <<app, bound, pending, stack>>
  BY DEF SetPriority, Due, At, syntaxVars
<1>2. Started /\ Within
  BY <1>1 DEF Started, PreemptOK
<1>3. CASE Declared(v) <= 2^NVIC_PRIO_BITS
  <2>1. /\ priority' = [priority EXCEPT ![v] = PriorityByte(Declared(v))]
        /\ todo' = todo \ {v} /\ pc' = "post_init"
    BY <1>1, <1>3 DEF SetPriority
  <2>2. DOMAIN priority = Handlers /\ Vectors \subseteq Handlers
    BY <1>1, <1>2, NamesAssumption DEF PreemptOK, Vectors, NVIC, Known, Handlers
  <2>3. ASSUME NEW w \in Vectors \ todo' PROVE Configured(w)'
    <3>1. Declared(w)' = Declared(w)
      BY <1>1, DeclaredKept
    <3>2. CASE w = v
      BY <1>3, <2>1, <2>2, <3>1, <3>2 DEF Configured
    <3>3. CASE w # v
      <4>1. Configured(w)
        BY <1>1, <2>1, <3>3 DEF PreemptOK
      <4> QED
        BY <2>1, <2>2, <3>1, <3>3, <4>1 DEF Configured
    <3> QED
      BY <3>2, <3>3
  <2>4. \A w \in (Vectors \ todo)' : Configured(w)'
    BY <2>3, <1>1, DeclaredKept
  <2>5. /\ Dispatched' /\ Known' /\ ToSet(bound)' \subseteq Interrupts /\ Within'
        /\ DOMAIN priority' = Handlers
    BY <1>1, <1>2, <2>1, DeclaredKept DEF PreemptOK, Within, ToSet
  <2> QED
    BY <1>1, <2>1, <2>4, <2>5 DEF PreemptOK, Started
<1>4. CASE ~(Declared(v) <= 2^NVIC_PRIO_BITS)
  <2>1. pc' = "panicked" /\ UNCHANGED priority
    BY <1>4 DEF SetPriority
  <2> QED
    BY <1>1, <1>2, <2>1, QuietStep DEF Started
<1> QED
  BY <1>3, <1>4

(* A step that leaves main where it is.                                    *)
LEMMA SameStep ==
    ASSUME PreemptOK,
           UNCHANGED <<app, bound, priority, todo, pc>>,
           stack' = <<>> \/ (Within' /\ Nested'),
           Started => Within',
           ~Started => pending' = {}
    PROVE  PreemptOK'
<1>1. \A v \in Vectors : Configured(v)' <=> Configured(v)
  BY DeclaredKept DEF Configured
<1> QED
  BY <1>1, DeclaredKept DEF PreemptOK, Started, ToSet

LEMMA PendStep ==
    ASSUME PreemptOK, NEW v \in Vectors, Pend(v)
    PROVE  PreemptOK'
<1>1. /\ UNCHANGED <<app, bound, priority, todo, pc, stack>>
      /\ Started /\ pending' = pending \cup {v}
  BY DEF Pend, Started, syntaxVars, mainVars
<1>2. Within' /\ (Nested' <=> Nested)
  BY <1>1, DeclaredKept DEF PreemptOK, Within, Nested
<1> QED
  BY <1>1, <1>2, SameStep DEF PreemptOK

LEMMA TakeStep ==
    ASSUME PreemptOK, NEW v \in Vectors, Take(v)
    PROVE  PreemptOK'
<1>1. /\ UNCHANGED <<app, bound, priority, todo, pc>>
      /\ stack' = Append(stack, v) /\ pending' = pending \ {v} /\ v \in pending
      /\ \A w \in ToSet(stack) : priority[v] < priority[w]
  BY DEF Take, syntaxVars, mainVars
<1>2. Started /\ Within
  BY <1>1 DEF PreemptOK
<1>3. Within'
  BY <1>1, <1>2, DeclaredKept DEF Within
<1>4. Nested
  BY <1>2 DEF PreemptOK, Nested
<1>5. Nested'
  <2>1. \A i \in 1..Len(stack) : stack'[i] = stack[i] /\ priority[v] < priority[stack[i]]
    BY <1>1, <1>2 DEF Within, ToSet
  <2>2. Len(stack') = Len(stack) + 1 /\ stack'[Len(stack) + 1] = v /\ Len(stack) \in Nat
    BY <1>1, <1>2 DEF Within
  <2> QED
    BY <1>1, <1>4, <2>1, <2>2 DEF Nested
<1> QED
  BY <1>1, <1>2, <1>3, <1>5, SameStep

LEMMA ReturnStep ==
    ASSUME PreemptOK, Return
    PROVE  PreemptOK'
<1>1. /\ UNCHANGED <<app, bound, priority, todo, pc, pending>>
      /\ stack # <<>> /\ stack' = Front(stack)
  BY DEF Return, syntaxVars, mainVars
<1>2. Within /\ Nested
  BY <1>1 DEF PreemptOK
<1>3. stack' = SubSeq(stack, 1, Len(stack) - 1) /\ Len(stack) >= 1
  BY <1>1, <1>2 DEF Front, Within
<1>4. Within'
  BY <1>1, <1>2, <1>3, DeclaredKept DEF Within
<1>5. Nested'
  <2>1. Len(stack) \in Nat /\ Len(stack') = Len(stack) - 1
    <3>1. Len(stack) \in Nat /\ stack \in Seq(Vectors)
      BY <1>2 DEF Within
    <3>2. \A i \in 1..Len(stack) - 1 : stack[i] \in Vectors
      BY <3>1
    <3>3. Len(SubSeq(stack, 1, Len(stack) - 1)) = Len(stack) - 1
      <4> DEFINE n == Len(stack) - 1
      <4>1. n \in Nat
        BY <1>3, <3>1
      <4> HIDE DEF n
      <4>2. Len(SubSeq(stack, 1, n)) = IF 1 <= n THEN n - 1 + 1 ELSE 0
        BY <3>2, <4>1, SubSeqProperties DEF n
      <4> QED
        BY <4>1, <4>2 DEF n
    <3> QED
      BY <1>3, <3>1, <3>3
  <2>2. \A i \in 1..Len(stack') : stack'[i] = stack[i] /\ i \in 1..Len(stack)
    BY <1>2, <1>3, <2>1 DEF Within
  <2> QED
    BY <1>1, <1>2, <2>1, <2>2 DEF Nested
<1> QED
  BY <1>1, <1>4, <1>5, SameStep DEF PreemptOK

LEMMA PreemptStep ==
    ASSUME GuardOK, PreemptOK, [Next]_vars
    PROVE  PreemptOK'
<1>1. CASE Parse
  BY <1>1, ParserStops DEF Parse, GuardOK, PreemptOK, Started, mainVars, hwVars, Before
<1>2. CASE Check
  BY <1>2, CheckStep
<1>3. CASE Disable \/ PreInit \/ CallInit \/ Statement \/ Assign \/ Panic
  <2>1. /\ UNCHANGED <<app, bound, priority, pending, stack>>
        /\ Started /\ Started' /\ pc' \notin {"post_init", "idle"}
    BY <1>3 DEF Disable, PreInit, CallInit, Statement, Assign, Panic, At, Started,
                syntaxVars, hwVars
  <2> QED
    BY <2>1, QuietStep
<1>4. CASE FinishInit
  <2>1. /\ UNCHANGED <<app, bound, priority, pending, stack>>
        /\ Started /\ Started' /\ pc' = "post_init" /\ todo' = Vectors
    BY <1>4 DEF FinishInit, InitDone, At, Started, syntaxVars, hwVars
  <2> QED
    BY <2>1, QuietStep
<1>5. CASE CallIdle
  <2>1. /\ UNCHANGED <<app, bound, priority, pending, stack>>
        /\ Started /\ Started' /\ pc' = "idle" /\ pc = "post_init" /\ todo = {}
    BY <1>5 DEF CallIdle, At, Started, syntaxVars
  <2> QED
    BY <2>1, QuietStep DEF PreemptOK
<1>6. CASE \E v \in todo : EnableInterrupt(v)
  <2>1. /\ UNCHANGED <<app, bound, priority, pending, stack, todo, pc>>
        /\ Started /\ Started' /\ pc = "post_init"
    BY <1>6 DEF EnableInterrupt, Due, At, Started, syntaxVars, mainVars
  <2> QED
    BY <2>1, QuietStep DEF PreemptOK
<1>7. CASE \E v \in todo : SetPriority(v)
  BY <1>7, SetPriorityStep
<1>8. CASE UNCHANGED vars
  <2>1. UNCHANGED <<app, bound, priority, pending, todo, pc, stack>>
    BY <1>8 DEF vars
  <2>2. (Within' <=> Within) /\ (Nested' <=> Nested)
    BY <2>1, DeclaredKept DEF Within, Nested
  <2> QED
    BY <2>1, <2>2, SameStep DEF PreemptOK
<1>9. CASE \E v \in Vectors : Pend(v)
  BY <1>9, PendStep
<1>10. CASE \E v \in Vectors : Take(v)
  BY <1>10, TakeStep
<1>11. CASE Return
  BY <1>11, ReturnStep
<1> QED
  BY <1>1, <1>2, <1>3, <1>4, <1>5, <1>6, <1>7, <1>8, <1>9, <1>10, <1>11 DEF Next, Main

LEMMA Inductive == Spec => [](GuardOK /\ ParsedOK /\ PreemptOK)
<1>1. Init => PreemptOK
  <2> SUFFICES ASSUME Init PROVE PreemptOK
    OBVIOUS
  <2>1. stack = <<>> /\ pending = {} /\ pc = "compile" /\ DOMAIN priority = Handlers
    BY DEF Init
  <2> QED
    BY <2>1 DEF PreemptOK, Started
<1>2. ASSUME SyntaxOK, ParsedOK, [Next]_vars PROVE ParsedOK'
  <2>1. SyntaxNext \/ UNCHANGED syntaxVars
    BY <1>2, ParserAlone
  <2>2. CASE UNCHANGED syntaxVars
    BY <1>2, <2>2 DEF ParsedOK, FnsOK, ArgsOK, syntaxVars
  <2> QED
    BY <1>2, <2>1, <2>2, ParsedStep
<1> QED
  BY <1>1, <1>2, ParserInvariant, GuardInit, GuardStep, ParsedInit, PreemptStep,
     PTL DEF Spec

(* Handlers preempt by the priorities they were declared with, for every   *)
(* source and every device of 1 to 7 priority bits, whatever was pending   *)
(* while post_init configured them.                                        *)
THEOREM Preemption == Spec => []PreemptsByPriority
<1>1. ASSUME ParsedOK, GuardOK, PreemptOK PROVE PreemptsByPriority
  <2> SUFFICES ASSUME \A v \in ToSet(stack) : Declared(v) > 0,
                      NEW i \in DOMAIN stack, NEW j \in DOMAIN stack, i < j
               PROVE  Declared(stack[i]) < Declared(stack[j])
    BY DEF PreemptsByPriority
  <2>1. pc = "idle" /\ stack # <<>>
    <3>1. stack # <<>>
      OBVIOUS
    <3> QED
      BY <3>1, <1>1 DEF GuardOK
  <2>2. Within /\ Nested /\ Dispatched
    BY <2>1, <1>1 DEF PreemptOK, Started
  <2>3. DOMAIN stack = 1..Len(stack) /\ stack[i] \in Vectors /\ stack[j] \in Vectors
    BY <2>2 DEF Within
  <2>4. Declared(stack[i]) > 0 /\ Declared(stack[j]) > 0
    BY DEF ToSet
  <2>5. Declared(stack[i]) \in Byte /\ Declared(stack[j]) \in Byte
    BY <1>1, <2>2, <2>3, DeclaredByte
  <2>6. Configured(stack[i]) /\ Configured(stack[j])
    BY <1>1, <2>1, <2>3 DEF PreemptOK
  <2>7. priority[stack[j]] < priority[stack[i]]
    BY <2>2, <2>3 DEF Nested
  <2>8. /\ Declared(stack[i]) \in 1..2^NVIC_PRIO_BITS
        /\ Declared(stack[j]) \in 1..2^NVIC_PRIO_BITS
    <3>1. 2^NVIC_PRIO_BITS \in Int
      BY DeviceAssumption
    <3> QED
      BY <2>4, <2>5, <2>6, <3>1 DEF Byte, Configured
  <2> QED
    BY <2>6, <2>7, <2>8, BytesReverse DEF Configured
<1> QED
  BY <1>1, Inductive, PTL

-----------------------------------------------------------------------------
(* Why nothing is read before it is set.  What check::app accepted: the    *)
(* messages a context sends are those of tasks, init uses no late resource *)
(* and assigns all of them.  pre_init sets every cell, and a free queue    *)
(* before its slots are put into it, which a second initialisation would   *)
(* lose.                                                                   *)
CheckedOK ==
    Started =>
       /\ verdict = "ok"
       /\ \A c \in Contexts : Given(c).spawn \cup Given(c).schedule \subseteq DOMAIN app.tasks
       /\ Given("init").resources \cap Late = {}
       /\ Late \subseteq {a.name : a \in ToSet(InitFn.assigns)}
       /\ Late \subseteq Resources

CellsOK ==
    /\ pc = "pre_init" =>
          /\ todo \subseteq Cells
          /\ Cells \ todo \subseteq initialized
          /\ \A t \in DOMAIN app.tasks : <<"free", t>> \in todo => <<"slots", t>> \in todo
    /\ pc \in {"init", "post_init", "idle"} => Cells \subseteq initialized

(* The assignments init ran so far have set their resources.               *)
Done == Len(ran) - Len(InitFn.stmts)

LateOK ==
    /\ pc = "init" =>
          \A k \in 1..Len(InitFn.assigns) :
             k <= Done /\ InitFn.assigns[k].name \in Late =>
                <<"late", InitFn.assigns[k].name>> \in initialized
    /\ pc \in {"post_init", "idle"} => {"late"} \X Late \subseteq initialized

(* init runs its statements, then the assignments; a resource has the      *)
(* value of the last assignment to it that ran.                            *)
Step(k) ==
    IF k <= Len(InitFn.stmts) THEN InitFn.stmts[k]
                              ELSE InitFn.assigns[k - Len(InitFn.stmts)]

Latest(k) ==
    /\ k \in 1..Len(InitFn.assigns) /\ k <= Done
    /\ InitFn.assigns[k].name \in Late
    /\ \A l \in 1..Len(InitFn.assigns) :
          k < l /\ l <= Done => InitFn.assigns[l].name # InitFn.assigns[k].name

RunOK ==
    /\ IsSeq(ran)
    /\ pc \in Before \cup {"pre_init"} => ran = <<>>
    /\ pc \in {"init", "post_init", "idle"} =>
          /\ \A k \in 1..Len(ran) : ran[k] = Step(k).at
          /\ \A k \in 1..Len(InitFn.assigns) : Latest(k) => value[InitFn.assigns[k].name] = InitFn.assigns[k].at
    /\ DOMAIN value = Resources
    /\ pc \in {"post_init", "idle"} => Len(ran) = Len(InitFn.stmts) + Len(InitFn.assigns)

ReadsOK == CheckedOK /\ CellsOK /\ LateOK /\ RunOK

LEMMA AppFacts ==
    ASSUME UNCHANGED app
    PROVE  /\ Late' = Late /\ InitFn' = InitFn /\ Scheduled' = Scheduled
           /\ \A c : Given(c)' = Given(c)
<1>1. Scheduled' = Scheduled /\ Late' = Late
  BY GivenKept DEF Scheduled, Late
<1>2. InitFn' = InitFn
  <2> DEFINE I(fns) == CHOOSE fn \in fns : TRUE
  <2>1. InitFn = I(app.init) /\ InitFn' = I(app'.init)
    BY DEF InitFn
  <2> HIDE DEF I
  <2> QED
    BY <2>1
<1> QED
  BY <1>1, <1>2, GivenKept

LEMMA ReadsKept ==
    ASSUME UNCHANGED <<app, bound>>
    PROVE  /\ Cells' = Cells
           /\ \A c : Reads(c)' = Reads(c)
           /\ \A v : Needs(v)' = Needs(v)
<1>1. Scheduled' = Scheduled /\ Late' = Late /\ ToSet(bound)' = ToSet(bound)
  BY AppFacts DEF ToSet
<1>2. Cells' = Cells
  BY <1>1 DEF Cells
<1>3. \A t : Dispatcher(t)' = Dispatcher(t) /\ Times(t)' = Times(t) /\ Inbox(t)' = Inbox(t)
  BY GivenKept DEF Dispatcher, Times, Inbox
<1>4. \A c : Reads(c)' = Reads(c)
  BY <1>1, <1>3, GivenKept DEF Reads
<1>5. \A v : Served(v)' = Served(v) /\ (Timer(v)' <=> Timer(v))
  BY <1>3 DEF Served, Timer, Own
<1>6. \A v : Needs(v)' = Needs(v)
  BY <1>1, <1>3, <1>4, <1>5 DEF Needs
<1> QED
  BY <1>2, <1>4, <1>6

(* What init became, of the body it was written with.                      *)
LEMMA InitBody ==
    ASSUME SyntaxOK, verdict = "ok"
    PROVE  /\ IsSeq(Body) /\ InPlace(Body)
           /\ InitFn.stmts = Remaining(Body) /\ InitFn.assigns = Assigns(Body)
<1>1. ContentOK /\ app.init # {} /\ source \in Sources
  BY DEF SyntaxOK, Going
<1>2. InitFn \in app.init
  BY <1>1 DEF InitFn
<1>3. PastOf("init") # {} /\ PastOf("init") = Positions("init")
  BY <1>1, ReadToEnd DEF ContentOK, Single
<1>4. PICK i \in PastOf("init") : i = CHOOSE j \in Positions("init") : TRUE
  BY <1>3
<1>5. Body = Stmts(Items[i].body)
  BY <1>4 DEF Body, Items
<1>6. Matches(InitFn, Items[i])
  BY <1>1, <1>2, <1>4 DEF ContentOK, Single
<1>7. Items[i].item = "fn" /\ ArmOf(Items[i]) = "init" /\ i \in DOMAIN Items
  BY <1>4 DEF PastOf, Past
<1>8. IsSeq(Items[i].body) /\ InPlace(Items[i].body)
  BY <1>1, <1>7, SourceShape
<1> QED
  BY <1>5, <1>6, <1>7, <1>8, StmtsShape DEF Matches

LEMMA InitLengths ==
    ASSUME SyntaxOK, verdict = "ok"
    PROVE  /\ Len(InitFn.stmts) \in Nat /\ Len(InitFn.assigns) \in Nat
           /\ DOMAIN InitFn.assigns = 1..Len(InitFn.assigns)
<1>1. InitFn.stmts \in Seq(ToSet(Body)) /\ InitFn.assigns \in Seq(ToSet(Body))
  BY InitBody, StatementsStay, AssignsMove DEF Stays, Moves
<1> QED
  BY <1>1

LEMMA CheckedStep ==
    ASSUME GuardOK, CheckedOK, [Next]_vars
    PROVE  CheckedOK'
<1>1. CASE Parse
  BY <1>1, ParserStops DEF Parse, GuardOK, Before, Started, mainVars, CheckedOK
<1>2. CASE Check
  <2>1. UNCHANGED <<app, verdict>> /\ verdict = "ok"
    BY <1>2 DEF Check, syntaxVars
  <2>2. CASE ~Started'
    BY <2>2 DEF CheckedOK
  <2>3. CASE Started'
    <3>1. Macro!Valid
      BY <1>2, <2>3 DEF Check, Started
    <3>2. /\ Application.uses["init"] \cap Application.late = {}
          /\ Application.late \subseteq Application.assigned
          /\ \A c \in Contexts :
                Application.spawn[c] \cup Application.schedule[c] \subseteq Application.tasks
      BY <3>1 DEF Macro!Valid, Macro!Contexts, Contexts
    <3>3. "init" \in Contexts
      BY DEF Contexts
    <3>4. /\ Given("init").resources \cap Late = {}
          /\ Late \subseteq {a.name : a \in ToSet(InitFn.assigns)} /\ Late \subseteq Resources
          /\ \A c \in Contexts :
                Given(c).spawn \cup Given(c).schedule \subseteq DOMAIN app.tasks
      BY <3>2, <3>3 DEF Application
    <3> QED
      BY <2>1, <3>4, AppFacts DEF CheckedOK, Contexts
  <2> QED
    BY <2>2, <2>3
<1>3. CASE ~Parse /\ ~Check
  <2>1. UNCHANGED <<app, verdict>> /\ (Started' <=> Started)
    BY <1>3 DEF Next, Main, Disable, PreInit, CallInit, Statement, Assign, Panic,
                FinishInit, InitDone, CallIdle, EnableInterrupt, SetPriority, Due, At,
                Pend, Take, Return, vars, syntaxVars, mainVars, hwVars, Started
  <2> QED
    BY <2>1, AppFacts DEF CheckedOK, Contexts
<1> QED
  BY <1>1, <1>2, <1>3

LEMMA PreInitStep == ASSUME CellsOK, PreInit PROVE CellsOK'
<1>1. /\ pc = "pre_init" /\ UNCHANGED <<app, bound, pc>>
      /\ todo \subseteq Cells /\ Cells \ todo \subseteq initialized
      /\ \A t \in DOMAIN app.tasks : <<"free", t>> \in todo => <<"slots", t>> \in todo
  BY DEF PreInit, At, CellsOK, syntaxVars
<1>2. PICK c \in todo :
         /\ \A d \in todo : Rank(c) <= Rank(d)
         /\ todo' = todo \ {c}
         /\ initialized' =
               (initialized \ IF c[1] = "free" THEN {<<"slots", c[2]>>} ELSE {}) \cup {c}
  BY DEF PreInit
<1>3. Cells' = Cells
  BY <1>1, ReadsKept
<1>4. \A d \in Cells : d = <<d[1], d[2]>>
  BY DEF Cells
<1>5. \A d \in Cells : d[1] = "free" => d[2] \in DOMAIN app.tasks
  BY DEF Cells
<1>6. \A t : Rank(<<"free", t>>) = 4 /\ Rank(<<"slots", t>>) = 6
  <2>1. DOMAIN Group = 1..6
    BY DEF Group
  <2> QED
    BY <2>1 DEF Rank, Group
<1>7. Cells \ todo' \subseteq initialized'
  <2> SUFFICES ASSUME NEW d \in Cells, d \notin todo', d # c PROVE d \in initialized'
    BY <1>2
  <2>1. d \in initialized /\ d \notin todo
    BY <1>1, <1>2
  <2>2. ~(c[1] = "free" /\ d = <<"slots", c[2]>>)
    BY <1>1, <1>2, <1>4, <1>5, <2>1
  <2> QED
    BY <1>2, <2>1, <2>2
<1>8. ASSUME NEW t \in DOMAIN app.tasks, <<"free", t>> \in todo'
      PROVE  <<"slots", t>> \in todo'
  <2>1. <<"free", t>> \in todo /\ <<"slots", t>> \in todo
    BY <1>1, <1>2, <1>8
  <2>2. c # <<"slots", t>>
    <3>1. Rank(c) <= 4
      BY <1>2, <1>6, <2>1
    <3> QED
      BY <1>6, <3>1
  <2> QED
    BY <1>2, <2>1, <2>2
<1> QED
  BY <1>1, <1>2, <1>3, <1>7, <1>8 DEF CellsOK

LEMMA CellsStep ==
    ASSUME GuardOK, CellsOK, [Next]_vars
    PROVE  CellsOK'
<1>1. CASE Parse \/ Check
  BY <1>1, ParserStops DEF Parse, Check, GuardOK, mainVars, CellsOK
<1>2. CASE Disable
  <2>1. /\ UNCHANGED <<app, bound>> /\ todo' = Cells /\ pc' = "pre_init"
    BY <1>2 DEF Disable, syntaxVars
  <2>2. Cells' = Cells
    BY <2>1, ReadsKept
  <2>3. \A t \in DOMAIN app.tasks : <<"slots", t>> \in Cells
    BY DEF Cells
  <2> QED
    BY <2>1, <2>2, <2>3 DEF CellsOK
<1>3. CASE PreInit
  BY <1>3, PreInitStep
<1>4. CASE ~Parse /\ ~Check /\ ~Disable /\ ~PreInit
  <2>1. /\ UNCHANGED <<app, bound>> /\ initialized \subseteq initialized'
        /\ pc' = "pre_init" => pc = "pre_init" /\ UNCHANGED <<todo, initialized>>
        /\ pc' \in {"init", "post_init", "idle"} =>
              \/ pc \in {"init", "post_init", "idle"}
              \/ pc = "pre_init" /\ todo = {}
    BY <1>4 DEF Next, Main, CallInit, Statement, Assign, Panic,
                FinishInit, InitDone, CallIdle, EnableInterrupt, SetPriority, Due, At,
                Pend, Take, Return, vars, syntaxVars, mainVars, hwVars
  <2>2. Cells' = Cells
    BY <2>1, ReadsKept
  <2> QED
    BY <2>1, <2>2 DEF CellsOK
<1> QED
  BY <1>1, <1>2, <1>3, <1>4

Appended(longer, list, x) == longer = Append(list, x)

LEMMA RunsOn ==
    ASSUME NEW list, IsSeq(list), NEW longer, NEW x, Appended(longer, list, x)
    PROVE  /\ IsSeq(longer) /\ Len(list) \in Nat
           /\ Len(longer) = Len(list) + 1 /\ longer[Len(longer)] = x
           /\ \A i \in 1..Len(list) : longer[i] = list[i]
<1> DEFINE all == ToSet(list) \cup {x}
<1>1. list \in Seq(all) /\ DOMAIN list = 1..Len(list) /\ Len(list) \in Nat
  BY DEF IsSeq
<1>2. PICK n \in Nat : n = Len(list) + 1
  BY <1>1
<1> HIDE DEF all
<1>3. /\ longer \in Seq(all) /\ Len(longer) = n /\ DOMAIN longer = 1..n /\ longer[n] = x
      /\ \A i \in 1..Len(list) : longer[i] = list[i]
  BY <1>1, <1>2 DEF all, Appended
<1> QED
  BY <1>1, <1>2, <1>3, OwnMembers, Zenon

LEMMA StatementStep == ASSUME SyntaxOK, GuardOK, LateOK, RunOK, Statement PROVE LateOK' /\ RunOK'
<1>1. /\ pc = "init" /\ UNCHANGED <<app, bound, pc, initialized, value>> /\ verdict = "ok"
      /\ ran' = Append(ran, InitFn.stmts[Len(ran) + 1].at)
      /\ Len(ran) < Len(InitFn.stmts)
  BY DEF Statement, At, Ran, syntaxVars, GuardOK
<1>2. /\ IsSeq(ran') /\ Len(ran) \in Nat
      /\ Len(ran') = Len(ran) + 1 /\ ran'[Len(ran')] = InitFn.stmts[Len(ran) + 1].at
      /\ \A i \in 1..Len(ran) : ran'[i] = ran[i]
  <2>1. PICK list, x, longer :
           list = ran /\ x = InitFn.stmts[Len(ran) + 1].at /\ longer = ran'
    OBVIOUS
  <2>2. IsSeq(list) /\ Appended(longer, list, x)
    BY <1>1, <2>1 DEF RunOK, Appended
  <2>3. /\ IsSeq(longer) /\ Len(list) \in Nat
        /\ Len(longer) = Len(list) + 1 /\ longer[Len(longer)] = x
        /\ \A i \in 1..Len(list) : longer[i] = list[i]
    BY <2>2, RunsOn
  <2> QED
    BY <2>1, <2>3
<1>3. Late' = Late /\ InitFn' = InitFn
  BY <1>1, AppFacts
<1>4. Len(InitFn.stmts) \in Nat /\ Len(InitFn.assigns) \in Nat
  BY <1>1, InitLengths
<1>5. \A k \in 1..Len(InitFn.assigns) : ~(k <= Done')
  <2>1. PICK n \in Nat, s \in Nat, a \in Nat :
           n = Len(ran) /\ s = Len(InitFn.stmts) /\ a = Len(InitFn.assigns)
    BY <1>2, <1>4
  <2>2. Done' = n + 1 - s /\ n < s
    BY <1>1, <1>2, <1>3, <2>1 DEF Done
  <2>3. \A k \in 1..a : ~(k <= n + 1 - s)
    BY <2>2
  <2> QED
    BY <2>1, <2>2, <2>3
<1>6. ASSUME NEW k \in 1..Len(ran') PROVE ran'[k] = Step(k)'.at
  <2>1. Step(k)' = Step(k)
    BY <1>3 DEF Step
  <2>2. CASE k \in 1..Len(ran)
    BY <1>1, <1>2, <2>1, <2>2 DEF RunOK
  <2>3. CASE k = Len(ran) + 1
    <3>1. k <= Len(InitFn.stmts)
      BY <1>1, <1>2, <1>4, <2>3
    <3>2. Step(k) = InitFn.stmts[k]
      BY <3>1 DEF Step
    <3> QED
      BY <1>2, <2>1, <2>3, <3>2
  <2> QED
    BY <1>2, <1>6, <2>2, <2>3
<1>7. \A k : ~Latest(k)'
  BY <1>3, <1>5 DEF Latest
<1> QED
  BY <1>1, <1>2, <1>3, <1>5, <1>6, <1>7 DEF LateOK, RunOK, Before

LEMMA AssignStep ==
    ASSUME SyntaxOK, GuardOK, CheckedOK, LateOK, RunOK, Assign
    PROVE  LateOK' /\ RunOK'
<1>1. /\ pc = "init" /\ UNCHANGED <<app, bound, pc>> /\ verdict = "ok"
      /\ ran' = Append(ran, Assignment.at)
      /\ Len(ran) \in Len(InitFn.stmts) .. Len(InitFn.stmts) + Len(InitFn.assigns) - 1
      /\ IF Assignment.name \in Late
         THEN /\ initialized' = initialized \cup {<<"late", Assignment.name>>}
              /\ value' = [value EXCEPT ![Assignment.name] = Assignment.at]
         ELSE UNCHANGED <<initialized, value>>
  BY DEF Assign, At, Ran, syntaxVars, GuardOK
<1>2. /\ IsSeq(ran') /\ Len(ran) \in Nat
      /\ Len(ran') = Len(ran) + 1 /\ ran'[Len(ran')] = Assignment.at
      /\ \A i \in 1..Len(ran) : ran'[i] = ran[i]
  <2>1. PICK list, x, longer : list = ran /\ x = Assignment.at /\ longer = ran'
    OBVIOUS
  <2>2. IsSeq(list) /\ Appended(longer, list, x)
    BY <1>1, <2>1 DEF RunOK, Appended
  <2>3. /\ IsSeq(longer) /\ Len(list) \in Nat
        /\ Len(longer) = Len(list) + 1 /\ longer[Len(longer)] = x
        /\ \A i \in 1..Len(list) : longer[i] = list[i]
    BY <2>2, RunsOn
  <2> QED
    BY <2>1, <2>3
<1>3. Late' = Late /\ InitFn' = InitFn
  BY <1>1, AppFacts
<1>4. Len(InitFn.stmts) \in Nat /\ Len(InitFn.assigns) \in Nat
  BY <1>1, InitLengths
<1>5. PICK n \in Nat : n = Done
  <2>1. Len(ran) - Len(InitFn.stmts) \in Nat
    BY <1>1, <1>4
  <2> QED
    BY <2>1 DEF Done
<1>6. PICK m \in Nat : m = n + 1
  BY <1>5
<1>7. Done' = m /\ m \in 1..Len(InitFn.assigns) /\ Assignment = InitFn.assigns[m]
  <2>1. PICK l \in Nat, s \in Nat, a \in Nat :
           l = Len(ran) /\ s = Len(InitFn.stmts) /\ a = Len(InitFn.assigns)
    BY <1>2, <1>4
  <2>2. n = l - s /\ l \in s .. s + a - 1 /\ Done' = l + 1 - s
    <3>1. Done = l - s /\ Done' = Len(ran') - s
      BY <1>3, <2>1 DEF Done
    <3>2. Len(ran') = l + 1
      BY <1>2, <2>1
    <3>3. l \in s .. s + a - 1
      BY <1>1, <2>1
    <3> QED
      BY <1>5, <3>1, <3>2, <3>3
  <2>3. l + 1 - s = m /\ l - s + 1 = m /\ m \in 1..a
    BY <1>6, <2>2
  <2> QED
    BY <2>1, <2>2, <2>3 DEF Assignment
<1>8. \A k \in 1..Len(InitFn.assigns) : k <= m => k = m \/ k <= n
  BY <1>4, <1>5, <1>6
<1>9. LateOK'
  <2> SUFFICES ASSUME NEW k \in 1..Len(InitFn.assigns), k <= m,
                      InitFn.assigns[k].name \in Late
               PROVE  <<"late", InitFn.assigns[k].name>> \in initialized'
    BY <1>1, <1>3, <1>7 DEF LateOK
  <2>1. CASE k <= n
    BY <1>1, <1>5, <2>1 DEF LateOK
  <2>2. CASE k = m
    BY <1>1, <1>7, <2>2
  <2> QED
    BY <1>8, <2>1, <2>2
<1>10. ASSUME NEW k \in 1..Len(ran') PROVE ran'[k] = Step(k)'.at
  <2>1. Step(k)' = Step(k)
    BY <1>3 DEF Step
  <2>2. CASE k \in 1..Len(ran)
    BY <1>1, <1>2, <2>1, <2>2 DEF RunOK
  <2>3. CASE k = Len(ran) + 1
    <3>1. k - Len(InitFn.stmts) = m /\ ~(k <= Len(InitFn.stmts))
      BY <1>1, <1>2, <1>4, <1>5, <1>6, <2>3 DEF Done
    <3>2. Step(k) = InitFn.assigns[m]
      BY <3>1 DEF Step
    <3> QED
      BY <1>2, <1>7, <2>1, <2>3, <3>2
  <2> QED
    BY <1>2, <1>10, <2>2, <2>3
<1>11. ASSUME NEW k, Latest(k)'
       PROVE  value'[InitFn.assigns[k].name] = InitFn.assigns[k].at
  <2>1. /\ k \in 1..Len(InitFn.assigns) /\ k <= m /\ InitFn.assigns[k].name \in Late
        /\ \A l \in 1..Len(InitFn.assigns) :
              k < l /\ l <= m => InitFn.assigns[l].name # InitFn.assigns[k].name
    BY <1>3, <1>7, <1>11 DEF Latest
  <2>2. DOMAIN value = Resources /\ Late \subseteq Resources
    BY <1>1 DEF RunOK, CheckedOK, Started
  <2>3. CASE k = m
    BY <1>1, <1>7, <2>1, <2>2, <2>3
  <2>4. CASE k <= n
    <3>1. k < m /\ \A l \in 1..Len(InitFn.assigns) : l <= n => l <= m
      BY <1>5, <1>6, <2>1, <2>4
    <3>2. Latest(k)
      BY <1>5, <2>1, <2>4, <3>1 DEF Latest
    <3>3. Assignment.name # InitFn.assigns[k].name
      BY <1>5, <1>6, <1>7, <2>1, <3>1
    <3> QED
      BY <1>1, <2>1, <2>2, <3>2, <3>3 DEF RunOK
  <2> QED
    BY <1>8, <2>1, <2>3, <2>4
<1> QED
  BY <1>1, <1>2, <1>3, <1>9, <1>10, <1>11 DEF LateOK, RunOK, Before

(* A step that neither runs nor sets anything, and after which init has    *)
(* not come further.                                                       *)
LEMMA RunKept ==
    ASSUME LateOK, RunOK, UNCHANGED <<app, ran, value, initialized>>,
           pc' \in Before \cup {"pre_init"} => pc \in Before \cup {"pre_init"},
           pc' = "init" => pc = "init",
           pc' \in {"post_init", "idle"} => pc \in {"post_init", "idle"}
    PROVE  LateOK' /\ RunOK'
<1>1. Late' = Late /\ InitFn' = InitFn
  BY AppFacts
<1>2. Done' = Done /\ (\A k : Step(k)' = Step(k)) /\ (\A k : Latest(k)' <=> Latest(k))
  BY <1>1 DEF Done, Step, Latest
<1> QED
  BY <1>1, <1>2 DEF LateOK, RunOK

LEMMA CallInitStep ==
    ASSUME SyntaxOK, GuardOK, RunOK, CallInit
    PROVE  LateOK' /\ RunOK'
<1>1. /\ pc = "pre_init" /\ pc' = "init" /\ verdict = "ok" /\ ran = <<>>
      /\ UNCHANGED <<app, ran, value>>
  BY DEF CallInit, At, syntaxVars, GuardOK, RunOK
<1>2. InitFn' = InitFn /\ Late' = Late
  BY <1>1, AppFacts
<1>3. \A k \in 1..Len(InitFn.assigns) : ~(k <= Done')
  <2>1. PICK s \in Nat, a \in Nat : s = Len(InitFn.stmts) /\ a = Len(InitFn.assigns)
    BY <1>1, InitLengths
  <2>2. Done' = 0 - s
    BY <1>1, <1>2, <2>1 DEF Done
  <2> QED
    BY <2>1, <2>2
<1>4. Len(ran') = 0 /\ IsSeq(ran') /\ DOMAIN value' = Resources
  BY <1>1 DEF RunOK
<1>5. \A k : ~Latest(k)'
  BY <1>2, <1>3 DEF Latest
<1> QED
  BY <1>1, <1>2, <1>3, <1>4, <1>5 DEF LateOK, RunOK, Before

LEMMA FinishStep ==
    ASSUME SyntaxOK, GuardOK, CheckedOK, LateOK, RunOK, FinishInit
    PROVE  LateOK' /\ RunOK'
<1>1. /\ pc = "init" /\ pc' = "post_init" /\ verdict = "ok"
      /\ Len(ran) = Len(InitFn.stmts) + Len(InitFn.assigns)
      /\ UNCHANGED <<app, ran, value, initialized>>
  BY DEF FinishInit, InitDone, At, syntaxVars, GuardOK
<1>2. /\ Late' = Late /\ InitFn' = InitFn /\ Done' = Done
      /\ \A k : Step(k)' = Step(k) /\ (Latest(k)' <=> Latest(k))
  <2>1. Late' = Late /\ InitFn' = InitFn
    BY <1>1, AppFacts
  <2> QED
    BY <1>1, <2>1 DEF Done, Step, Latest
<1>3. Done = Len(InitFn.assigns) /\ DOMAIN InitFn.assigns = 1..Len(InitFn.assigns)
  <2>1. PICK s \in Nat, a \in Nat : s = Len(InitFn.stmts) /\ a = Len(InitFn.assigns)
    BY <1>1, InitLengths
  <2>2. Done = s + a - s
    BY <1>1, <2>1 DEF Done
  <2> QED
    BY <1>1, <2>1, <2>2, InitLengths
<1>4. ASSUME NEW r \in Late PROVE <<"late", r>> \in initialized
  <2>1. PICK k \in 1..Len(InitFn.assigns) : InitFn.assigns[k].name = r
    <3>1. r \in {a.name : a \in ToSet(InitFn.assigns)}
      BY <1>1, <1>4 DEF CheckedOK, Started
    <3> QED
      BY <1>3, <3>1 DEF ToSet
  <2>2. k <= Done
    BY <1>3, <2>1
  <2> QED
    BY <1>1, <1>4, <2>1, <2>2 DEF LateOK
<1>5. {"late"} \X Late' \subseteq initialized'
  BY <1>1, <1>2, <1>4
<1> QED
  BY <1>1, <1>2, <1>5 DEF LateOK, RunOK, Before

LEMMA RunStep ==
    ASSUME SyntaxOK, GuardOK, CheckedOK, LateOK, RunOK, [Next]_vars
    PROVE  LateOK' /\ RunOK'
<1>1. CASE Parse \/ Check
  <2>1. pc = "compile" /\ pc' \in Before /\ UNCHANGED <<ran, value>>
    BY <1>1, ParserStops DEF Parse, Check, GuardOK, mainVars, Before
  <2> QED
    BY <2>1 DEF LateOK, RunOK, Before
<1>2. CASE PreInit
  <2>1. pc = "pre_init" /\ pc' = "pre_init" /\ UNCHANGED <<ran, value>>
    BY <1>2 DEF PreInit, At
  <2> QED
    BY <2>1 DEF LateOK, RunOK, Before
<1>3. CASE CallInit \/ Statement \/ Assign \/ FinishInit
  BY <1>3, CallInitStep, StatementStep, AssignStep, FinishStep
<1>4. CASE ~(Parse \/ Check \/ PreInit \/ CallInit \/ Statement \/ Assign \/ FinishInit)
  <2>1. /\ UNCHANGED <<app, ran, value, initialized>>
        /\ pc' \in Before \cup {"pre_init"} => pc \in Before \cup {"pre_init"}
        /\ pc' = "init" => pc = "init"
        /\ pc' \in {"post_init", "idle"} => pc \in {"post_init", "idle"}
    BY <1>4 DEF Next, Main, Disable, Panic, CallIdle, EnableInterrupt, SetPriority, Due,
                At, Pend, Take, Return, vars, syntaxVars, mainVars, hwVars, Before
  <2> QED
    BY <2>1, RunKept
<1> QED
  BY <1>1, <1>2, <1>3, <1>4

LEMMA SetBeforeRead == Spec => [](GuardOK /\ PreemptOK /\ SyntaxOK /\ ReadsOK)
<1>1. Init => ReadsOK
  <2> SUFFICES ASSUME Init PROVE ReadsOK
    OBVIOUS
  <2>1. pc = "compile" /\ ran = <<>> /\ DOMAIN value = Resources
    BY DEF Init
  <2>2. IsSeq(ran)
    BY <2>1 DEF IsSeq
  <2> QED
    BY <2>1, <2>2 DEF ReadsOK, CheckedOK, CellsOK, LateOK, RunOK, Started, Before
<1>2. SyntaxOK /\ GuardOK /\ ReadsOK /\ [Next]_vars => ReadsOK'
  BY CheckedStep, CellsStep, RunStep DEF ReadsOK
<1> QED
  BY <1>1, <1>2, Inductive, ParserInvariant, PTL DEF Spec

(* The queues of a task are set up.                                        *)
LEMMA TaskCells ==
    ASSUME Started, PreemptOK, NEW t \in DOMAIN app.tasks
    PROVE  /\ Inbox(t) \cup Times(t) \cup {<<"ready", Dispatcher(t)>>} \subseteq Cells
           /\ t \in Contexts
<1>1. Dispatched /\ Known
  BY DEF PreemptOK
<1>2. Given(t).priority \in DOMAIN bound
  BY <1>1 DEF Dispatched, Levels
<1>3. Dispatcher(t) \in ToSet(bound)
  BY <1>2 DEF Dispatcher, ToSet
<1> QED
  BY <1>1, <1>3 DEF Inbox, Times, Cells, Known, Contexts

(* The queues of the messages a context sends, and the late resources it   *)
(* uses, are among what is set.                                            *)
LEMMA ReadsSet ==
    ASSUME Started, PreemptOK, CheckedOK, NEW c \in Contexts
    PROVE  Reads(c) \subseteq Cells \cup ({"late"} \X (Given(c).resources \cap Late))
<1>1. Given(c).spawn \subseteq DOMAIN app.tasks /\ Given(c).schedule \subseteq DOMAIN app.tasks
  BY DEF CheckedOK
<1>2. Given(c).schedule # {} => <<"timer_queue", "SysTick">> \in Cells
  <2>1. Given(c).schedule \subseteq Scheduled
    BY DEF Scheduled
  <2> QED
    BY <2>1 DEF Cells
<1>3. \A t \in Given(c).spawn :
         Inbox(t) \cup Times(t) \cup {<<"ready", Dispatcher(t)>>} \subseteq Cells
  BY <1>1, TaskCells
<1>4. \A t \in Given(c).schedule :
         Inbox(t) \cup Times(t) \cup {<<"timer_queue", "SysTick">>} \subseteq Cells
  BY <1>1, <1>2, TaskCells
<1> QED
  BY <1>3, <1>4 DEF Reads

(* Whatever context runs, at whatever moment it was let in, every late     *)
(* resource and every queue it reads has been set.                         *)
THEOREM SetWhenRead == Spec => []NoUninitRead
<1>1. ASSUME GuardOK, PreemptOK, ReadsOK PROVE NoUninitRead
  <2>1. ASSUME pc = "init" PROVE Reads("init") \subseteq initialized
    <3>1. Started /\ CheckedOK /\ Cells \subseteq initialized
      BY <1>1, <2>1 DEF ReadsOK, CellsOK, Started
    <3>2. Given("init").resources \cap Late = {} /\ "init" \in Contexts
      BY <3>1 DEF CheckedOK, Contexts
    <3> QED
      BY <1>1, <3>1, <3>2, ReadsSet
  <2>2. ASSUME pc = "idle", NEW c \in Contexts PROVE Reads(c) \subseteq initialized
    <3>1. /\ Started /\ CheckedOK /\ Cells \subseteq initialized
          /\ {"late"} \X Late \subseteq initialized
      BY <1>1, <2>2 DEF ReadsOK, CellsOK, LateOK, Started
    <3> QED
      BY <1>1, <2>2, <3>1, ReadsSet
  <2>3. "idle" \in Contexts
    BY DEF Contexts
  <2>4. ASSUME NEW v \in ToSet(stack) PROVE Needs(v) \subseteq initialized
    <3>1. pc = "idle" /\ Started /\ Within /\ Known /\ ToSet(bound) \subseteq Interrupts
      BY <1>1, <2>4 DEF GuardOK, PreemptOK, Started, ToSet
    <3>2. Cells \subseteq initialized /\ CheckedOK
      BY <1>1, <3>1 DEF ReadsOK, CellsOK
    <3>3. v \in Vectors
      BY <2>4, <3>1 DEF Within, ToSet
    <3>4. CASE Timer(v)
      <4>1. v = "SysTick" /\ v \notin ToSet(bound) /\ Scheduled # {}
        BY <3>1, <3>3, <3>4, NamesAssumption DEF Timer, Vectors, NVIC, Own
      <4>2. Scheduled \subseteq DOMAIN app.tasks
        BY <3>1, <3>2 DEF CheckedOK, Scheduled
      <4>3. \A t \in Scheduled : <<"ready", Dispatcher(t)>> \in Cells
        BY <1>1, <3>1, <4>2, TaskCells
      <4>4. <<"timer_queue", "SysTick">> \in Cells
        BY <4>1 DEF Cells
      <4>5. Needs(v) = {<<"timer_queue", "SysTick">>}
                          \cup {<<"ready", Dispatcher(t)>> : t \in Scheduled}
        BY <3>4, <4>1 DEF Needs
      <4> QED
        BY <3>2, <4>3, <4>4, <4>5
    <3>5. CASE ~Timer(v) /\ v \in ToSet(bound)
      <4>1. <<"ready", v>> \in Cells
        BY <3>5 DEF Cells
      <4>2. \A t \in Served(v) : /\ Inbox(t) \cup Times(t) \subseteq initialized
                                 /\ Reads(t) \subseteq initialized
        BY <1>1, <2>2, <3>1, <3>2, TaskCells DEF Served
      <4> QED
        BY <3>2, <3>5, <4>1, <4>2 DEF Needs
    <3>6. CASE ~Timer(v) /\ v \notin ToSet(bound)
      <4>1. v \in Contexts
        BY <3>1, <3>3, <3>6, NamesAssumption
           DEF Vectors, NVIC, Timer, Known, Contexts, Handlers
      <4> QED
        BY <2>2, <3>1, <3>6, <4>1 DEF Needs
    <3> QED
      BY <3>4, <3>5, <3>6
  <2> QED
    BY <2>1, <2>2, <2>3, <2>4 DEF NoUninitRead
<1> QED
  BY <1>1, SetBeforeRead, PTL

-----------------------------------------------------------------------------
(* The body of init is expanded to all of its statements: u and v say      *)
(* where in the body a statement and an assignment come from.              *)
Origin(u, v, k) ==
    IF k <= Len(InitFn.stmts) THEN u[k] ELSE v[k - Len(InitFn.stmts)]

Expanded(u, v) ==
    /\ Stays(u, Body) /\ Moves(v, Body)
    /\ \A i \in DOMAIN Body :
          \/ \E k \in 1..Len(InitFn.stmts) : u[k] = i
          \/ i > Opening(Body) /\ \E k \in 1..Len(InitFn.assigns) : v[k] = i

(* Where the closing assignments begin.                                    *)
LEMMA Closed ==
    ASSUME NEW stmts, IsSeq(stmts)
    PROVE  /\ DOMAIN stmts = 1..Len(stmts) /\ Len(stmts) \in Nat
           /\ Opening(stmts) \in 0..Len(stmts)
           /\ \A i \in DOMAIN stmts : i > Opening(stmts) => stmts[i].stmt \in Closing
           /\ Opening(stmts) > 0 => stmts[Opening(stmts)].stmt \notin Closing
<1>1. DOMAIN stmts = 1..Len(stmts) /\ Len(stmts) \in Nat
  BY Sequence
<1>2. PICK t, L, n : t = Opening(stmts) /\ L = Len(stmts) /\ n = Len(Assignments(stmts))
  OBVIOUS
<1>3. /\ t \in 0..L /\ n = L - t
      /\ \A j \in 1..n : stmts[t + j].stmt \in Closing
      /\ t > 0 => stmts[t].stmt \notin Closing
  BY <1>2, EndFound, SMTT(30), ZenonT(30)
<1>4. ASSUME NEW i \in 1..L, i > t PROVE stmts[i].stmt \in Closing
  <2>1. PICK j \in 1..n : i = t + j
    <3>1. i - t \in 1..n /\ i = t + (i - t)
      BY <1>1, <1>2, <1>3, <1>4
    <3> QED
      BY <3>1
  <2> QED
    BY <1>3, <2>1
<1> QED
  BY <1>1, <1>2, <1>3, <1>4

LEMMA Expansion ==
    ASSUME SyntaxOK, verdict = "ok"
    PROVE  \E u, v : Expanded(u, v)
<1>1. /\ IsSeq(Body) /\ InitFn.stmts = Remaining(Body) /\ InitFn.assigns = Assigns(Body)
  BY InitBody
<1>2. PICK b : b = Body
  OBVIOUS
<1>3. PICK u : /\ Stays(u, b)
               /\ \A i \in DOMAIN b : i <= Opening(b) \/ b[i].stmt = "place" =>
                     \E k \in 1..Len(Remaining(b)) : u[k] = i
  BY <1>1, <1>2, StatementsStay
<1>4. PICK v : /\ Moves(v, b)
               /\ \A i \in DOMAIN b : i > Opening(b) /\ b[i].stmt = "assign" =>
                     \E k \in 1..Len(Assigns(b)) : v[k] = i
  BY <1>1, <1>2, AssignsMove
<1>5. /\ \A i \in DOMAIN b : i > Opening(b) => b[i].stmt \in Closing
      /\ \A i \in DOMAIN b : i <= Opening(b) \/ i > Opening(b)
  <2>1. IsSeq(b)
    BY <1>1, <1>2
  <2>2. DOMAIN b = 1..Len(b) /\ Opening(b) \in 0..Len(b)
    BY <2>1, Closed
  <2> QED
    BY <2>1, <2>2, Closed
<1>6. \A i \in DOMAIN b :
         \/ \E k \in 1..Len(Remaining(b)) : u[k] = i
         \/ i > Opening(b) /\ \E k \in 1..Len(Assigns(b)) : v[k] = i
  BY <1>3, <1>4, <1>5 DEF Closing
<1>7. Expanded(u, v)
  BY <1>1, <1>2, <1>3, <1>4, <1>6, Zenon DEF Expanded
<1> QED
  BY <1>7

LEMMA PlacesDiffer ==
    ASSUME NEW stmts, InPlace(stmts), NEW i \in DOMAIN stmts, NEW j \in DOMAIN stmts,
           DOMAIN stmts = 1..Len(stmts)
    PROVE  stmts[i].at = stmts[j].at => i = j
<1>1. i < j \/ i = j \/ j < i
  OBVIOUS
<1>2. stmts[i].at \in Nat /\ stmts[j].at \in Nat
  BY DEF InPlace
<1>3. (i < j => stmts[i].at < stmts[j].at) /\ (j < i => stmts[j].at < stmts[i].at)
  BY DEF InPlace
<1> QED
  BY <1>1, <1>2, <1>3

(* ran is the places of the body in that order.                            *)
Through(u, v) ==
    /\ \A k \in DOMAIN ran :
          Origin(u, v, k) \in DOMAIN Body /\ ran[k] = Body[Origin(u, v, k)].at
    /\ \A j, k \in DOMAIN ran : Origin(u, v, j) = Origin(u, v, k) => j = k
    /\ \A i \in DOMAIN Body : \E k \in DOMAIN ran : Origin(u, v, k) = i
    /\ \A j, k \in DOMAIN ran :
          j < k /\ Body[Origin(u, v, k)].stmt # "assign" =>
             Origin(u, v, j) < Origin(u, v, k)

LEMMA RanThrough ==
    ASSUME SyntaxOK, verdict = "ok", RunOK, pc \in {"post_init", "idle"},
           NEW u, NEW v, Expanded(u, v)
    PROVE  Through(u, v)
<1>1. PICK b, R, S :
         b = Body /\ R = Len(InitFn.stmts) /\ S = Len(InitFn.assigns)
  OBVIOUS
<1>2. R \in Nat /\ S \in Nat
  BY <1>1, InitLengths
<1>3. /\ IsSeq(b) /\ InitFn.stmts = Remaining(b) /\ InitFn.assigns = Assigns(b)
  BY <1>1, InitBody
<1>4. /\ \A k \in 1..R : /\ u[k] \in DOMAIN b /\ InitFn.stmts[k] = b[u[k]]
                         /\ u[k] > Opening(b) => b[u[k]].stmt = "place"
      /\ \A j, k \in 1..R : j < k => u[j] < u[k]
  BY <1>1, <1>3 DEF Expanded, Stays
<1>5. /\ \A k \in 1..S : /\ v[k] \in DOMAIN b /\ InitFn.assigns[k] = b[v[k]]
                         /\ v[k] > Opening(b) /\ b[v[k]].stmt = "assign"
      /\ \A j, k \in 1..S : j < k => v[k] < v[j]
  BY <1>1, <1>3 DEF Expanded, Moves
<1>6. \A i \in DOMAIN b : (\E k \in 1..R : u[k] = i) \/ (\E k \in 1..S : v[k] = i)
  BY <1>1 DEF Expanded
<1>7. \A i \in DOMAIN b : i \in Int
  BY <1>3, Closed
<1>8. DOMAIN ran = 1..R + S
  BY <1>1, Sequence DEF RunOK
<1>9. \A k \in 1..R + S :
         \/ k \in 1..R /\ k <= R
         \/ k - R \in 1..S /\ ~(k <= R)
  BY <1>2
<1>10. /\ \A k \in 1..R : Origin(u, v, k) = u[k] /\ Step(k) = b[u[k]]
       /\ \A k \in 1..R + S : ~(k <= R) =>
             Origin(u, v, k) = v[k - R] /\ Step(k) = b[v[k - R]]
  <2>1. \A k \in 1..R : k <= R
    BY <1>2
  <2> QED
    BY <1>1, <1>4, <1>5, <1>9, <2>1 DEF Origin, Step
<1>11. ASSUME NEW k \in DOMAIN ran
       PROVE  Origin(u, v, k) \in DOMAIN b /\ ran[k] = b[Origin(u, v, k)].at
  <2>1. ran[k] = Step(k).at
    BY <1>1, <1>8, <1>11 DEF RunOK
  <2> QED
    BY <1>4, <1>5, <1>8, <1>9, <1>10, <1>11, <2>1
<1>12. \A j \in 1..R, k \in 1..S : u[j] # v[k]
  BY <1>4, <1>5
<1>13. ASSUME NEW j \in DOMAIN ran, NEW k \in DOMAIN ran, j < k
       PROVE  /\ Origin(u, v, j) # Origin(u, v, k)
              /\ b[Origin(u, v, k)].stmt # "assign" => Origin(u, v, j) < Origin(u, v, k)
  <2>1. CASE k <= R
    <3>1. j \in 1..R /\ k \in 1..R
      BY <1>2, <1>8, <1>13, <2>1
    <3>2. u[j] < u[k] /\ u[j] \in Int /\ u[k] \in Int
      BY <1>4, <1>7, <1>13, <3>1
    <3>3. Origin(u, v, j) = u[j] /\ Origin(u, v, k) = u[k]
      BY <1>10, <3>1
    <3> QED
      BY <3>2, <3>3
  <2>2. CASE ~(k <= R)
    <3>1. k - R \in 1..S /\ Origin(u, v, k) = v[k - R]
      BY <1>8, <1>9, <1>10, <2>2
    <3>2. b[Origin(u, v, k)].stmt = "assign"
      BY <1>5, <3>1
    <3>3. CASE j <= R
      <4>1. j \in 1..R
        BY <1>8, <1>9, <3>3
      <4>2. Origin(u, v, j) = u[j]
        BY <1>10, <4>1
      <4> QED
        BY <1>12, <3>1, <3>2, <4>1, <4>2
    <3>4. CASE ~(j <= R)
      <4>1. j - R \in 1..S /\ Origin(u, v, j) = v[j - R] /\ j - R < k - R
        BY <1>2, <1>8, <1>9, <1>10, <1>13, <3>4
      <4>2. v[k - R] < v[j - R] /\ v[k - R] \in Int /\ v[j - R] \in Int
        BY <1>5, <1>7, <3>1, <4>1
      <4> QED
        BY <3>1, <3>2, <4>1, <4>2
    <3> QED
      BY <3>3, <3>4
  <2> QED
    BY <2>1, <2>2
<1>14. ASSUME NEW j \in DOMAIN ran, NEW k \in DOMAIN ran, Origin(u, v, j) = Origin(u, v, k)
       PROVE  j = k
  <2>1. j < k \/ j = k \/ k < j
    BY <1>2, <1>8, <1>14
  <2> QED
    BY <1>13, <1>14, <2>1
<1>15. ASSUME NEW i \in DOMAIN b PROVE \E k \in DOMAIN ran : Origin(u, v, k) = i
  <2>1. CASE \E k \in 1..R : u[k] = i
    <3>1. \A k \in 1..R : k \in 1..R + S
      BY <1>2
    <3> QED
      BY <1>8, <1>10, <2>1, <3>1
  <2>2. CASE \E k \in 1..S : v[k] = i
    <3>1. PICK k \in 1..S : v[k] = i
      BY <2>2
    <3>2. PICK m : m = R + k
      OBVIOUS
    <3>3. m \in 1..R + S /\ ~(m <= R) /\ m - R = k
      BY <1>2, <3>1, <3>2
    <3> QED
      BY <1>8, <1>10, <3>1, <3>3
  <2> QED
    BY <1>6, <1>15, <2>1, <2>2
<1> QED
  BY <1>1, <1>11, <1>13, <1>14, <1>15 DEF Through

(* init runs every statement of every body exactly once, those that stay   *)
(* statements in the order they are written in.                            *)
THEOREM EachOnce == Spec => []StatementsOnce
<1>1. ASSUME GuardOK, SyntaxOK, RunOK PROVE StatementsOnce
  <2> SUFFICES ASSUME pc \in {"post_init", "idle"} PROVE StatementsOnce
    BY DEF StatementsOnce
  <2>1. verdict = "ok"
    BY <1>1 DEF GuardOK
  <2>2. PICK u, v : Expanded(u, v)
    BY <1>1, <2>1, Expansion
  <2> DEFINE w(k) == Origin(u, v, k)
  <2>3. /\ \A k \in DOMAIN ran : w(k) \in DOMAIN Body /\ ran[k] = Body[w(k)].at
        /\ \A j, k \in DOMAIN ran : w(j) = w(k) => j = k
        /\ \A i \in DOMAIN Body : \E k \in DOMAIN ran : w(k) = i
        /\ \A j, k \in DOMAIN ran :
              j < k /\ Body[w(k)].stmt # "assign" => w(j) < w(k)
    <3>1. Through(u, v)
      BY <1>1, <2>1, <2>2, RanThrough
    <3> QED
      BY <3>1 DEF Through
  <2> HIDE DEF w
  <2>4. IsSeq(Body) /\ InPlace(Body) /\ DOMAIN Body = 1..Len(Body)
    BY <1>1, <2>1, InitBody, Closed
  <2>5. \A i, j \in DOMAIN Body : Body[i].at = Body[j].at => i = j
    BY <2>4, PlacesDiffer
  <2>6. IsInjective(ran)
    BY <2>3, <2>5 DEF IsInjective
  <2>7. ToSet(ran) = {s.at : s \in ToSet(Body)}
    <3>1. \A x \in ToSet(ran) : \E i \in DOMAIN Body : x = Body[i].at
      BY <2>3 DEF ToSet
    <3>2. \A i \in DOMAIN Body : Body[i].at \in ToSet(ran)
      BY <2>3 DEF ToSet
    <3> QED
      BY <3>1, <3>2 DEF ToSet
  <2>8. ASSUME NEW m \in DOMAIN ran, NEW n \in DOMAIN ran, m < n,
               {ran[m], ran[n]} \subseteq Places
        PROVE  ran[m] < ran[n]
    <3>1. PICK i \in DOMAIN Body : Body[i].at = ran[n] /\ Body[i].stmt # "assign"
      BY <2>8 DEF Places, ToSet
    <3>2. i = w(n)
      BY <2>3, <2>5, <2>8, <3>1
    <3>3. w(m) < w(n)
      BY <2>3, <2>8, <3>1, <3>2
    <3> QED
      BY <2>3, <2>4, <2>8, <3>3 DEF InPlace
  <2> QED
    BY <2>6, <2>7, <2>8 DEF StatementsOnce
<1> QED
  BY <1>1, SetBeforeRead, PTL DEF ReadsOK

(* A late resource that is assigned more than once at the end of init has  *)
(* the value of the first of these assignments.                            *)
THEOREM FirstWins == Spec => []FirstAssignmentWins
<1>1. ASSUME GuardOK, SyntaxOK, CheckedOK, RunOK PROVE FirstAssignmentWins
  <2> SUFFICES ASSUME pc \in {"post_init", "idle"}, NEW r \in Late
      PROVE \E i \in DOMAIN Body :
               /\ Body[i].stmt = "assign" /\ Body[i].name = r
               /\ \A j \in i..Len(Body) : Body[j].stmt \in {"assign", "place"}
               /\ \A j \in 1..i - 1 :
                     (Body[j].stmt = "assign" /\ Body[j].name = r) =>
                        \E k \in j..i : Body[k].stmt \notin {"assign", "place"}
               /\ value[r] = Body[i].at
    BY DEF FirstAssignmentWins
  <2>1. verdict = "ok" /\ Started
    BY <1>1 DEF GuardOK, Started
  <2>2. PICK u, v : Expanded(u, v)
    BY <1>1, <2>1, Expansion
  <2>3. PICK b, S, t, L :
           b = Body /\ S = Len(InitFn.assigns) /\ t = Opening(b) /\ L = Len(b)
    OBVIOUS
  <2>4. S \in Nat /\ DOMAIN InitFn.assigns = 1..S
    BY <1>1, <2>1, <2>3, InitLengths
  <2>5. /\ DOMAIN b = 1..L /\ L \in Nat /\ t \in 0..L
        /\ \A i \in DOMAIN b : i > t => b[i].stmt \in Closing
        /\ t > 0 => b[t].stmt \notin Closing
    BY <1>1, <2>1, <2>3, InitBody, Closed
  <2>6. InitFn.assigns = Assigns(b)
    BY <1>1, <2>1, <2>3, InitBody
  <2>7. /\ \A k \in 1..S : /\ v[k] \in DOMAIN b /\ InitFn.assigns[k] = b[v[k]]
                           /\ v[k] > t /\ b[v[k]].stmt = "assign"
        /\ \A j, k \in 1..S : j < k => v[k] < v[j]
    BY <2>2, <2>3, <2>6 DEF Expanded, Moves
  <2> DEFINE K == {k \in 1..S : InitFn.assigns[k].name = r}
  <2>8. PICK k \in 1..S : InitFn.assigns[k].name = r /\ \A j \in K : j <= k
    <3>1. r \in {a.name : a \in ToSet(InitFn.assigns)}
      BY <1>1, <2>1 DEF CheckedOK
    <3>2. K # {}
      BY <2>4, <3>1 DEF ToSet
    <3>3. K \subseteq 0..S
      BY <2>4
    <3>4. Max(K) \in K /\ \A j \in K : j <= Max(K)
      <4> HIDE DEF K
      <4> QED
        BY <2>4, <3>2, <3>3, Largest
    <3> QED
      BY <3>4
  <2>9. Latest(k)
    <3>1. Done = S
      <4>1. PICK R \in Nat : R = Len(InitFn.stmts)
        BY <1>1, <2>1, InitLengths
      <4>2. Done = R + S - R
        <5>1. Len(ran) = R + S
          BY <1>1, <2>3, <4>1 DEF RunOK
        <5> QED
          BY <2>4, <4>1, <5>1 DEF Done
      <4> QED
        BY <2>4, <4>1, <4>2
    <3>2. \A l \in 1..S : k < l => InitFn.assigns[l].name # InitFn.assigns[k].name
      BY <2>4, <2>8
    <3> QED
      BY <2>3, <2>4, <2>8, <3>1, <3>2 DEF Latest
  <2>10. value[r] = b[v[k]].at
    BY <1>1, <2>3, <2>7, <2>8, <2>9 DEF RunOK
  <2>11. PICK i : i = v[k]
    OBVIOUS
  <2>12. i \in 1..L /\ i > t /\ b[i].stmt = "assign" /\ b[i].name = r
    BY <2>5, <2>7, <2>8, <2>11
  <2>13. ASSUME NEW j \in i..L PROVE b[j].stmt \in Closing
    <3>1. j \in 1..L /\ j > t
      BY <2>5, <2>12, <2>13
    <3> QED
      BY <2>5, <3>1
  <2>14. ASSUME NEW j \in 1..i - 1, b[j].stmt = "assign", b[j].name = r
         PROVE  \E l \in j..i : b[l].stmt \notin Closing
    <3>1. j \in DOMAIN b /\ j < i
      BY <2>5, <2>12, <2>14
    <3>2. ~(j > t)
      <4> SUFFICES ASSUME j > t PROVE FALSE
        OBVIOUS
      <4>1. PICK l \in 1..S : v[l] = j
        <5>1. \/ \E m \in 1..Len(InitFn.stmts) : u[m] = j
              \/ \E m \in 1..S : v[m] = j
          BY <2>2, <2>3, <3>1 DEF Expanded
        <5>2. \A m \in 1..Len(InitFn.stmts) : u[m] > t => b[u[m]].stmt = "place"
          BY <1>1, <2>1, <2>2, <2>3, InitBody DEF Expanded, Stays
        <5> QED
          BY <2>14, <5>1, <5>2
      <4>2. l \in K
        BY <2>7, <2>14, <4>1
      <4>3. l <= k
        BY <2>8, <4>2
      <4>4. CASE l = k
        BY <2>11, <3>1, <4>1, <4>4
      <4>5. CASE l < k
        BY <2>5, <2>7, <2>11, <2>12, <3>1, <4>1, <4>5
      <4> QED
        BY <4>3, <4>4, <4>5
    <3>3. t > 0 /\ t \in j..i
      BY <2>5, <2>12, <2>14, <3>1, <3>2
    <3> QED
      BY <2>5, <3>3
  <2> QED
    BY <2>3, <2>5, <2>10, <2>11, <2>12, <2>13, <2>14 DEF Closing
<1> QED
  BY <1>1, SetBeforeRead, PTL DEF ReadsOK

-----------------------------------------------------------------------------
(* Types: main works on the vectors it enables and configures, and what    *)
(* the parser hands on is an application as module Analyze assumes it.     *)
TodoOK ==
    /\ pc \in Before \cup {"init"} => todo = {}
    /\ pc \in {"post_init", "idle", "panicked"} => todo \subseteq Vectors
    /\ enabled \subseteq NVIC
    /\ priority \in [Handlers -> Byte]

LEMMA IsByte == ASSUME NEW p \in Byte PROVE PriorityByte(p) \in Byte
<1>1. ASSUME NEW n \in 1..7 PROVE (2^n - p) * 2^(8 - n) \in Int
  <2>1. CASE n = 1
    BY <2>1 DEF Byte
  <2>2. CASE n = 2
    BY <2>2 DEF Byte
  <2>3. CASE n = 3
    BY <2>3 DEF Byte
  <2>4. CASE n = 4
    BY <2>4 DEF Byte
  <2>5. CASE n = 5
    BY <2>5 DEF Byte
  <2>6. CASE n = 6
    BY <2>6 DEF Byte
  <2>7. CASE n = 7
    BY <2>7 DEF Byte
  <2> QED
    BY <2>1, <2>2, <2>3, <2>4, <2>5, <2>6, <2>7
<1>2. ASSUME NEW x \in Int PROVE x % 256 \in Byte
  BY DEF Byte
<1> QED
  BY <1>1, <1>2, DeviceAssumption DEF PriorityByte

LEMMA TodoStep ==
    ASSUME GuardOK, ParsedOK, PreemptOK, TodoOK, [Next]_vars
    PROVE  TodoOK'
<1>1. CASE Parse
  <2>1. pc = "compile" /\ UNCHANGED <<pc, todo, enabled, priority>>
    BY <1>1, ParserStops DEF Parse, GuardOK, mainVars, hwVars
  <2> QED
    BY <2>1 DEF TodoOK, GuardOK, Before
<1>2. CASE Check
  <2>1. /\ pc = "compile" /\ pc' \in {"main", "rejected"}
        /\ UNCHANGED <<todo, enabled, priority>>
    BY <1>2 DEF Check, hwVars
  <2> QED
    BY <2>1 DEF TodoOK, GuardOK, Before
<1>3. CASE \E v \in todo : EnableInterrupt(v)
  <2>1. PICK v \in todo : EnableInterrupt(v)
    BY <1>3
  <2>2. /\ UNCHANGED <<app, bound, todo, pc, priority>>
        /\ enabled' = enabled \cup {v} /\ v \in NVIC
    BY <2>1 DEF EnableInterrupt, syntaxVars, mainVars
  <2> QED
    BY <2>2, DeclaredKept DEF TodoOK
<1>4. CASE \E v \in todo : SetPriority(v)
  <2>1. PICK v \in todo : SetPriority(v)
    BY <1>4
  <2>2. /\ UNCHANGED <<app, bound, enabled>> /\ pc = "post_init"
        /\ \/ /\ priority' = [priority EXCEPT ![v] = PriorityByte(Declared(v))]
              /\ todo' = todo \ {v} /\ pc' = pc
           \/ UNCHANGED <<priority, todo>> /\ pc' = "panicked"
    BY <2>1 DEF SetPriority, Due, At, syntaxVars
  <2>3. v \in Vectors /\ Dispatched
    BY <2>2 DEF TodoOK, PreemptOK, Started
  <2>4. PriorityByte(Declared(v)) \in Byte
    BY <2>3, DeclaredByte, IsByte
  <2>5. priority' \in [Handlers -> Byte]
    BY <2>2, <2>4 DEF TodoOK
  <2> QED
    BY <2>2, <2>5, DeclaredKept DEF TodoOK, Before
<1>5. CASE ~Parse /\ ~Check /\ ~(\E v \in todo : EnableInterrupt(v) \/ SetPriority(v))
  <2>1. /\ UNCHANGED <<app, bound, enabled, priority>>
        /\ \/ UNCHANGED <<pc, todo>>
           \/ pc = "main" /\ pc' = "pre_init"
           \/ pc = "pre_init" /\ pc' = "pre_init"
           \/ todo = {} /\ todo' = {}
           \/ pc = "init" /\ pc' = "panicked" /\ UNCHANGED todo
           \/ pc' = "post_init" /\ todo' = Vectors
    BY <1>5 DEF Next, Main, Disable, PreInit, CallInit, Statement, Assign, Panic,
                FinishInit, InitDone, CallIdle, At, Pend, Take, Return, vars,
                syntaxVars, mainVars, hwVars
  <2> QED
    BY <2>1, DeclaredKept DEF TodoOK, Before
<1> QED
  BY <1>1, <1>2, <1>3, <1>4, <1>5

(* What the parser accepted, of names the device has, is an application.   *)
LEMMA AppTyped ==
    ASSUME SyntaxOK, ParsedOK, verdict = "ok", Known
    PROVE  Application \in Macro!AppType
<1>1. DOMAIN app.resources \subseteq Resources
  <2>1. ContentOK /\ source \in Sources
    BY DEF SyntaxOK, Going
  <2> QED
    BY <2>1, UniverseAssumption DEF ContentOK, Past, Items
<1>2. /\ DOMAIN app.exceptions \cup DOMAIN app.interrupts \subseteq Handlers
      /\ DOMAIN app.tasks \subseteq Tasks /\ UNION app.free \subseteq Interrupts
  BY DEF Known, Handlers
<1>3. /\ \A c : Given(c).priority \in Byte /\ Given(c).capacity \in Byte
      /\ \A c : Given(c).resources \in SUBSET Resources
      /\ \A c : Given(c).spawn \in SUBSET Tasks /\ Given(c).schedule \in SUBSET Tasks
  BY GivenOK DEF ArgsOK
<1>4. /\ Application.priority \in [Handlers \cup Tasks -> Byte]
      /\ Application.capacity \in [Tasks -> Byte]
      /\ Application.uses \in [Contexts -> SUBSET Resources]
      /\ Application.spawn \in [Contexts -> SUBSET Tasks]
      /\ Application.schedule \in [Contexts -> SUBSET Tasks]
  BY <1>3 DEF Application
<1>5. /\ Application.handlers \in SUBSET Handlers
      /\ Application.tasks \in SUBSET Tasks
      /\ Application.resources \in SUBSET Resources
      /\ Application.mutable \in SUBSET Resources
      /\ Application.late \in SUBSET Resources
      /\ Application.assigned \in SUBSET Resources
      /\ Application.free \in SUBSET Interrupts
  BY <1>1, <1>2 DEF Application, Late
<1>6. Contexts = Macro!Contexts
  BY DEF Contexts, Macro!Contexts
<1>7. Application = [handlers |-> Application.handlers, tasks |-> Application.tasks,
                     resources |-> Application.resources,
                     mutable |-> Application.mutable, late |-> Application.late,
                     assigned |-> Application.assigned, free |-> Application.free,
                     priority |-> Application.priority,
                     capacity |-> Application.capacity, uses |-> Application.uses,
                     spawn |-> Application.spawn, schedule |-> Application.schedule]
  BY DEF Application
<1> QED
  BY <1>4, <1>5, <1>6, <1>7 DEF Macro!AppType, Byte

(* Every variable has its type, and every application the parser accepts   *)
(* of names the device has is one that check::app and analyze::app are     *)
(* modelled for.                                                           *)
THEOREM Types == Spec => []TypeOK
<1>1. Init => TodoOK
  BY DEF Init, TodoOK, Byte
<1>2. GuardOK /\ ParsedOK /\ PreemptOK /\ TodoOK /\ [Next]_vars => TodoOK'
  BY TodoStep
<1>3. ASSUME GuardOK, ParsedOK, PreemptOK, SyntaxOK, ReadsOK, TodoOK PROVE TypeOK
  <2>1. /\ arm \in {"none"} \cup ToSet(Arms)
        /\ verdict \in {"attribute", "parsing", "ok", "error", "panic"}
        /\ args.priority \in 0..255 /\ args.capacity \in 0..255
    BY <1>3 DEF SyntaxOK, ParsedOK, ArgsOK, Byte
  <2>2. (verdict = "ok" /\ Known) => Application \in Macro!AppType
    BY <1>3, AppTyped
  <2>3. pc \in {"compile", "rejected", "main", "pre_init", "init", "post_init",
                "idle", "panicked"}
    BY <1>3 DEF GuardOK, Before, Masked
  <2>4. todo \subseteq IF pc = "pre_init" THEN Cells ELSE Vectors
    BY <1>3, <2>3 DEF ReadsOK, CellsOK, TodoOK, Before
  <2>5. priority \in [Handlers -> 0..255] /\ enabled \subseteq NVIC
    BY <1>3 DEF TodoOK, Byte
  <2>6. pending \cup ToSet(stack) \subseteq Vectors
    <3>1. CASE Started
      BY <1>3, <3>1 DEF PreemptOK, Within, ToSet
    <3>2. CASE ~Started
      <4>1. pending = {} /\ stack = <<>>
        BY <1>3, <3>2 DEF PreemptOK, GuardOK, Started
      <4> QED
        BY <4>1 DEF ToSet
    <3> QED
      BY <3>1, <3>2
  <2> QED
    BY <2>1, <2>2, <2>3, <2>4, <2>5, <2>6 DEF TypeOK
<1> QED
  BY <1>1, <1>2, <1>3, Inductive, SetBeforeRead, PTL DEF Spec
=============================================================================
