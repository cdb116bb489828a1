------------------------------- MODULE Syntax -------------------------------
(***************************************************************************)
(* App::parse: from the items inside `const APP` to an App, or to the      *)
(* error that stops the macro.  One step per item, and one per argument of *)
(* the attribute that makes a function part of the application.            *)
(*                                                                         *)
(* Tokens are data: an item is a record of what the parser asks about it.  *)
(*   function:  attrs, name, args, sig, inputs, body                       *)
(*   static:    name, pub, mutable, unit (its value is `()`)                *)
(*   extern:    items, each with name, fn and sig                          *)
(* An argument has a key and an integer (value, suffixed) or a list of     *)
(* names; a statement has a kind, the name it assigns, and its place `at`. *)
(***************************************************************************)
EXTENDS Integers, SequencesExt

CONSTANTS Sources,          \* what the macro is applied to
          TimerQueueFeature \* cfg!(feature = "timer-queue")

ASSUME FeatureAssumption == TimerQueueFeature \in BOOLEAN

(* Items, arguments and statements come in sequences, and statements have  *)
(* their places in the order they are written in.                          *)
IsSeq(list) == list \in Seq(ToSet(list))

InPlace(body) ==
    /\ \A i \in DOMAIN body : body[i].at \in Nat
    /\ \A i, j \in DOMAIN body : i < j => body[i].at < body[j].at

ASSUME SourcesAssumption ==
    \A s \in Sources :
       /\ IsSeq(s.items)
       /\ \A i \in DOMAIN s.items : s.items[i].item = "fn" =>
             LET x == s.items[i]
             IN  /\ IsSeq(x.args) /\ IsSeq(x.body) /\ InPlace(x.body)
                 /\ x.sig \in {"unit", "never", "invalid"}
                 /\ x.inputs \in {"none", "named", "self"}

VARIABLES source,   \* the arguments and items of the #[app] attribute
          pos,      \* the item that is parsed
          arm,      \* the kind of function being parsed, or "none"
          read,     \* arguments read of its attribute
          args,     \* what they say so far
          app,      \* the App under construction
          verdict   \* how far the parser got

syntaxVars == <<source, pos, arm, read, args, app, verdict>>

Lists == {"resources", "schedule", "spawn"}

(* The arms of the match, in the order in which attributes are looked for. *)
Arms == <<"idle", "init", "exception", "interrupt", "task">>

Named == {"exception", "interrupt", "task"}

Keys(a) == Lists \cup (IF a \in Named THEN {"priority"} ELSE {})
                 \cup (IF a = "task" THEN {"capacity"} ELSE {})

(* An attribute is recognised by its path; `#![task]`, `#[rtfm::task]` and *)
(* the like are left on the function.                                      *)
Eq(attr, name) == attr.outer /\ attr.path = <<name>>

Marks(item, name) == \E i \in DOMAIN item.attrs : Eq(item.attrs[i], name)

ArmOf(item) ==
    LET found == {n \in DOMAIN Arms : Marks(item, Arms[n])}
    IN  IF found = {} THEN "none" ELSE Arms[Min(found)]

-----------------------------------------------------------------------------
(* Bodies: the `static mut`s at the beginning become locals; the           *)
(* assignments to plain names at the end of init are taken out, the last   *)
(* one first, past assignments to other places.                            *)
Statics(body) ==
    SubSeq(body, 1, Max({n \in 0..Len(body) :
                            \A i \in 1..n : body[i].stmt = "static mut"}))

Stmts(body) == SubSeq(body, Len(Statics(body)) + 1, Len(body))

Assignments(stmts) ==
    SubSeq(stmts, 1 + Min({n \in 0..Len(stmts) :
                             \A i \in n + 1 .. Len(stmts) :
                                stmts[i].stmt \in {"assign", "place"}}),
           Len(stmts))

(* The n-th smallest of a set of indices, and the statements of a kind.    *)
Nth(indices, n) ==
    CHOOSE i \in indices : Cardinality({j \in indices : j <= i}) = n

Select(stmts, kind) ==
    LET found == {i \in DOMAIN stmts : stmts[i].stmt = kind}
    IN  [n \in 1..Cardinality(found) |-> stmts[Nth(found, n)]]

(* Mutant: assignments are generated in the order they are written in.     *)
AssignsForward(stmts) == Select(Assignments(stmts), "assign")

Assigns(stmts) == Reverse(Select(Assignments(stmts), "assign"))

(* Mutant: an assignment to another place at the end of init is dropped.   *)
RemainingShort(stmts) == SubSeq(stmts, 1, Len(stmts) - Len(Assignments(stmts)))

Remaining(stmts) ==
    SubSeq(stmts, 1, Len(stmts) - Len(Assignments(stmts)))
      \o Select(Assignments(stmts), "place")

-----------------------------------------------------------------------------
Item == source.items[pos]

DefaultArgs ==
    [priority |-> 1, capacity |-> 0, resources |-> {}, schedule |-> {},
     spawn |-> {}, given |-> {}]

EmptyApp ==
    [idle |-> {}, init |-> {}, exceptions |-> <<>>, interrupts |-> <<>>,
     tasks |-> <<>>, resources |-> <<>>, free |-> {}]

SyntaxInit ==
    /\ source \in Sources
    /\ pos = 1
    /\ arm = "none"
    /\ read = 0
    /\ args = DefaultArgs
    /\ app = EmptyApp
    /\ verdict = "attribute"

Reject ==
    /\ verdict' = "error"
    /\ UNCHANGED <<source, pos, arm, read, args, app>>

(* AppArgs::parse: `device = path` and nothing else.                       *)
Attribute ==
    /\ verdict = "attribute"
    /\ IF source.device = <<"device">>
       THEN verdict' = "parsing" /\ UNCHANGED <<source, pos, arm, read, args, app>>
       ELSE Reject

AtItem(kind) ==
    /\ verdict = "parsing"
    /\ arm = "none"
    /\ pos <= Len(source.items)
    /\ Item.item = kind

(* Mutant: the arm for tasks does not look at the interrupts.              *)
TakenTasks(a, name) ==
    CASE a = "idle" -> app.idle # {}
      [] a = "init" -> app.init # {}
      [] a = "task" -> name \in DOMAIN app.exceptions \cup DOMAIN app.tasks
      [] OTHER -> name \in DOMAIN app.exceptions \cup DOMAIN app.interrupts
                             \cup DOMAIN app.tasks

(* idle and init appear once, a name belongs to one handler or task.       *)
Taken(a, name) ==
    CASE a = "idle" -> app.idle # {}
      [] a = "init" -> app.init # {}
      [] OTHER -> name \in DOMAIN app.exceptions \cup DOMAIN app.interrupts
                             \cup DOMAIN app.tasks

Function ==
    /\ AtItem("fn")
    /\ IF ArmOf(Item) = "none" \/ Taken(ArmOf(Item), Item.name)
       THEN Reject
       ELSE /\ arm' = ArmOf(Item)
            /\ read' = 0
            /\ args' = DefaultArgs
            /\ UNCHANGED <<source, pos, app, verdict>>

(* One round of the loops of InitArgs::parse and parse_args.  A list may   *)
(* be given once; a second priority or capacity replaces the first.        *)
Accepts(arg) ==
    /\ arg.key \in Keys(arm)
    /\ arg.key = "schedule" => TimerQueueFeature
    /\ arg.key = "priority" => ~arg.suffixed /\ arg.value \in 0..255
    /\ arg.key = "capacity" => ~arg.suffixed /\ arg.value \in 1..255
    /\ arg.key \in Lists => IsInjective(arg.list) /\ arg.key \notin args.given

Meaning(arg) == IF arg.key \in Lists THEN ToSet(arg.list) ELSE arg.value

(* Mutant: the first priority stays when a second one follows.             *)
ArgumentFirst ==
    /\ arm # "none" /\ verdict = "parsing"
    /\ read < Len(Item.args)
    /\ LET arg == Item.args[read + 1]
       IN  IF Accepts(arg)
           THEN /\ args' = [args EXCEPT
                              ![arg.key] = IF arg.key \in args.given
                                           THEN @ ELSE Meaning(arg),
                              !.given = @ \cup {arg.key}]
                /\ read' = read + 1
                /\ UNCHANGED <<source, pos, arm, app, verdict>>
           ELSE Reject

Argument ==
    /\ arm # "none" /\ verdict = "parsing"
    /\ read < Len(Item.args)
    /\ LET arg == Item.args[read + 1]
       IN  IF Accepts(arg)
           THEN /\ args' = [args EXCEPT ![arg.key] = Meaning(arg),
                                        !.given = @ \cup {arg.key}]
                /\ read' = read + 1
                /\ UNCHANGED <<source, pos, arm, app, verdict>>
           ELSE Reject

(* Idle::check, Init::check, Exception::check, Interrupt::check and        *)
(* Task::check.  Exceptions and interrupts keep their statics as a list,   *)
(* in which a name may appear twice.                                       *)
ValidSignature ==
    /\ Item.sig = IF arm = "idle" THEN "never" ELSE "unit"
    /\ IF arm = "task" THEN Item.inputs # "self" ELSE Item.inputs = "none"

ValidFn ==
    /\ ValidSignature
    /\ arm \notin {"exception", "interrupt"} =>
          IsInjective([i \in DOMAIN Statics(Item.body) |-> Statics(Item.body)[i].name])

Fn ==
    LET stmts == Stmts(Item.body)
    IN  [args |-> args, statics |-> Statics(Item.body),
         stmts |-> IF arm = "init" THEN Remaining(stmts) ELSE stmts,
         assigns |-> IF arm = "init" THEN Assigns(stmts) ELSE <<>>]

(* HashMap::insert                                                         *)
Put(map, name, x) ==
    [n \in DOMAIN map \cup {name} |-> IF n = name THEN x ELSE map[n]]

WithFn ==
    CASE arm = "idle" -> [app EXCEPT !.idle = {Fn}]
      [] arm = "init" -> [app EXCEPT !.init = {Fn}]
      [] arm = "exception" -> [app EXCEPT !.exceptions = Put(@, Item.name, Fn)]
      [] arm = "interrupt" -> [app EXCEPT !.interrupts = Put(@, Item.name, Fn)]
      [] arm = "task" -> [app EXCEPT !.tasks = Put(@, Item.name, Fn)]

Insert ==
    /\ arm # "none" /\ verdict = "parsing"
    /\ read = Len(Item.args)
    /\ IF ValidFn
       THEN /\ app' = WithFn
            /\ arm' = "none"
            /\ pos' = pos + 1
            /\ UNCHANGED <<source, read, args, verdict>>
       ELSE Reject

NextItem(a) ==
    /\ app' = a
    /\ pos' = pos + 1
    /\ UNCHANGED <<source, arm, read, args, verdict>>

(* Resource::check: a resource whose initial value is `()` is late.        *)
Static ==
    /\ AtItem("static")
    /\ IF Item.pub \/ Item.name \in DOMAIN app.resources
       THEN Reject
       ELSE NextItem([app EXCEPT !.resources =
               Put(@, Item.name, [late |-> Item.unit, mutable |-> Item.mutable])])

(* FreeInterrupt::parse.  An empty block counts as one.                    *)
ValidBlock ==
    /\ \A i \in DOMAIN Item.items : Item.items[i].fn /\ Item.items[i].sig = "unit"
    /\ IsInjective([i \in DOMAIN Item.items |-> Item.items[i].name])

Extern ==
    /\ AtItem("extern")
    /\ IF app.free # {} \/ ~ValidBlock
       THEN Reject
       ELSE NextItem([app EXCEPT !.free =
               {{Item.items[i].name : i \in DOMAIN Item.items}}])

Other == AtItem("other") /\ Reject

(* The end of the items.  `expect` panics where init is missing.           *)
End ==
    /\ verdict = "parsing"
    /\ arm = "none"
    /\ pos > Len(source.items)
    /\ verdict' = IF app.init = {} THEN "panic" ELSE "ok"
    /\ UNCHANGED <<source, pos, arm, read, args, app>>

SyntaxNext ==
    \/ Attribute
    \/ Function
    \/ Argument
    \/ Insert
    \/ Static
    \/ Extern
    \/ Other
    \/ End

-----------------------------------------------------------------------------
(* What makes a source an application, whatever the order of its items:    *)
(* the shape of each item, and that no two clash.                          *)
Values(list, key) == {i \in DOMAIN list : list[i].key = key}

LegalArgs(a, list) ==
    /\ \A i \in DOMAIN list :
          /\ list[i].key \in Keys(a) \ IF TimerQueueFeature THEN {} ELSE {"schedule"}
          /\ list[i].key \in Lists => IsInjective(list[i].list)
          /\ list[i].key \notin Lists =>
                ~list[i].suffixed /\ list[i].value
                   \in (IF list[i].key = "priority" THEN 0 ELSE 1)..255
    /\ \A key \in Lists : Cardinality(Values(list, key)) <= 1

LegalFn(x) ==
    LET a      == ArmOf(x)
        locals == {i \in DOMAIN x.body : \A j \in 1..i : x.body[j].stmt = "static mut"}
    IN  /\ a # "none"
        /\ LegalArgs(a, x.args)
        /\ x.sig = "never" <=> a = "idle"
        /\ x.sig # "invalid"
        /\ x.inputs = "none" \/ (a = "task" /\ x.inputs = "named")
        /\ a \in {"idle", "init", "task"} =>
              \A i, j \in locals : x.body[i].name = x.body[j].name => i = j

LegalItem(x) ==
    CASE x.item = "fn" -> LegalFn(x)
      [] x.item = "static" -> ~x.pub
      [] x.item = "extern" ->
            \A i, j \in DOMAIN x.items :
               /\ x.items[i].fn /\ x.items[i].sig = "unit"
               /\ x.items[i].name = x.items[j].name => i = j
      [] OTHER -> FALSE

Clash(x, y) ==
    /\ x.item = y.item
    /\ \/ x.item = "extern"
       \/ x.item = "static" /\ x.name = y.name
       \/ x.item = "fn" /\ ArmOf(x) = ArmOf(y) /\ ArmOf(x) \in {"idle", "init"}
       \/ x.item = "fn" /\ {ArmOf(x), ArmOf(y)} \subseteq Named /\ x.name = y.name

Shaped ==
    /\ source.device = <<"device">>
    /\ \A i \in DOMAIN source.items : LegalItem(source.items[i])
    /\ \A i, j \in DOMAIN source.items :
          i # j => ~Clash(source.items[i], source.items[j])

Positions(a) ==
    {i \in DOMAIN source.items :
        source.items[i].item = "fn" /\ ArmOf(source.items[i]) = a}

(* What the documentation asks for besides: priorities start at 1          *)
(* (macros/src/lib.rs:165), and SysTick is no exception of the user's      *)
(* (tests/cfail/exception-sys-tick.rs:17).                                 *)
Documented(x) ==
    /\ \A i \in Values(x.args, "priority") : x.args[i].value # 0
    /\ ~(ArmOf(x) = "exception" /\ x.name = "SysTick")

WellFormed ==
    /\ Shaped
    /\ \A i \in DOMAIN source.items :
          source.items[i].item = "fn" => Documented(source.items[i])

(* The verdict does not depend on the order of the items, although every   *)
(* test for a duplicate only looks at the items before (syntax.rs:131):    *)
(* nothing well formed is refused, nothing with a malformed item or a      *)
(* clash is accepted, and the macro panics exactly when only init is       *)
(* missing.  It does not ask that a source be accepted which is Shaped but *)
(* not Documented; the parser accepts those (README, section 5).           *)
VerdictExact ==
    /\ verdict = "error" => ~WellFormed
    /\ verdict \in {"ok", "panic"} =>
          /\ Shaped
          /\ verdict = "panic" <=> Positions("init") = {}

(* Every function of an accepted source has the arguments written on it,   *)
(* and those of no other function: the last priority and capacity, their   *)
(* defaults where there is none (syntax.rs:956), and each list as given.   *)
LastValue(list, key, default) ==
    IF Values(list, key) = {} THEN default ELSE list[Max(Values(list, key))].value

Agrees(fn, x) ==
    /\ fn.args.priority = LastValue(x.args, "priority", 1)
    /\ fn.args.capacity = LastValue(x.args, "capacity", 0)
    /\ \A key \in Lists : fn.args[key] =
          UNION {ToSet(x.args[i].list) : i \in Values(x.args, key)}

ArgumentsExact ==
    verdict = "ok" =>
       /\ \A fn \in app.idle : \A i \in Positions("idle") : Agrees(fn, source.items[i])
       /\ \A fn \in app.init : \A i \in Positions("init") : Agrees(fn, source.items[i])
       /\ \A a \in Named :
             LET fns == CASE a = "exception" -> app.exceptions
                          [] a = "interrupt" -> app.interrupts
                          [] a = "task" -> app.tasks
             IN  /\ DOMAIN fns = {source.items[i].name : i \in Positions(a)}
                 /\ \A i \in Positions(a) :
                       Agrees(fns[source.items[i].name], source.items[i])
=============================================================================
