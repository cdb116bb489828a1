----------------------------- MODULE MCStartup -----------------------------
(***************************************************************************)
(* Sources to check modules Syntax and Startup on: one application in      *)
(* which everything fits, varied at one or two places at a time.           *)
(***************************************************************************)
EXTENDS Startup

MCExceptions == {"svcall", "SysTick"}
MCTasks == {"foo", "bar"}
MCResources == {"x", "y"}
MCInterrupts == {"uart", "ssi0", "qei0"}

Number(key, n) == [key |-> key, value |-> n, suffixed |-> FALSE]
List(key, names) == [key |-> key, list |-> names]
Stmt(kind, name, at) == [stmt |-> kind, name |-> name, at |-> at]
Attr(name) == [outer |-> TRUE, path |-> <<name>>]

Fun(kind, name, arguments, body) ==
    [item |-> "fn", attrs |-> <<Attr("inline"), Attr(kind)>>, name |-> name,
     args |-> arguments, sig |-> IF kind = "idle" THEN "never" ELSE "unit",
     inputs |-> IF kind = "task" THEN "named" ELSE "none", body |-> body]

StaticItem(name, late) ==
    [item |-> "static", name |-> name, pub |-> FALSE, mutable |-> TRUE, unit |-> late]

ForeignFn(name) == [name |-> name, fn |-> TRUE, sig |-> "unit"]

ExternItem(names) ==
    [item |-> "extern", items |-> [i \in DOMAIN names |-> ForeignFn(names[i])]]

(* init ends with the assignments to x and y, one of them given twice, and *)
(* an assignment to another place in between.                              *)
LongBody ==
    <<Stmt("static mut", "S", 1), Stmt("assign", "x", 2), Stmt("other", "", 3),
      Stmt("assign", "x", 4), Stmt("place", "", 5), Stmt("assign", "y", 6),
      Stmt("assign", "x", 7)>>

ShortBody == <<Stmt("static mut", "S", 1), Stmt("assign", "x", 2)>>

InitItem(arguments, body) == Fun("init", "init", arguments, body)
IdleItem(arguments) == Fun("idle", "idle", arguments, <<Stmt("other", "", 1)>>)
Handler(kind, name, arguments) == Fun(kind, name, arguments, <<Stmt("static", "S", 1)>>)

Of(items) == [device |-> <<"device">>, items |-> items]

(* Everything at once: two late resources, hardware tasks, software tasks  *)
(* at two levels, messages from init and from a handler.                   *)
Full ==
    <<StaticItem("x", TRUE), StaticItem("y", TRUE),
      InitItem(<<List("schedule", <<"bar">>), List("spawn", <<"foo">>)>>, LongBody),
      IdleItem(<<List("resources", <<"x">>)>>),
      Handler("interrupt", "uart",
              <<Number("priority", 3), List("resources", <<"x", "y">>)>>),
      Handler("task", "foo", <<List("resources", <<"x">>)>>),
      Handler("task", "bar", <<Number("priority", 2), Number("capacity", 4),
                               List("spawn", <<"foo">>)>>),
      ExternItem(<<"ssi0", "qei0">>)>>

Replaced(i, item) == [Full EXCEPT ![i] = item]

(* Start-up: priorities within and beyond those of the device, bodies of   *)
(* init that set both, one or no late resource, what init itself uses.     *)
StartUps ==
    {Of([Replaced(5, Handler("interrupt", "uart",
            <<Number("priority", 1), List("resources", <<"x">>), Number("priority", p)>>))
           EXCEPT ![7] = Handler("task", "bar", <<Number("priority", q)>>)]) :
       p \in {0, 1, 3, 4, 5}, q \in {1, 2, 4, 5}}
    \cup
    {Of([Replaced(3, InitItem(<<List("resources", r), List("spawn", s)>>, b))
           EXCEPT ![2] = StaticItem("y", l)]) :
       r \in {<<>>, <<"x">>, <<"y">>}, s \in {<<>>, <<"foo", "bar">>},
       b \in {LongBody, ShortBody, SubSeq(LongBody, 1, 5), <<>>}, l \in BOOLEAN}
    \cup
    {Of(<<Full[1], Full[2], InitItem(IF h = "svcall" THEN Full[3].args ELSE <<>>, LongBody),
          Handler("exception", h, a), Handler("interrupt", "uart", b)>>
            \o SubSeq(Full, 6, 8)) :
       h \in {"svcall", "SysTick"},
       a, b \in {<<>>, <<Number("priority", 4), List("resources", <<"y">>)>>,
                 <<List("resources", <<"x">>), List("spawn", <<"foo">>)>>}}
    \cup {Of(<<Handler("exception", "SysTick", <<>>)>> \o Full)}

(* Pairs of items in both orders, which may clash.                         *)
Extras ==
    {StaticItem("x", FALSE), [StaticItem("y", TRUE) EXCEPT !.pub = TRUE],
     ExternItem(<<"ssi0">>), ExternItem(<<"ssi0", "ssi0">>), ExternItem(<<>>),
     [item |-> "extern", items |-> <<[ForeignFn("ssi0") EXCEPT !.fn = FALSE]>>],
     [item |-> "other"], IdleItem(<<>>), InitItem(<<>>, ShortBody),
     InitItem(<<>>, <<Stmt("static mut", "S", 1), Stmt("static mut", "S", 2)>>),
     Handler("task", "foo", <<>>), Handler("interrupt", "foo", <<>>),
     Handler("exception", "foo", <<>>), Handler("interrupt", "uart", <<>>),
     Fun("interrupt", "uart", <<>>,
         <<Stmt("static mut", "S", 1), Stmt("static mut", "S", 2)>>),
     [IdleItem(<<>>) EXCEPT !.sig = "unit"],
     [Handler("task", "foo", <<>>) EXCEPT !.inputs = "self"],
     [Handler("task", "foo", <<>>) EXCEPT !.attrs =
        <<Attr("task"), Attr("init"), Attr("exception")>>, !.inputs = "none"],
     [Handler("task", "foo", <<>>) EXCEPT !.attrs =
        <<[outer |-> FALSE, path |-> <<"task">>], [outer |-> TRUE, path |-> <<"rtfm", "task">>]>>]}

Clashes ==
    {Of(i \o <<a, b>>) : a, b \in Extras, i \in {<<>>, <<InitItem(<<>>, <<>>)>>}}

(* Argument lists of up to three arguments on functions of each kind.      *)
SomeArgs ==
    {Number("priority", 0), Number("priority", 2), Number("priority", 256),
     [Number("priority", 2) EXCEPT !.suffixed = TRUE], Number("capacity", 0),
     Number("capacity", 2), Number("capacity", 256), List("resources", <<"x">>),
     List("spawn", <<"foo">>), List("spawn", <<"foo", "foo">>),
     List("schedule", <<"foo">>), List("binds", <<"x">>)}

Arguments ==
    {Of(<<InitItem(<<>>, <<Stmt("assign", "x", 1)>>), Fun(k, n, a, <<>>),
          StaticItem("x", FALSE), ExternItem(<<"ssi0">>)>>) :
       k \in {"task", "interrupt"}, n \in {"foo"},
       a \in UNION {[1..m -> SomeArgs] : m \in 1..2}}
    \cup
    {Of(<<Fun(k, k, a, <<>>)>>) : k \in {"init", "idle"}, a \in [1..2 -> SomeArgs]}
    \cup
    {[device |-> d, items |-> Full] :
       d \in {<<>>, <<"device", "device">>, <<"devices">>}}

MCSources == StartUps \cup Clashes \cup Arguments

(* Select is the SelectSeq of its kind, on every sequence of up to four    *)
(* statements.                                                             *)
ASSUME SelectAgrees ==
    \A kinds \in UNION {[1..n -> {"assign", "place", "other"}] : n \in 0..4} :
       LET stmts == [i \in DOMAIN kinds |-> Stmt(kinds[i], "x", i)]
       IN  \A kind \in {"assign", "place"} :
              Select(stmts, kind) = SelectSeq(stmts, LAMBDA s : s.stmt = kind)
=============================================================================
