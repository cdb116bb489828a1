---------------------------- MODULE SyntaxProofs ----------------------------
(***************************************************************************)
(* Lemmas about the parser, for every set of sources: what it knows after  *)
(* every item and every argument, whatever their order.                    *)
(***************************************************************************)
EXTENDS Syntax, FiniteSetTheorems, SequenceTheorems, WellFoundedInduction, TLAPS

Items == source.items

-----------------------------------------------------------------------------
(* What the arguments read so far say: the first n of a list.              *)

ArgFields == {"priority", "capacity", "resources", "schedule", "spawn", "given"}

LegalArg(a, arg) ==
    /\ arg.key \in Keys(a) \ IF TimerQueueFeature THEN {} ELSE {"schedule"}
    /\ arg.key \in Lists => IsInjective(arg.list)
    /\ arg.key \notin Lists =>
          ~arg.suffixed /\ arg.value \in (IF arg.key = "priority" THEN 0 ELSE 1)..255

(* The last of the first n arguments with a key says v.                    *)
Says(list, n, key, default, v) ==
    \/ (\A k \in 1..n : list[k].key # key) /\ v = default
    \/ \E k \in 1..n : /\ list[k].key = key /\ v = list[k].value
                       /\ \A j \in 1..n : list[j].key = key => j <= k

ReadOK(a, list, n) ==
    /\ DOMAIN args = ArgFields
    /\ \A k \in 1..n : LegalArg(a, list[k])
    /\ \A key \in Lists :
          /\ key \in args.given <=> \E k \in 1..n : list[k].key = key
          /\ \A j, k \in 1..n : list[j].key = key /\ list[k].key = key => j = k
          /\ args[key] = UNION {ToSet(list[k].list) : k \in {i \in 1..n : list[i].key = key}}
    /\ Says(list, n, "priority", 1, args.priority)
    /\ Says(list, n, "capacity", 0, args.capacity)

-----------------------------------------------------------------------------
(* What the items before the present one have put into the App.            *)

Past == {i \in DOMAIN Items : i < pos}

PastOf(a) == {i \in Past : Items[i].item = "fn" /\ ArmOf(Items[i]) = a}

(* fn is what item x becomes.                                              *)
Matches(fn, x) ==
    /\ Agrees(fn, x)
    /\ ArmOf(x) = "init" => /\ fn.stmts = Remaining(Stmts(x.body))
                            /\ fn.assigns = Assigns(Stmts(x.body))

Single(fns, a) ==
    /\ fns = {} <=> PastOf(a) = {}
    /\ \A fn \in fns, i \in PastOf(a) : Matches(fn, Items[i])

Mapped(fns, a) ==
    /\ DOMAIN fns = {Items[i].name : i \in PastOf(a)}
    /\ \A i \in PastOf(a) : Matches(fns[Items[i].name], Items[i])

AppFields == {"idle", "init", "exceptions", "interrupts", "tasks", "resources", "free"}

ContentOK ==
    /\ DOMAIN app = AppFields
    /\ Single(app.idle, "idle") /\ Single(app.init, "init")
    /\ Mapped(app.exceptions, "exception")
    /\ Mapped(app.interrupts, "interrupt")
    /\ Mapped(app.tasks, "task")
    /\ DOMAIN app.resources = {Items[i].name : i \in {j \in Past : Items[j].item = "static"}}
    /\ app.free = {} <=> ~\E i \in Past : Items[i].item = "extern"

PastLegal ==
    /\ \A i \in Past : LegalItem(Items[i])
    /\ \A i, j \in Past : i # j => ~Clash(Items[i], Items[j])

-----------------------------------------------------------------------------
(* The invariant of the parser.                                            *)

Going == {"parsing", "ok", "panic"}

FnOK ==
    /\ verdict = "parsing"
    /\ pos \in DOMAIN Items
    /\ Item.item = "fn" /\ arm = ArmOf(Item)
    /\ ~Taken(arm, Item.name)
    /\ read \in 0..Len(Item.args)
    /\ ReadOK(arm, Item.args, read)

SyntaxOK ==
    /\ source \in Sources
    /\ pos \in Nat \ {0}
    /\ arm \in {"none"} \cup ToSet(Arms)
    /\ verdict \in {"attribute", "parsing", "ok", "error", "panic"}
    /\ verdict = "attribute" => pos = 1 /\ app = EmptyApp /\ arm = "none"
    /\ verdict = "error" => ~Shaped
    /\ verdict \in Going => source.device = <<"device">> /\ ContentOK /\ PastLegal
    /\ verdict # "error" /\ arm # "none" => FnOK
    /\ verdict \in {"ok", "panic"} => pos > Len(Items) /\ arm = "none"
    /\ verdict = "panic" <=> verdict \in {"ok", "panic"} /\ app.init = {}

-----------------------------------------------------------------------------
(* Facts about sets and sources.                                           *)

LEMMA AtMostOne ==
    ASSUME NEW S, IsFiniteSet(S)
    PROVE  Cardinality(S) <= 1 <=> \A x, y \in S : x = y
<1>1. Cardinality(S) \in Nat /\ (Cardinality(S) = 0 <=> S = {})
  BY FS_CardinalityType, FS_EmptySet
<1>2. Cardinality(S) = 1 <=> \E x : S = {x}
  BY FS_Singleton
<1>3. ASSUME Cardinality(S) <= 1 PROVE \A x, y \in S : x = y
  <2>1. Cardinality(S) = 0 \/ Cardinality(S) = 1
    BY <1>1, <1>3
  <2> QED
    BY <1>1, <1>2, <2>1
<1>4. ASSUME \A x, y \in S : x = y PROVE Cardinality(S) <= 1
  <2>1. S = {} \/ \E x : S = {x}
    BY <1>4
  <2>2. Cardinality(S) = 0 \/ Cardinality(S) = 1
    BY <1>1, <1>2, <2>1
  <2> QED
    BY <2>2
<1> QED
  BY <1>3, <1>4

(* A set of naturals has a least element, one bounded above a greatest.    *)
LEMMA Least ==
    ASSUME NEW S, S \subseteq Nat, S # {}
    PROVE  \E x \in S : \A y \in S : x <= y
<1> DEFINE R == {ss \in Nat \X Nat : ss[1] < ss[2]}
<1>1. IsWellFoundedOn(R, Nat)
  BY NatLessThanWellFounded DEF OpToRel
<1>2. \A x, y \in Nat : <<y, x>> \in R <=> y < x
  OBVIOUS
<1> HIDE DEF R
<1>3. PICK x \in S : \A y \in S : ~ (<<y, x>> \in R)
  BY <1>1, WFMin
<1>4. \A y \in S : ~ (y < x)
  BY <1>2, <1>3
<1>5. \A y \in S : y \in Int /\ x \in Int
  OBVIOUS
<1> QED
  BY <1>4, <1>5

LEMMA Largest ==
    ASSUME NEW n \in Nat, NEW S, S \subseteq 0..n, S # {}
    PROVE  Max(S) \in S /\ \A x \in S : x <= Max(S)
<1> DEFINE T == {n - x : x \in S}
<1>1. T \subseteq Nat /\ T # {}
  <2>1. \A x \in S : n - x \in Nat
    OBVIOUS
  <2>2. PICK x : x \in S
    OBVIOUS
  <2>3. n - x \in T
    BY <2>2, Zenon
  <2>4. \A t \in T : t \in Nat
    BY <2>1, Zenon
  <2> QED
    BY <2>3, <2>4, Zenon
<1>2. PICK t \in T : \A y \in T : t <= y
  BY <1>1, Least
<1>3. PICK m \in S : t = n - m
  BY <1>2
<1>4. \A y \in S : m >= y
  BY <1>2, <1>3
<1>5. Max(S) \in S /\ \A y \in S : Max(S) >= y
  BY <1>4 DEF Max
<1>6. \A y \in S : y \in Int
  OBVIOUS
<1>7. Max(S) \in Int
  BY <1>5, <1>6
<1> HIDE DEF T
<1> QED
  BY <1>5, <1>6, <1>7

LEMMA FiniteIndices ==
    ASSUME NEW list, IsSeq(list), NEW S, S \subseteq DOMAIN list
    PROVE  IsFiniteSet(S) /\ S \subseteq 1..Len(list) /\ Len(list) \in Nat
<1>1. DOMAIN list = 1..Len(list) /\ Len(list) \in Nat
  BY DEF IsSeq
<1>2. IsFiniteSet(1..Len(list))
  BY <1>1, FS_Interval
<1> QED
  BY <1>1, <1>2, FS_Subset

LEMMA Sequence ==
    ASSUME NEW list, IsSeq(list)
    PROVE  DOMAIN list = 1..Len(list) /\ Len(list) \in Nat
BY DEF IsSeq

LEMMA OwnMembers == ASSUME NEW S, NEW list \in Seq(S) PROVE IsSeq(list)
<1>1. list \in [1..Len(list) -> S] /\ Len(list) \in Nat
  OBVIOUS
<1>2. \A i \in 1..Len(list) : list[i] \in ToSet(list)
  BY <1>1 DEF ToSet
<1>3. list \in [1..Len(list) -> ToSet(list)]
  BY <1>1, <1>2
<1> QED
  BY <1>1, <1>3 DEF IsSeq

LEMMA SourceShape ==
    ASSUME source \in Sources
    PROVE  /\ IsSeq(Items) /\ DOMAIN Items = 1..Len(Items) /\ Len(Items) \in Nat
           /\ \A i \in DOMAIN Items : Items[i].item = "fn" =>
                 /\ IsSeq(Items[i].args) /\ IsSeq(Items[i].body) /\ InPlace(Items[i].body)
                 /\ Items[i].sig \in {"unit", "never", "invalid"}
                 /\ Items[i].inputs \in {"none", "named", "self"}
BY SourcesAssumption, Sequence DEF Items

-----------------------------------------------------------------------------
(* One argument more.                                                      *)

LEMMA OneMore ==
    ASSUME NEW n \in Nat, NEW m, m = n + 1
    PROVE  1..m = 1..n \cup {m} /\ m \notin 1..n /\ \A k \in 1..m : k <= m
OBVIOUS

LEMMA ArgumentRead ==
    ASSUME NEW a, NEW list, NEW n \in Nat, NEW m, m = n + 1, ReadOK(a, list, n), arm = a,
           Accepts(list[m]),
           args' = [args EXCEPT ![list[m].key] = Meaning(list[m]),
                                !.given = @ \cup {list[m].key}]
    PROVE  ReadOK(a, list, m)'
<1> DEFINE arg == list[m]
           key == list[m].key
<1>1. 1..m = 1..n \cup {m} /\ m \notin 1..n /\ \A k \in 1..m : k <= m
  BY OneMore
<1>2. key \in Lists \cup {"priority", "capacity"} /\ key # "given" /\ DOMAIN args = ArgFields
  BY DEF Accepts, Keys, ReadOK, Lists
<1>3. LegalArg(a, arg)
  BY <1>2 DEF Accepts, LegalArg, Lists
<1>4. /\ DOMAIN args' = ArgFields
      /\ args'[key] = Meaning(arg)
      /\ args'.given = args.given \cup {key}
      /\ \A f \in ArgFields \ {key, "given"} : args'[f] = args[f]
  BY <1>2 DEF ArgFields, Lists
<1> HIDE DEF key
<1>5. \A k \in 1..m : LegalArg(a, list[k])
  BY <1>1, <1>3 DEF ReadOK
<1>6. ASSUME NEW l \in Lists
      PROVE  /\ l \in args'.given <=> \E k \in 1..m : list[k].key = l
             /\ \A j, k \in 1..m : list[j].key = l /\ list[k].key = l => j = k
             /\ args'[l] = UNION {ToSet(list[k].list) : k \in {i \in 1..m : list[i].key = l}}
  <2>1. /\ l \in args.given <=> \E k \in 1..n : list[k].key = l
        /\ \A j, k \in 1..n : list[j].key = l /\ list[k].key = l => j = k
        /\ args[l] = UNION {ToSet(list[k].list) : k \in {i \in 1..n : list[i].key = l}}
    BY DEF ReadOK
  <2>2. CASE key = l
    <3>1. l \notin args.given /\ Meaning(arg) = ToSet(arg.list)
      BY <2>2 DEF Accepts, Meaning, key
    <3>2. \A k \in 1..n : list[k].key # l
      BY <2>1, <3>1
    <3>3. {i \in 1..m : list[i].key = l} = {m}
      BY <1>1, <2>2, <3>2 DEF key
    <3>4. args'[l] = ToSet(arg.list)
      BY <1>4, <2>2, <3>1
    <3>5. \A j \in 1..m : list[j].key = l => j = m
      BY <1>1, <3>2
    <3>6. args'[l] = UNION {ToSet(list[k].list) : k \in {i \in 1..m : list[i].key = l}}
      BY <3>3, <3>4
    <3>7. l \in args'.given /\ \E k \in 1..m : list[k].key = l
      BY <1>1, <1>4, <2>2 DEF key
    <3> QED
      BY <3>5, <3>6, <3>7
  <2>3. CASE key # l
    <3>1. {i \in 1..m : list[i].key = l} = {i \in 1..n : list[i].key = l}
      BY <1>1, <2>3 DEF key
    <3>2. args'[l] = args[l] /\ (l \in args'.given <=> l \in args.given)
      BY <1>4, <2>3 DEF ArgFields, Lists
    <3>3. \A j \in 1..m : list[j].key = l => j \in 1..n
      BY <1>1, <2>3 DEF key
    <3> QED
      BY <1>1, <2>1, <3>1, <3>2, <3>3
  <2> QED
    BY <2>2, <2>3
<1>7. ASSUME NEW f \in {"priority", "capacity"}, NEW d, Says(list, n, f, d, args[f])
      PROVE  Says(list, m, f, d, args'[f])
  <2>1. CASE key = f
    <3>1. args'[f] = list[m].value /\ list[m].key = f
      BY <1>4, <2>1 DEF Meaning, Lists, key
    <3> QED
      BY <1>1, <3>1 DEF Says
  <2>2. CASE key # f
    <3>1. args'[f] = args[f] /\ \A k \in 1..m : list[k].key = f => k \in 1..n
      BY <1>1, <1>4, <2>2 DEF key, ArgFields
    <3> QED
      BY <1>1, <1>7, <3>1 DEF Says
  <2> QED
    BY <2>1, <2>2
<1>8. /\ Says(list, m, "priority", 1, args'.priority)
      /\ Says(list, m, "capacity", 0, args'.capacity)
  BY <1>7 DEF ReadOK
<1> QED
  BY <1>4, <1>5, <1>6, <1>8 DEF ReadOK, Says

(* Arguments that are refused make the list illegal.                       *)
LEMMA ArgumentRefused ==
    ASSUME NEW list, IsSeq(list), NEW n \in 0..Len(list) - 1,
           ReadOK(arm, list, n), ~Accepts(list[n + 1])
    PROVE  ~LegalArgs(arm, list)
<1>1. PICK m : m = n + 1
  OBVIOUS
<1>2. m \in DOMAIN list /\ m \notin 1..n /\ 1..n \subseteq DOMAIN list
  BY <1>1, Sequence
<1> DEFINE arg == list[m]
<1> SUFFICES ASSUME LegalArgs(arm, list) PROVE FALSE
  OBVIOUS
<1>3. /\ arg.key \in Keys(arm) \ IF TimerQueueFeature THEN {} ELSE {"schedule"}
      /\ arg.key \in Lists => IsInjective(arg.list)
      /\ arg.key \notin Lists =>
            ~arg.suffixed /\ arg.value \in (IF arg.key = "priority" THEN 0 ELSE 1)..255
  BY <1>2 DEF LegalArgs
<1>4. arg.key \in Lists /\ arg.key \in args.given
  BY <1>1, <1>3 DEF Accepts, Lists
<1>5. PICK k \in 1..n : list[k].key = arg.key
  BY <1>4 DEF ReadOK
<1>6. k \in Values(list, arg.key) /\ m \in Values(list, arg.key) /\ k # m
  BY <1>2, <1>5 DEF Values
<1>7. IsFiniteSet(Values(list, arg.key))
  BY FiniteIndices DEF Values
<1>8. Cardinality(Values(list, arg.key)) <= 1
  BY <1>4 DEF LegalArgs
<1> QED
  BY <1>6, <1>7, <1>8, AtMostOne

(* A list that was read to its end is legal, and was understood.           *)
LEMMA ArgumentsRead ==
    ASSUME NEW list, IsSeq(list), NEW a, ReadOK(a, list, Len(list))
    PROVE  /\ LegalArgs(a, list)
           /\ args.priority = LastValue(list, "priority", 1)
           /\ args.capacity = LastValue(list, "capacity", 0)
           /\ \A key \in Lists :
                 args[key] = UNION {ToSet(list[i].list) : i \in Values(list, key)}
<1>1. DOMAIN list = 1..Len(list)
  BY Sequence
<1>2. ASSUME NEW key \in Lists
      PROVE  /\ Cardinality(Values(list, key)) <= 1
             /\ args[key] = UNION {ToSet(list[i].list) : i \in Values(list, key)}
  <2>1. \A x, y \in Values(list, key) : x = y
    BY <1>1 DEF ReadOK, Values
  <2>2. IsFiniteSet(Values(list, key))
    BY FiniteIndices DEF Values
  <2>3. {i \in 1..Len(list) : list[i].key = key} = Values(list, key)
    BY <1>1 DEF Values
  <2> QED
    BY <2>1, <2>2, <2>3, AtMostOne DEF ReadOK
<1>3. ASSUME NEW key, NEW default, NEW v, Says(list, Len(list), key, default, v)
      PROVE  v = LastValue(list, key, default)
  <2>1. CASE Values(list, key) = {}
    BY <1>1, <1>3, <2>1 DEF Says, LastValue, Values
  <2>2. CASE Values(list, key) # {}
    <3>1. PICK k \in Values(list, key) :
             v = list[k].value /\ \A j \in Values(list, key) : j <= k
      BY <1>1, <1>3, <2>2 DEF Says, Values
    <3>2. Max(Values(list, key)) = k
      <4>1. \A j \in Values(list, key) : j \in Int
        BY <1>1 DEF Values
      <4>2. \A x \in Values(list, key) :
               (\A y \in Values(list, key) : x >= y) <=> x = k
        BY <3>1, <4>1
      <4> QED
        BY <4>2 DEF Max
    <3> QED
      BY <2>2, <3>1, <3>2 DEF LastValue
  <2> QED
    BY <2>1, <2>2
<1>4. \A i \in DOMAIN list : LegalArg(a, list[i])
  BY <1>1 DEF ReadOK
<1> QED
  BY <1>2, <1>3, <1>4 DEF LegalArgs, LegalArg, ReadOK

-----------------------------------------------------------------------------
(* One item more.                                                          *)

ArmNames == {"idle", "init", "exception", "interrupt", "task"}

LEMMA ArmsNamed == ToSet(Arms) = ArmNames
<1>1. DOMAIN Arms = 1..5
  BY DEF Arms
<1>2. 1..5 = {1, 2, 3, 4, 5}
  OBVIOUS
<1> QED
  BY <1>1, <1>2 DEF ToSet, Arms, ArmNames

(* The kind of a function is one of the arms, or none.                     *)
LEMMA ArmKnown == ASSUME NEW item PROVE ArmOf(item) \in {"none"} \cup ArmNames
<1> DEFINE found == {n \in DOMAIN Arms : Marks(item, Arms[n])}
<1>1. DOMAIN Arms = 1..5
  BY DEF Arms
<1>2. CASE found # {}
  <2>1. \E m \in found : \A n \in found : m <= n
    <3>1. \A n \in found : n \in 1..5
      BY <1>1
    <3> HIDE DEF found
    <3>2. \A n \in found : n = 1 \/ n = 2 \/ n = 3 \/ n = 4 \/ n = 5
      BY <3>1
    <3> QED
      BY <1>2, <3>1, <3>2
  <2>2. Min(found) \in found
    BY <2>1 DEF Min
  <2> QED
    BY <1>1, <1>2, <2>2 DEF ArmOf, Arms, ArmNames
<1>3. CASE found = {}
  BY <1>3 DEF ArmOf
<1> QED
  BY <1>2, <1>3

LEMMA PastMore ==
    ASSUME source \in Sources, pos \in DOMAIN Items, UNCHANGED source, pos' = pos + 1
    PROVE  /\ Past' = Past \cup {pos} /\ pos \notin Past
           /\ \A a : PastOf(a)' = IF Item.item = "fn" /\ ArmOf(Item) = a
                                  THEN PastOf(a) \cup {pos} ELSE PastOf(a)
<1>1. Items' = Items /\ Item = Items[pos] /\ DOMAIN Items = 1..Len(Items)
      /\ Len(Items) \in Nat
  BY SourceShape DEF Items, Item
<1>2. \A i \in DOMAIN Items : i < pos + 1 <=> i < pos \/ i = pos
  BY <1>1
<1>3. Past' = Past \cup {pos} /\ pos \notin Past
  BY <1>1, <1>2 DEF Past
<1> QED
  BY <1>1, <1>3 DEF PastOf

LEMMA PastKept ==
    ASSUME UNCHANGED <<source, pos>>
    PROVE  /\ Items' = Items /\ Item' = Item /\ Past' = Past
           /\ \A a : PastOf(a)' = PastOf(a)
           /\ PastLegal' <=> PastLegal
           /\ Shaped' <=> Shaped
BY DEF Items, Item, Past, PastOf, PastLegal, Shaped

LEMMA ContentKept == ASSUME ContentOK, UNCHANGED <<source, pos, app>> PROVE ContentOK'
BY PastKept DEF ContentOK, Single, Mapped

LEMMA ClashSymmetric == ASSUME NEW x, NEW y, Clash(x, y) PROVE Clash(y, x)
BY DEF Clash

(* A legal item that clashes with none of those before it.                 *)
LEMMA LegalMore ==
    ASSUME source \in Sources, pos \in DOMAIN Items, UNCHANGED source, pos' = pos + 1,
           PastLegal, LegalItem(Item), \A i \in Past : ~Clash(Items[i], Item)
    PROVE  PastLegal'
<1>1. Items' = Items /\ Item = Items[pos] /\ Past' = Past \cup {pos}
  BY PastMore DEF Items, Item
<1>2. \A i \in Past' : LegalItem(Items[i])
  BY <1>1 DEF PastLegal
<1>3. \A i, j \in Past' : i # j => ~Clash(Items[i], Items[j])
  BY <1>1, ClashSymmetric DEF PastLegal
<1> QED
  BY <1>1, <1>2, <1>3 DEF PastLegal

(* An item that is not one, or that clashes, spoils the source.            *)
LEMMA Spoils ==
    ASSUME source \in Sources, pos \in DOMAIN Items,
           ~LegalItem(Item) \/ \E i \in Past : Clash(Items[i], Item)
    PROVE  ~Shaped
<1>1. \A i \in Past : i \in DOMAIN Items /\ i # pos
  BY SourceShape DEF Past
<1> QED
  BY <1>1 DEF Shaped, Items, Item

(* The tests for duplicates find the clashes with earlier functions.       *)
LEMMA TakenExact ==
    ASSUME ContentOK, Item.item = "fn", ArmOf(Item) # "none"
    PROVE  Taken(ArmOf(Item), Item.name) <=> \E i \in Past : Clash(Items[i], Item)
<1> DEFINE a == ArmOf(Item)
<1>1. a \in ArmNames
  BY ArmKnown
<1>2. /\ app.idle = {} <=> PastOf("idle") = {}
      /\ app.init = {} <=> PastOf("init") = {}
      /\ DOMAIN app.exceptions = {Items[i].name : i \in PastOf("exception")}
      /\ DOMAIN app.interrupts = {Items[i].name : i \in PastOf("interrupt")}
      /\ DOMAIN app.tasks = {Items[i].name : i \in PastOf("task")}
  BY DEF ContentOK, Single, Mapped
<1>3. CASE a \in {"idle", "init"}
  <2>1. Taken(a, Item.name) <=> PastOf(a) # {}
    BY <1>2, <1>3 DEF Taken
  <2>2. \A i \in Past : i \in PastOf(a) <=> Clash(Items[i], Item)
    BY <1>3 DEF PastOf, Clash, Named
  <2> QED
    BY <2>1, <2>2 DEF PastOf
<1>4. CASE a \in Named
  <2>1. Taken(a, Item.name) <=> \E b \in Named : \E i \in PastOf(b) : Items[i].name = Item.name
    BY <1>2, <1>4 DEF Taken, Named
  <2>2. \A i \in Past : Clash(Items[i], Item) <=>
           \E b \in Named : i \in PastOf(b) /\ Items[i].name = Item.name
    BY <1>4 DEF PastOf, Clash, Named
  <2> QED
    BY <2>1, <2>2 DEF PastOf
<1> QED
  BY <1>1, <1>3, <1>4 DEF ArmNames, Named

-----------------------------------------------------------------------------
(* A function is checked and goes into the App.                            *)

(* The statics at the beginning of a body.                                 *)
LEMMA StaticsFound ==
    ASSUME NEW body, IsSeq(body)
    PROVE  /\ DOMAIN Statics(body) =
                 {i \in DOMAIN body : \A j \in 1..i : body[j].stmt = "static mut"}
           /\ \A i \in DOMAIN Statics(body) : Statics(body)[i] = body[i]
           /\ Len(Statics(body)) \in 0..Len(body)
<1> DEFINE S == {n \in 0..Len(body) : \A i \in 1..n : body[i].stmt = "static mut"}
           m == Max(S)
<1>1. DOMAIN body = 1..Len(body) /\ Len(body) \in Nat /\ body \in Seq(ToSet(body))
  BY DEF IsSeq
<1>2. 0 \in S
  <2>1. 0 \in 0..Len(body) /\ 1..0 = {}
    BY <1>1
  <2> QED
    BY <2>1
<1>3. m \in S /\ \A n \in S : n <= m
  BY <1>1, <1>2, Largest
<1>4. m \in 0..Len(body)
  BY <1>3
<1> HIDE DEF m
<1>5. /\ DOMAIN SubSeq(body, 1, m) = 1..m /\ Len(SubSeq(body, 1, m)) = m
      /\ \A i \in 1..m : SubSeq(body, 1, m)[i] = body[i]
  BY <1>1, <1>4
<1>6. Statics(body) = SubSeq(body, 1, m)
  BY DEF Statics, m
<1>7. \A i \in DOMAIN body : (\A j \in 1..i : body[j].stmt = "static mut") <=> i \in S
  <2>1. \A i \in DOMAIN body : i \in 0..Len(body)
    BY <1>1
  <2> QED
    BY <2>1
<1>8. \A i \in DOMAIN body : i \in S <=> i \in 1..m
  <2>1. ASSUME NEW i \in 1..m PROVE i \in S
    <3>1. i \in 0..Len(body) /\ \A j \in 1..i : j \in 1..m
      BY <1>1, <1>4, <2>1
    <3> QED
      BY <1>3, <3>1
  <2>2. ASSUME NEW i \in DOMAIN body, i \in S PROVE i \in 1..m
    <3>1. i <= m /\ i \in 1..Len(body)
      BY <1>1, <1>3, <2>2
    <3> QED
      BY <1>4, <3>1
  <2> QED
    BY <2>1, <2>2
<1>9. 1..m \subseteq DOMAIN body
  BY <1>1, <1>4
<1> QED
  BY <1>4, <1>5, <1>6, <1>7, <1>8, <1>9

(* The check of a function asks for what makes it legal.                   *)
LEMMA ValidFnExact ==
    ASSUME source \in Sources, FnOK, arm # "none", read = Len(Item.args)
    PROVE  ValidFn <=> LegalItem(Item)
<1>1. /\ IsSeq(Item.args) /\ IsSeq(Item.body)
      /\ Item.sig \in {"unit", "never", "invalid"}
      /\ Item.inputs \in {"none", "named", "self"}
      /\ Item.item = "fn" /\ arm = ArmOf(Item) /\ arm \in ArmNames
  BY SourceShape, ArmKnown DEF FnOK, Items, Item
<1>2. LegalArgs(arm, Item.args)
  BY <1>1, ArgumentsRead DEF FnOK
<1>3. ValidSignature <=> /\ Item.sig = "never" <=> arm = "idle"
                         /\ Item.sig # "invalid"
                         /\ Item.inputs = "none" \/ (arm = "task" /\ Item.inputs = "named")
  BY <1>1 DEF ValidSignature
<1> DEFINE body == Item.body
           locals == {i \in DOMAIN body : \A j \in 1..i : body[j].stmt = "static mut"}
<1>4. DOMAIN Statics(body) = locals /\ \A i \in locals : Statics(body)[i] = body[i]
  BY <1>1, StaticsFound
<1> HIDE DEF locals
<1>5. IsInjective([i \in DOMAIN Statics(body) |-> Statics(body)[i].name])
        <=> \A i, j \in locals : body[i].name = body[j].name => i = j
  BY <1>4 DEF IsInjective
<1>6. ValidFn <=>
        /\ ValidSignature
        /\ arm \notin {"exception", "interrupt"} =>
              \A i, j \in locals : body[i].name = body[j].name => i = j
  BY <1>5 DEF ValidFn
<1>7. LegalItem(Item) <=> LegalFn(Item)
  BY <1>1 DEF LegalItem
<1> QED
  BY <1>1, <1>2, <1>3, <1>6, <1>7 DEF LegalFn, ArmNames, locals

LEMMA FnMatches ==
    ASSUME source \in Sources, FnOK, read = Len(Item.args)
    PROVE  Matches(Fn, Item)
<1>1. IsSeq(Item.args)
  BY SourceShape DEF FnOK, Items, Item
<1>2. /\ args.priority = LastValue(Item.args, "priority", 1)
      /\ args.capacity = LastValue(Item.args, "capacity", 0)
      /\ \A key \in Lists :
            args[key] = UNION {ToSet(Item.args[i].list) : i \in Values(Item.args, key)}
  BY <1>1, ArgumentsRead DEF FnOK
<1>3. /\ Fn.args = args
      /\ arm = "init" => /\ Fn.stmts = Remaining(Stmts(Item.body))
                         /\ Fn.assigns = Assigns(Stmts(Item.body))
  BY DEF Fn
<1> QED
  BY <1>2, <1>3 DEF Matches, Agrees, FnOK

(* The maps of the App after the function has been put in its place.       *)
LEMMA MapMore ==
    ASSUME source \in Sources, pos \in DOMAIN Items, UNCHANGED source, pos' = pos + 1,
           NEW a, NEW fns, NEW fn, Matches(fn, Item), Item.item = "fn", ArmOf(Item) = a,
           Item.name \notin DOMAIN fns, Mapped(fns, a)
    PROVE  LET new == Put(fns, Item.name, fn)
           IN  /\ DOMAIN new = {Items'[i].name : i \in PastOf(a)'}
               /\ \A i \in PastOf(a)' : Matches(new[Items'[i].name], Items'[i])
<1> DEFINE new == Put(fns, Item.name, fn)
<1>1. Items' = Items /\ Item = Items[pos] /\ PastOf(a)' = PastOf(a) \cup {pos}
  BY PastMore DEF Items, Item
<1>2. DOMAIN new = DOMAIN fns \cup {Item.name}
  BY DEF Put
<1>3. DOMAIN new = {Items'[i].name : i \in PastOf(a)'}
  BY <1>1, <1>2 DEF Mapped
<1>4. ASSUME NEW i \in PastOf(a)' PROVE Matches(new[Items'[i].name], Items'[i])
  <2>1. CASE i = pos
    BY <1>1, <2>1 DEF Put
  <2>2. CASE i # pos
    <3>1. i \in PastOf(a) /\ Items[i].name \in DOMAIN fns
      BY <1>1, <2>2 DEF Mapped
    <3>2. new[Items[i].name] = fns[Items[i].name]
      BY <3>1 DEF Put
    <3> QED
      BY <1>1, <3>1, <3>2 DEF Mapped
  <2> QED
    BY <2>1, <2>2
<1> QED
  BY <1>3, <1>4

(* The rest of the App is about items of other kinds.                      *)
LEMMA OthersKept ==
    ASSUME source \in Sources, pos \in DOMAIN Items, UNCHANGED source, pos' = pos + 1,
           NEW a, Item.item # "fn" \/ ArmOf(Item) # a
    PROVE  /\ \A fns : Single(fns, a) =>
                 /\ fns = {} <=> PastOf(a)' = {}
                 /\ \A fn \in fns, i \in PastOf(a)' : Matches(fn, Items'[i])
           /\ \A fns : Mapped(fns, a) =>
                 /\ DOMAIN fns = {Items'[i].name : i \in PastOf(a)'}
                 /\ \A i \in PastOf(a)' : Matches(fns[Items'[i].name], Items'[i])
<1>1. Items' = Items /\ PastOf(a)' = PastOf(a)
  BY PastMore DEF Items
<1> QED
  BY <1>1 DEF Single, Mapped

LEMMA InsertContent ==
    ASSUME source \in Sources, FnOK, ContentOK, arm \in ArmNames, read = Len(Item.args),
           UNCHANGED source, pos' = pos + 1, app' = WithFn
    PROVE  ContentOK'
<1>1. /\ Items' = Items /\ Item = Items[pos] /\ pos \in DOMAIN Items
      /\ Item.item = "fn" /\ ArmOf(Item) = arm
      /\ Past' = Past \cup {pos}
      /\ \A a : a = arm => PastOf(a)' = PastOf(a) \cup {pos}
  <2>1. pos \in DOMAIN Items /\ Item.item = "fn" /\ ArmOf(Item) = arm
    BY DEF FnOK, Items, Item
  <2>2. ASSUME NEW a, a = arm PROVE PastOf(a)' = PastOf(a) \cup {pos}
    BY <2>1, <2>2, PastMore
  <2>3. Past' = Past \cup {pos}
    BY <2>1, PastMore
  <2> QED
    BY <2>1, <2>2, <2>3 DEF Items, Item
<1>2. Matches(Fn, Item)
  BY FnMatches
<1>3. /\ DOMAIN app'.resources = {Items'[i].name : i \in {j \in Past' : Items'[j].item = "static"}}
      /\ app'.free = {} <=> ~\E i \in Past' : Items'[i].item = "extern"
      /\ DOMAIN app' = AppFields
  <2>1. app'.resources = app.resources /\ app'.free = app.free /\ DOMAIN app' = AppFields
    BY DEF WithFn, ArmNames, ContentOK, AppFields
  <2>2. {j \in Past' : Items'[j].item = "static"} = {j \in Past : Items[j].item = "static"}
    BY <1>1
  <2> QED
    BY <1>1, <2>1, <2>2 DEF ContentOK
<1>4. ASSUME NEW a \in {"idle", "init"}, NEW old, NEW new, Single(old, a),
             new = IF arm = a THEN {Fn} ELSE old, arm = a => old = {}
      PROVE  /\ new = {} <=> PastOf(a)' = {}
             /\ \A fn \in new, i \in PastOf(a)' : Matches(fn, Items'[i])
  <2>1. CASE arm = a
    <3>1. PastOf(a) = {}
      BY <1>4, <2>1 DEF Single
    <3>2. PastOf(a)' = {pos} /\ new = {Fn}
      BY <1>1, <1>4, <2>1, <3>1
    <3> QED
      BY <1>1, <1>2, <3>2
  <2>2. CASE arm # a
    <3>1. Item.item # "fn" \/ ArmOf(Item) # a
      BY <1>1, <2>2
    <3> QED
      BY <1>1, <1>4, <2>2, <3>1, OthersKept
  <2> QED
    BY <2>1, <2>2
<1>5. ASSUME NEW a \in Named, NEW old, NEW new, Mapped(old, a),
             new = IF arm = a THEN Put(old, Item.name, Fn) ELSE old,
             arm = a => Item.name \notin DOMAIN old
      PROVE  /\ DOMAIN new = {Items'[i].name : i \in PastOf(a)'}
             /\ \A i \in PastOf(a)' : Matches(new[Items'[i].name], Items'[i])
  <2>1. CASE arm = a
    BY <1>1, <1>2, <1>5, <2>1, MapMore
  <2>2. CASE arm # a
    <3>1. Item.item # "fn" \/ ArmOf(Item) # a
      BY <1>1, <2>2
    <3> QED
      BY <1>1, <1>5, <2>2, <3>1, OthersKept
  <2> QED
    BY <2>1, <2>2
<1>6. /\ app'.idle = IF arm = "idle" THEN {Fn} ELSE app.idle
      /\ app'.init = IF arm = "init" THEN {Fn} ELSE app.init
      /\ app'.exceptions = IF arm = "exception" THEN Put(app.exceptions, Item.name, Fn)
                           ELSE app.exceptions
      /\ app'.interrupts = IF arm = "interrupt" THEN Put(app.interrupts, Item.name, Fn)
                           ELSE app.interrupts
      /\ app'.tasks = IF arm = "task" THEN Put(app.tasks, Item.name, Fn) ELSE app.tasks
  BY DEF WithFn, ArmNames, ContentOK, AppFields
<1>7. /\ arm = "idle" => app.idle = {}
      /\ arm = "init" => app.init = {}
      /\ arm \in Named => /\ Item.name \notin DOMAIN app.exceptions
                          /\ Item.name \notin DOMAIN app.interrupts
                          /\ Item.name \notin DOMAIN app.tasks
  BY DEF FnOK, Taken, Named
<1>8. Single(app.idle, "idle")' /\ Single(app.init, "init")'
  <2>1. /\ app'.idle = {} <=> PastOf("idle")' = {}
        /\ \A fn \in app'.idle, i \in PastOf("idle")' : Matches(fn, Items'[i])
    BY <1>4, <1>6, <1>7 DEF ContentOK
  <2>2. /\ app'.init = {} <=> PastOf("init")' = {}
        /\ \A fn \in app'.init, i \in PastOf("init")' : Matches(fn, Items'[i])
    BY <1>4, <1>6, <1>7 DEF ContentOK
  <2> QED
    BY <2>1, <2>2 DEF Single
<1>9. Mapped(app.exceptions, "exception")'
  <2>1. "exception" \in Named
    BY DEF Named
  <2> QED
    BY <1>5, <1>6, <1>7, <2>1 DEF ContentOK, Mapped
<1>10. Mapped(app.interrupts, "interrupt")'
  <2>1. "interrupt" \in Named
    BY DEF Named
  <2> QED
    BY <1>5, <1>6, <1>7, <2>1 DEF ContentOK, Mapped
<1>11. Mapped(app.tasks, "task")'
  <2>1. "task" \in Named
    BY DEF Named
  <2> QED
    BY <1>5, <1>6, <1>7, <2>1 DEF ContentOK, Mapped
<1> QED
  BY <1>3, <1>8, <1>9, <1>10, <1>11 DEF ContentOK

(* An item other than a function.                                          *)
LEMMA PlainContent ==
    ASSUME source \in Sources, pos \in DOMAIN Items, ContentOK, Item.item # "fn",
           UNCHANGED <<source, app.idle, app.init, app.exceptions, app.interrupts, app.tasks>>,
           pos' = pos + 1, DOMAIN app' = AppFields,
           DOMAIN app'.resources = DOMAIN app.resources
                                     \cup IF Item.item = "static" THEN {Item.name} ELSE {},
           app'.free = {} <=> app.free = {} /\ Item.item # "extern"
    PROVE  ContentOK'
<1>1. Items' = Items /\ Item = Items[pos] /\ Past' = Past \cup {pos}
  BY PastMore DEF Items, Item
<1>2. Single(app.idle, "idle")' /\ Single(app.init, "init")'
  BY OthersKept DEF ContentOK, Single
<1>3. /\ Mapped(app.exceptions, "exception")' /\ Mapped(app.interrupts, "interrupt")'
      /\ Mapped(app.tasks, "task")'
  BY OthersKept DEF ContentOK, Mapped
<1>4. DOMAIN app'.resources = {Items'[i].name : i \in {j \in Past' : Items'[j].item = "static"}}
  BY <1>1 DEF ContentOK
<1>5. app'.free = {} <=> ~\E i \in Past' : Items'[i].item = "extern"
  BY <1>1 DEF ContentOK
<1> QED
  BY <1>2, <1>3, <1>4, <1>5 DEF ContentOK

-----------------------------------------------------------------------------
(* The steps of the parser.                                                *)

LEMMA SyntaxStart == SyntaxInit => SyntaxOK
<1> SUFFICES ASSUME SyntaxInit PROVE SyntaxOK
  OBVIOUS
<1> QED
  BY DEF SyntaxInit, SyntaxOK, Going

(* A refused item: the source is no application.                           *)
LEMMA RejectStep ==
    ASSUME SyntaxOK, Reject, ~Shaped
    PROVE  SyntaxOK'
<1>1. /\ verdict' = "error" /\ UNCHANGED <<source, pos, arm, read, args, app>>
  BY DEF Reject
<1>2. ~Shaped'
  BY <1>1, PastKept
<1> QED
  BY <1>1, <1>2 DEF SyntaxOK, Going

LEMMA AttributeStep == ASSUME SyntaxOK, Attribute PROVE SyntaxOK'
<1>1. verdict = "attribute" /\ pos = 1 /\ app = EmptyApp /\ arm = "none"
  BY DEF SyntaxOK, Attribute
<1>2. CASE source.device = <<"device">>
  <2>1. verdict' = "parsing" /\ UNCHANGED <<source, pos, arm, read, args, app>>
    BY <1>2 DEF Attribute
  <2>2. Past = {}
    BY <1>1, SourceShape DEF SyntaxOK, Past
  <2>3. ContentOK /\ PastLegal
    BY <1>1, <2>2 DEF ContentOK, PastLegal, Single, Mapped, PastOf, EmptyApp, AppFields
  <2>4. ContentOK' /\ PastLegal'
    BY <2>1, <2>3, ContentKept, PastKept
  <2> QED
    BY <1>1, <1>2, <2>1, <2>4 DEF SyntaxOK, Going
<1>3. CASE source.device # <<"device">>
  BY <1>3, RejectStep DEF Attribute, Shaped
<1> QED
  BY <1>2, <1>3

LEMMA AtItemFacts ==
    ASSUME SyntaxOK, NEW kind, AtItem(kind)
    PROVE  /\ source \in Sources /\ pos \in DOMAIN Items /\ Item.item = kind
           /\ verdict = "parsing" /\ arm = "none"
           /\ source.device = <<"device">> /\ ContentOK /\ PastLegal
BY SourceShape DEF AtItem, SyntaxOK, Going, Items

LEMMA FunctionStep == ASSUME SyntaxOK, Function PROVE SyntaxOK'
<1>1. /\ source \in Sources /\ pos \in DOMAIN Items /\ Item.item = "fn"
      /\ verdict = "parsing" /\ arm = "none"
      /\ source.device = <<"device">> /\ ContentOK /\ PastLegal
  BY AtItemFacts DEF Function
<1>2. CASE ArmOf(Item) = "none"
  <2>1. ~LegalItem(Item)
    BY <1>1, <1>2 DEF LegalItem, LegalFn
  <2> QED
    BY <1>1, <1>2, <2>1, Spoils, RejectStep DEF Function
<1>3. CASE ArmOf(Item) # "none" /\ Taken(ArmOf(Item), Item.name)
  <2>1. \E i \in Past : Clash(Items[i], Item)
    BY <1>1, <1>3, TakenExact
  <2> QED
    BY <1>1, <1>3, <2>1, Spoils, RejectStep DEF Function
<1>4. CASE ArmOf(Item) # "none" /\ ~Taken(ArmOf(Item), Item.name)
  <2>1. /\ arm' = ArmOf(Item) /\ read' = 0 /\ args' = DefaultArgs
        /\ UNCHANGED <<source, pos, app, verdict>>
    BY <1>4 DEF Function
  <2>2. Items' = Items /\ Item' = Item /\ ContentOK' /\ PastLegal'
    BY <1>1, <2>1, PastKept, ContentKept
  <2>3. ReadOK(arm, Item.args, 0)'
    <3>1. 1..0 = {}
      OBVIOUS
    <3>2. \A key \in Lists : args'[key] = {} /\ key \notin args'.given
      BY <2>1 DEF DefaultArgs, Lists
    <3> QED
      BY <2>1, <3>1, <3>2 DEF ReadOK, Says, DefaultArgs, ArgFields
  <2>4. ~Taken(arm, Item.name)'
    BY <1>4, <2>1, <2>2 DEF Taken
  <2>5. 0 \in 0..Len(Item.args)
    <3>1. Len(Item.args) \in Nat
      BY <1>1, SourceShape, Sequence DEF Items, Item
    <3> QED
      BY <3>1
  <2>6. FnOK'
    BY <1>1, <2>1, <2>2, <2>3, <2>4, <2>5 DEF FnOK
  <2>7. arm' \in {"none"} \cup ToSet(Arms)
    BY <2>1, ArmKnown, ArmsNamed
  <2> QED
    BY <1>1, <2>1, <2>2, <2>6, <2>7 DEF SyntaxOK, Going
<1> QED
  BY <1>2, <1>3, <1>4

LEMMA ArgumentStep == ASSUME SyntaxOK, Argument PROVE SyntaxOK'
<1>1. /\ arm # "none" /\ verdict = "parsing" /\ read < Len(Item.args)
      /\ source \in Sources /\ FnOK
      /\ source.device = <<"device">> /\ ContentOK /\ PastLegal
  BY DEF Argument, SyntaxOK, Going
<1>2. IsSeq(Item.args) /\ Len(Item.args) \in Nat
  BY <1>1, SourceShape, Sequence DEF FnOK, Items, Item
<1>3. read \in 0..Len(Item.args) - 1
  BY <1>1, <1>2 DEF FnOK
<1>4. CASE Accepts(Item.args[read + 1])
  <2>1. /\ args' = [args EXCEPT ![Item.args[read + 1].key] = Meaning(Item.args[read + 1]),
                                !.given = @ \cup {Item.args[read + 1].key}]
        /\ read' = read + 1
        /\ UNCHANGED <<source, pos, arm, app, verdict>>
    BY <1>4 DEF Argument
  <2>2. Items' = Items /\ Item' = Item /\ ContentOK' /\ PastLegal'
    BY <1>1, <2>1, PastKept, ContentKept
  <2>3. PICK a, list, n : a = arm /\ list = Item.args /\ n = read
    OBVIOUS
  <2>4. PICK m : m = n + 1
    OBVIOUS
  <2>5. ReadOK(a, list, n) /\ n \in Nat
    BY <1>1, <1>3, <2>3 DEF FnOK
  <2>6. ReadOK(a, list, m)'
    BY <1>4, <2>1, <2>3, <2>4, <2>5, ArgumentRead
  <2>7. read' \in 0..Len(Item.args) /\ read' = m
    <3>1. read + 1 \in 0..Len(Item.args)
      BY <1>2, <1>3
    <3>2. read' = m
      BY <2>1, <2>3, <2>4
    <3> QED
      BY <2>1, <3>1, <3>2
  <2>8. FnOK'
    <3>1. ~Taken(arm, Item.name)'
      BY <1>1, <2>1, <2>2 DEF FnOK, Taken
    <3>2. ReadOK(arm, Item.args, read)'
      BY <2>1, <2>2, <2>3, <2>6, <2>7
    <3> QED
      BY <1>1, <2>1, <2>2, <2>7, <3>1, <3>2 DEF FnOK
  <2> QED
    BY <1>1, <2>1, <2>2, <2>8 DEF SyntaxOK, Going
<1>5. CASE ~Accepts(Item.args[read + 1])
  <2>1. ~LegalArgs(arm, Item.args)
    BY <1>1, <1>2, <1>3, <1>5, ArgumentRefused DEF FnOK
  <2>2. ~LegalItem(Item)
    BY <1>1, <2>1 DEF FnOK, LegalItem, LegalFn
  <2> QED
    BY <1>1, <1>5, <2>2, Spoils, RejectStep DEF Argument, FnOK
<1> QED
  BY <1>4, <1>5

LEMMA InsertStep == ASSUME SyntaxOK, Insert PROVE SyntaxOK'
<1>1. /\ arm # "none" /\ verdict = "parsing" /\ read = Len(Item.args)
      /\ source \in Sources /\ FnOK /\ pos \in DOMAIN Items /\ arm \in ArmNames
      /\ source.device = <<"device">> /\ ContentOK /\ PastLegal
  BY ArmsNamed DEF Insert, SyntaxOK, Going, FnOK
<1>2. ValidFn <=> LegalItem(Item)
  BY <1>1, ValidFnExact
<1>3. CASE ValidFn
  <2>1. /\ app' = WithFn /\ arm' = "none" /\ pos' = pos + 1
        /\ UNCHANGED <<source, read, args, verdict>>
    BY <1>3 DEF Insert
  <2>2. ContentOK'
    BY <1>1, <2>1, InsertContent
  <2>3. \A i \in Past : ~Clash(Items[i], Item)
    BY <1>1, TakenExact DEF FnOK
  <2>4. PastLegal'
    BY <1>1, <1>2, <1>3, <2>1, <2>3, LegalMore
  <2>5. pos' \in Nat \ {0}
    BY <2>1 DEF SyntaxOK
  <2> QED
    BY <1>1, <2>1, <2>2, <2>4, <2>5 DEF SyntaxOK, Going
<1>4. CASE ~ValidFn
  BY <1>1, <1>2, <1>4, Spoils, RejectStep DEF Insert
<1> QED
  BY <1>3, <1>4

LEMMA StaticStep == ASSUME SyntaxOK, Static PROVE SyntaxOK'
<1>1. /\ source \in Sources /\ pos \in DOMAIN Items /\ Item.item = "static"
      /\ verdict = "parsing" /\ arm = "none"
      /\ source.device = <<"device">> /\ ContentOK /\ PastLegal
  BY AtItemFacts DEF Static
<1>2. Item.name \in DOMAIN app.resources <=> \E i \in Past : Clash(Items[i], Item)
  BY <1>1 DEF ContentOK, Clash
<1>3. LegalItem(Item) <=> ~Item.pub
  BY <1>1 DEF LegalItem
<1>4. CASE Item.pub \/ Item.name \in DOMAIN app.resources
  BY <1>1, <1>2, <1>3, <1>4, Spoils, RejectStep DEF Static
<1>5. CASE ~(Item.pub \/ Item.name \in DOMAIN app.resources)
  <2> DEFINE new == [late |-> Item.unit, mutable |-> Item.mutable]
  <2>1. /\ app' = [app EXCEPT !.resources = Put(@, Item.name, new)]
        /\ pos' = pos + 1
        /\ UNCHANGED <<source, arm, read, args, verdict>>
    BY <1>5 DEF Static, NextItem
  <2>2. /\ DOMAIN app' = AppFields
        /\ DOMAIN app'.resources = DOMAIN app.resources \cup {Item.name}
        /\ UNCHANGED <<app.idle, app.init, app.exceptions, app.interrupts, app.tasks,
                       app.free>>
    BY <1>1, <2>1 DEF ContentOK, AppFields, Put
  <2>3. ContentOK'
    BY <1>1, <2>1, <2>2, PlainContent
  <2>4. PastLegal'
    BY <1>1, <1>2, <1>3, <1>5, <2>1, LegalMore
  <2>5. pos' \in Nat \ {0}
    BY <2>1 DEF SyntaxOK
  <2> QED
    BY <1>1, <2>1, <2>3, <2>4, <2>5 DEF SyntaxOK, Going
<1> QED
  BY <1>4, <1>5

LEMMA ExternStep == ASSUME SyntaxOK, Extern PROVE SyntaxOK'
<1>1. /\ source \in Sources /\ pos \in DOMAIN Items /\ Item.item = "extern"
      /\ verdict = "parsing" /\ arm = "none"
      /\ source.device = <<"device">> /\ ContentOK /\ PastLegal
  BY AtItemFacts DEF Extern
<1>2. app.free # {} <=> \E i \in Past : Clash(Items[i], Item)
  BY <1>1 DEF ContentOK, Clash
<1>3. LegalItem(Item) <=> ValidBlock
  <2>1. IsInjective([i \in DOMAIN Item.items |-> Item.items[i].name])
          <=> \A i, j \in DOMAIN Item.items : Item.items[i].name = Item.items[j].name => i = j
    BY DEF IsInjective
  <2> QED
    BY <1>1, <2>1 DEF LegalItem, ValidBlock
<1>4. CASE app.free # {} \/ ~ValidBlock
  BY <1>1, <1>2, <1>3, <1>4, Spoils, RejectStep DEF Extern
<1>5. CASE ~(app.free # {} \/ ~ValidBlock)
  <2>1. /\ app' = [app EXCEPT !.free = {{Item.items[i].name : i \in DOMAIN Item.items}}]
        /\ pos' = pos + 1
        /\ UNCHANGED <<source, arm, read, args, verdict>>
    BY <1>5 DEF Extern, NextItem
  <2>2. /\ DOMAIN app' = AppFields /\ app'.free # {}
        /\ UNCHANGED <<app.idle, app.init, app.exceptions, app.interrupts, app.tasks,
                       app.resources>>
    BY <1>1, <2>1 DEF ContentOK, AppFields
  <2>3. ContentOK'
    BY <1>1, <2>1, <2>2, PlainContent
  <2>4. PastLegal'
    BY <1>1, <1>2, <1>3, <1>5, <2>1, LegalMore
  <2>5. pos' \in Nat \ {0}
    BY <2>1 DEF SyntaxOK
  <2> QED
    BY <1>1, <2>1, <2>3, <2>4, <2>5 DEF SyntaxOK, Going
<1> QED
  BY <1>4, <1>5

LEMMA EndStep == ASSUME SyntaxOK, End PROVE SyntaxOK'
<1>1. /\ verdict = "parsing" /\ arm = "none" /\ pos > Len(source.items)
      /\ verdict' = IF app.init = {} THEN "panic" ELSE "ok"
      /\ UNCHANGED <<source, pos, arm, read, args, app>>
  BY DEF End
<1>2. Items' = Items /\ ContentOK' /\ PastLegal'
  BY <1>1, PastKept, ContentKept DEF SyntaxOK, Going
<1> QED
  BY <1>1, <1>2 DEF SyntaxOK, Going, Items

(* Whatever the parser reads next, it knows what it has read so far.       *)
LEMMA SyntaxStep == ASSUME SyntaxOK, SyntaxNext PROVE SyntaxOK'
<1>1. CASE Other
  <2>1. /\ source \in Sources /\ pos \in DOMAIN Items /\ Item.item = "other"
    BY <1>1, AtItemFacts DEF Other
  <2>2. ~LegalItem(Item)
    BY <2>1 DEF LegalItem
  <2> QED
    BY <1>1, <2>1, <2>2, Spoils, RejectStep DEF Other
<1> QED
  BY <1>1, AttributeStep, FunctionStep, ArgumentStep, InsertStep, StaticStep, ExternStep,
     EndStep DEF SyntaxNext

LEMMA SyntaxKept == ASSUME SyntaxOK, UNCHANGED syntaxVars PROVE SyntaxOK'
<1>1. /\ UNCHANGED <<source, pos, arm, read, args, app, verdict>>
      /\ Items' = Items /\ Item' = Item
  BY DEF syntaxVars, Items, Item
<1>2. (ContentOK => ContentOK') /\ (PastLegal => PastLegal') /\ (Shaped <=> Shaped')
  BY <1>1, PastKept, ContentKept DEF PastLegal, Shaped, Items
<1>3. FnOK => FnOK'
  BY <1>1 DEF FnOK, Taken, ReadOK
<1> QED
  BY <1>1, <1>2, <1>3 DEF SyntaxOK, Going

(* What is known of a source that was read to the end.                     *)
LEMMA ReadToEnd ==
    ASSUME SyntaxOK, verdict \in {"ok", "panic"}
    PROVE  Past = DOMAIN Items /\ \A a : PastOf(a) = Positions(a)
<1>1. pos > Len(Items) /\ pos \in Nat /\ DOMAIN Items = 1..Len(Items) /\ Len(Items) \in Nat
  BY SourceShape DEF SyntaxOK
<1>2. Past = DOMAIN Items
  BY <1>1 DEF Past
<1> QED
  BY <1>2 DEF PastOf, Positions, Items

LEMMA VerdictsExact == ASSUME SyntaxOK PROVE VerdictExact
<1>1. ASSUME verdict \in {"ok", "panic"}
      PROVE  Shaped /\ (verdict = "panic" <=> Positions("init") = {})
  <2>1. Past = DOMAIN Items /\ PastOf("init") = Positions("init")
    BY <1>1, ReadToEnd
  <2>2. source.device = <<"device">> /\ ContentOK /\ PastLegal
    BY <1>1 DEF SyntaxOK, Going
  <2>3. Shaped
    BY <2>1, <2>2 DEF Shaped, PastLegal, Items
  <2>4. app.init = {} <=> Positions("init") = {}
    BY <2>1, <2>2 DEF ContentOK, Single
  <2> QED
    BY <1>1, <2>3, <2>4 DEF SyntaxOK
<1> QED
  BY <1>1 DEF VerdictExact, WellFormed, SyntaxOK

LEMMA ArgumentsAgree == ASSUME SyntaxOK PROVE ArgumentsExact
<1> SUFFICES ASSUME verdict = "ok" PROVE ArgumentsExact
  BY DEF ArgumentsExact
<1>1. ContentOK /\ \A a : PastOf(a) = Positions(a)
  BY ReadToEnd DEF SyntaxOK, Going
<1>2. /\ \A fn \in app.idle : \A i \in Positions("idle") : Agrees(fn, source.items[i])
      /\ \A fn \in app.init : \A i \in Positions("init") : Agrees(fn, source.items[i])
  BY <1>1 DEF ContentOK, Single, Matches, Items
<1>3. ASSUME NEW a, NEW fns, Mapped(fns, a)
      PROVE  /\ DOMAIN fns = {source.items[i].name : i \in Positions(a)}
             /\ \A i \in Positions(a) :
                   Agrees(fns[source.items[i].name], source.items[i])
  BY <1>1, <1>3 DEF Mapped, Matches, Items
<1>4. ASSUME NEW a \in Named
      PROVE  LET fns == CASE a = "exception" -> app.exceptions
                          [] a = "interrupt" -> app.interrupts
                          [] a = "task" -> app.tasks
             IN  Mapped(fns, a)
  BY <1>1 DEF ContentOK, Named
<1> QED
  BY <1>2, <1>3, <1>4 DEF ArgumentsExact

-----------------------------------------------------------------------------
(* What is taken out of the end of init, and in which order it comes back. *)

(* The n-th smallest of K indices, for n from 1 to their number, goes      *)
(* through all of them in increasing order.                                *)
LEMMA Ranked ==
    ASSUME NEW K \in Nat, NEW I, I \subseteq 1..K
    PROVE  /\ Cardinality(I) \in Nat
           /\ \A m \in 1..Cardinality(I) : Nth(I, m) \in I
           /\ \A m, k \in 1..Cardinality(I) : m < k => Nth(I, m) < Nth(I, k)
           /\ \A i \in I : \E m \in 1..Cardinality(I) : Nth(I, m) = i
<1> DEFINE To(i) == {j \in I : j <= i}
           R == [i \in I |-> Cardinality(To(i))]
           n == Cardinality(I)
<1>1. IsFiniteSet(I) /\ n \in Nat
  <2>1. IsFiniteSet(1..K)
    BY FS_Interval
  <2>2. IsFiniteSet(I)
    BY <2>1, FS_Subset
  <2> QED
    BY <2>2, FS_CardinalityType
<1>2. ASSUME NEW i \in I PROVE R[i] \in 1..n
  <2>1. To(i) \subseteq I /\ i \in To(i)
    BY <1>2
  <2> HIDE DEF To
  <2>2. IsFiniteSet(To(i)) /\ Cardinality(To(i)) <= n
    BY <1>1, <2>1, FS_Subset
  <2>3. Cardinality(To(i)) \in Nat /\ Cardinality(To(i)) # 0
    BY <2>1, <2>2, FS_CardinalityType, FS_EmptySet
  <2> QED
    BY <1>1, <1>2, <2>2, <2>3
<1>3. ASSUME NEW i \in I, NEW k \in I, i < k PROVE R[i] < R[k]
  <2>1. To(i) \subseteq To(k) /\ k \in To(k) /\ k \notin To(i) /\ To(k) \subseteq I
    <3>1. \A j \in I : j \in Int
      OBVIOUS
    <3>2. \A j \in I : j <= i => j <= k
      BY <1>3, <3>1
    <3>3. k <= k /\ ~(k <= i)
      BY <1>3, <3>1
    <3> QED
      BY <1>3, <3>2, <3>3, Zenon
  <2> HIDE DEF To
  <2>2. IsFiniteSet(To(k))
    BY <1>1, <2>1, FS_Subset
  <2>3. Cardinality(To(i)) <= Cardinality(To(k)) /\ Cardinality(To(k)) # Cardinality(To(i))
    BY <2>1, <2>2, FS_Subset
  <2>4. R[i] \in Nat /\ R[k] \in Nat
    BY <1>1, <1>2, <1>3
  <2> QED
    BY <2>3, <2>4
<1> HIDE DEF R, n
<1>4. R \in Surjection(I, 1..n)
  <2>1. R \in Injection(I, 1..n)
    <3>1. R \in [I -> 1..n]
      BY <1>2 DEF R
    <3>2. \A i, k \in I : R[i] = R[k] => i = k
      <4>1. \A i, k \in I : i < k \/ i = k \/ k < i
        OBVIOUS
      <4>2. \A i \in I : R[i] \in Int
        BY <1>1, <1>2
      <4> QED
        BY <1>3, <4>1, <4>2
    <3> QED
      BY <3>1, <3>2 DEF Injection, IsInjective
  <2>2. IsFiniteSet(1..n) /\ Cardinality(1..n) = n
    BY <1>1, FS_Interval
  <2> QED
    BY <1>1, <2>1, <2>2, FS_Injection DEF n
<1>5. ASSUME NEW m \in 1..n PROVE Nth(I, m) \in I /\ R[Nth(I, m)] = m
  <2>1. \E i \in I : R[i] = m
    BY <1>4, <1>5 DEF Surjection
  <2>2. \A i \in I : R[i] = Cardinality({j \in I : j <= i})
    BY DEF R
  <2> QED
    BY <2>1, <2>2 DEF Nth
<1>6. ASSUME NEW m \in 1..n, NEW k \in 1..n, m < k PROVE Nth(I, m) < Nth(I, k)
  <2>1. PICK a, b : a = Nth(I, m) /\ b = Nth(I, k)
    OBVIOUS
  <2>2. a \in I /\ b \in I /\ R[a] = m /\ R[b] = k
    BY <1>5, <2>1
  <2>3. ~(b < a) /\ a # b
    BY <1>3, <1>6, <2>2
  <2>4. a \in Int /\ b \in Int
    BY <2>2
  <2> QED
    BY <2>1, <2>3, <2>4
<1>7. ASSUME NEW i \in I PROVE \E m \in 1..n : Nth(I, m) = i
  <2>1. R[i] \in 1..n
    BY <1>2
  <2>2. PICK a : a = Nth(I, R[i])
    OBVIOUS
  <2>3. a \in I /\ R[a] = R[i]
    BY <1>5, <2>1, <2>2
  <2>4. a = i
    <3>1. a < i \/ a = i \/ i < a
      BY <1>7, <2>3
    <3>2. R[i] \in Int
      BY <2>1
    <3> QED
      BY <1>3, <2>3, <3>1, <3>2
  <2> QED
    BY <2>1, <2>2, <2>4
<1> QED
  BY <1>1, <1>5, <1>6, <1>7 DEF n

(* f gives for each member of a selection where it was selected from.      *)
Selects(f, stmts, kind) ==
    LET chosen == Select(stmts, kind)
    IN  /\ chosen \in Seq(ToSet(stmts))
        /\ \A m \in 1..Len(chosen) :
              f[m] \in DOMAIN stmts /\ stmts[f[m]].stmt = kind /\ chosen[m] = stmts[f[m]]
        /\ \A m, k \in 1..Len(chosen) : m < k => f[m] < f[k]
        /\ \A i \in DOMAIN stmts :
              stmts[i].stmt = kind => \E m \in 1..Len(chosen) : f[m] = i

LEMMA Selected ==
    ASSUME NEW stmts, IsSeq(stmts), NEW kind
    PROVE  \E f : Selects(f, stmts, kind)
<1> DEFINE I == {i \in DOMAIN stmts : stmts[i].stmt = kind}
           n == Cardinality(I)
           f == [m \in 1..n |-> Nth(I, m)]
           chosen == Select(stmts, kind)
<1>1. DOMAIN stmts = 1..Len(stmts) /\ Len(stmts) \in Nat
  BY Sequence
<1>2. I \subseteq 1..Len(stmts)
  BY <1>1
<1>3. chosen = [m \in 1..n |-> stmts[Nth(I, m)]]
  BY DEF Select
<1>4. \A i \in I : i \in DOMAIN stmts /\ stmts[i].stmt = kind /\ stmts[i] \in ToSet(stmts)
  BY DEF ToSet
<1>5. \A i \in DOMAIN stmts : stmts[i].stmt = kind => i \in I
  OBVIOUS
<1> HIDE DEF I, chosen
<1>6. /\ n \in Nat
      /\ \A m \in 1..n : Nth(I, m) \in I
      /\ \A m, k \in 1..n : m < k => Nth(I, m) < Nth(I, k)
      /\ \A i \in I : \E m \in 1..n : Nth(I, m) = i
  BY <1>1, <1>2, Ranked
<1> HIDE DEF n
<1>7. chosen \in Seq(ToSet(stmts)) /\ Len(chosen) = n
  <2>1. chosen \in [1..n -> ToSet(stmts)]
    BY <1>3, <1>4, <1>6
  <2> QED
    BY <1>6, <2>1
<1>8. \A m \in 1..n : f[m] = Nth(I, m) /\ chosen[m] = stmts[f[m]]
  BY <1>3
<1> HIDE DEF f
<1>9. /\ \A m \in 1..Len(chosen) :
            f[m] \in DOMAIN stmts /\ stmts[f[m]].stmt = kind /\ chosen[m] = stmts[f[m]]
      /\ \A m, k \in 1..Len(chosen) : m < k => f[m] < f[k]
      /\ \A i \in DOMAIN stmts :
            stmts[i].stmt = kind => \E m \in 1..Len(chosen) : f[m] = i
  BY <1>4, <1>5, <1>6, <1>7, <1>8
<1> QED
  BY <1>7, <1>9 DEF Selects, chosen

(* The assignments at the end of a body, and what is before them.          *)
Opening(stmts) == Len(stmts) - Len(Assignments(stmts))

Closing == {"assign", "place"}

LEMMA EndFound ==
    ASSUME NEW stmts, IsSeq(stmts)
    PROVE  /\ Opening(stmts) \in 0..Len(stmts)
           /\ IsSeq(Assignments(stmts))
           /\ Len(Assignments(stmts)) = Len(stmts) - Opening(stmts)
           /\ \A i \in 1..Len(Assignments(stmts)) :
                 /\ Assignments(stmts)[i] = stmts[Opening(stmts) + i]
                 /\ Assignments(stmts)[i].stmt \in Closing
           /\ Opening(stmts) > 0 => stmts[Opening(stmts)].stmt \notin Closing
<1> DEFINE L == Len(stmts)
           S == {n \in 0..L : \A i \in n + 1 .. L : stmts[i].stmt \in Closing}
           t == Min(S)
           rest == SubSeq(stmts, 1 + t, L)
<1>1. DOMAIN stmts = 1..L /\ L \in Nat /\ stmts \in Seq(ToSet(stmts))
  BY Sequence DEF IsSeq
<1> HIDE DEF L
<1>2. t \in S /\ \A n \in S : t <= n
  <2>1. L \in S
    <3>1. L + 1 .. L = {} /\ L \in 0..L
      BY <1>1
    <3> QED
      BY <3>1
  <2>2. S \subseteq Nat
    BY <1>1
  <2> HIDE DEF S
  <2>3. \E x \in S : \A y \in S : x <= y
    BY <2>1, <2>2, Least
  <2> QED
    BY <2>3 DEF Min
<1>3. t \in 0..L /\ \A i \in t + 1 .. L : stmts[i].stmt \in Closing
  BY <1>2
<1>4. Assignments(stmts) = rest
  BY DEF Assignments, Closing, L
<1>5. ASSUME t > 0 PROVE stmts[t].stmt \notin Closing
  <2>1. PICK n : n = t - 1
    OBVIOUS
  <2>2. n \in 0..L /\ n < t
    BY <1>1, <1>3, <1>5, <2>1
  <2>3. n \notin S
    BY <1>2, <1>3, <2>2
  <2>4. PICK i \in n + 1 .. L : stmts[i].stmt \notin Closing
    BY <2>2, <2>3
  <2>5. i = t \/ i \in t + 1 .. L
    BY <1>1, <1>3, <2>1, <2>4
  <2> QED
    BY <1>3, <2>4, <2>5
<1> HIDE DEF t, S
<1>6. /\ rest \in Seq(ToSet(stmts)) /\ Len(rest) = L - t /\ DOMAIN rest = 1..L - t
      /\ \A i \in 1..L - t : rest[i] = stmts[t + i]
  BY <1>1, <1>3
<1>7. IsSeq(rest)
  BY <1>6, OwnMembers
<1>8. Opening(stmts) = t
  <2>1. Opening(stmts) = L - (L - t)
    BY <1>4, <1>6 DEF Opening, L
  <2> QED
    BY <1>1, <1>3, <2>1
<1>9. \A i \in 1..L - t : t + i \in t + 1 .. L
  BY <1>1, <1>3
<1> HIDE DEF rest
<1> QED
  BY <1>3, <1>4, <1>5, <1>6, <1>7, <1>8, <1>9 DEF L

(* u and v give for each statement, and each assignment, that the body of  *)
(* init is expanded to where it was in the body.                           *)
Stays(u, stmts) ==
    /\ Remaining(stmts) \in Seq(ToSet(stmts))
    /\ \A k \in 1..Len(Remaining(stmts)) :
          /\ u[k] \in DOMAIN stmts /\ Remaining(stmts)[k] = stmts[u[k]]
          /\ u[k] > Opening(stmts) => stmts[u[k]].stmt = "place"
    /\ \A j, k \in 1..Len(Remaining(stmts)) : j < k => u[j] < u[k]

Moves(v, stmts) ==
    /\ Assigns(stmts) \in Seq(ToSet(stmts))
    /\ \A k \in 1..Len(Assigns(stmts)) :
          /\ v[k] \in DOMAIN stmts /\ Assigns(stmts)[k] = stmts[v[k]]
          /\ v[k] > Opening(stmts) /\ stmts[v[k]].stmt = "assign"
    /\ \A j, k \in 1..Len(Assigns(stmts)) : j < k => v[k] < v[j]

LEMMA AssignsMove ==
    ASSUME NEW stmts, IsSeq(stmts)
    PROVE  \E v : /\ Moves(v, stmts)
                  /\ \A i \in DOMAIN stmts :
                        i > Opening(stmts) /\ stmts[i].stmt = "assign" =>
                           \E k \in 1..Len(Assigns(stmts)) : v[k] = i
<1> DEFINE t == Opening(stmts)
           rest == Assignments(stmts)
           chosen == Select(rest, "assign")
           K == Len(chosen)
<1>1. /\ DOMAIN stmts = 1..Len(stmts) /\ Len(stmts) \in Nat
      /\ t \in 0..Len(stmts) /\ IsSeq(rest) /\ Len(rest) = Len(stmts) - t
      /\ \A i \in 1..Len(rest) : rest[i] = stmts[t + i]
  BY Sequence, EndFound
<1>2. DOMAIN rest = 1..Len(rest) /\ Len(rest) \in Nat
  BY <1>1, Sequence
<1>3. PICK f : Selects(f, rest, "assign")
  BY <1>1, Selected
<1> DEFINE v == [k \in 1..K |-> t + f[K - k + 1]]
<1>4. chosen \in Seq(ToSet(rest)) /\ K \in Nat /\ DOMAIN chosen = 1..K
  BY <1>3 DEF Selects
<1>5. \A m \in 1..K : /\ f[m] \in 1..Len(rest) /\ rest[f[m]].stmt = "assign"
                      /\ chosen[m] = rest[f[m]]
  BY <1>2, <1>3 DEF Selects
<1>6. \A m, k \in 1..K : m < k => f[m] < f[k]
  BY <1>3 DEF Selects
<1>7. \A i \in 1..Len(rest) : rest[i].stmt = "assign" => \E m \in 1..K : f[m] = i
  BY <1>2, <1>3 DEF Selects
<1>8. Assigns(stmts) = [k \in 1..K |-> chosen[K - k + 1]]
  BY DEF Assigns, Reverse
<1>9. \A i \in DOMAIN rest : t + i \in DOMAIN stmts /\ t + i > t
  BY <1>1, <1>2
<1>10. \A k \in 1..K : K - k + 1 \in 1..K
  BY <1>4
<1> HIDE DEF chosen, K, t, rest
<1>11. ASSUME NEW k \in 1..K
       PROVE  /\ v[k] \in DOMAIN stmts /\ chosen[K - k + 1] = stmts[v[k]]
              /\ v[k] > t /\ stmts[v[k]].stmt = "assign"
  <2>1. PICK m \in 1..K : m = K - k + 1
    BY <1>10
  <2>2. f[m] \in 1..Len(rest) /\ rest[f[m]].stmt = "assign" /\ chosen[m] = rest[f[m]]
    BY <1>5
  <2>3. v[k] = t + f[m]
    BY <2>1
  <2> QED
    BY <1>1, <1>2, <1>9, <2>1, <2>2, <2>3
<1>12. ASSUME NEW j \in 1..K, NEW k \in 1..K, j < k PROVE v[k] < v[j]
  <2>1. K - k + 1 < K - j + 1 /\ K - k + 1 \in 1..K /\ K - j + 1 \in 1..K
    BY <1>4, <1>12
  <2>2. f[K - k + 1] < f[K - j + 1]
    BY <1>6, <2>1
  <2>3. f[K - k + 1] \in Int /\ f[K - j + 1] \in Int /\ t \in Int
    BY <1>1, <1>5, <2>1
  <2> QED
    BY <2>2, <2>3
<1>13. ASSUME NEW i \in DOMAIN stmts, i > t, stmts[i].stmt = "assign"
       PROVE  \E k \in 1..K : v[k] = i
  <2>1. PICK l : l = i - t
    OBVIOUS
  <2>2. l \in 1..Len(rest) /\ i = t + l
    BY <1>1, <1>13, <2>1
  <2>3. PICK m \in 1..K : f[m] = l
    BY <1>1, <1>7, <1>13, <2>2
  <2>4. PICK k \in 1..K : k = K - m + 1
    BY <1>10
  <2>5. K - k + 1 = m
    BY <1>4, <2>4
  <2> QED
    BY <2>2, <2>3, <2>5
<1>14. Assigns(stmts) \in Seq(ToSet(stmts)) /\ Len(Assigns(stmts)) = K
  <2>1. \A k \in 1..K : chosen[K - k + 1] \in ToSet(stmts)
    BY <1>11 DEF ToSet
  <2>2. Assigns(stmts) \in [1..K -> ToSet(stmts)]
    BY <1>8, <2>1
  <2> QED
    BY <1>4, <2>2
<1> HIDE DEF v
<1>15. \A k \in 1..K : Assigns(stmts)[k] = stmts[v[k]]
  BY <1>8, <1>11
<1> QED
  BY <1>11, <1>12, <1>13, <1>14, <1>15, SMTT(5), ZenonT(60) DEF Moves, t

LEMMA StatementsStay ==
    ASSUME NEW stmts, IsSeq(stmts)
    PROVE  \E u : /\ Stays(u, stmts)
                  /\ \A i \in DOMAIN stmts :
                        i <= Opening(stmts) \/ stmts[i].stmt = "place" =>
                           \E k \in 1..Len(Remaining(stmts)) : u[k] = i
<1> DEFINE t == Opening(stmts)
           rest == Assignments(stmts)
           first == SubSeq(stmts, 1, t)
           chosen == Select(rest, "place")
           K == Len(chosen)
           all == Remaining(stmts)
<1>1. /\ DOMAIN stmts = 1..Len(stmts) /\ Len(stmts) \in Nat /\ stmts \in Seq(ToSet(stmts))
      /\ t \in 0..Len(stmts) /\ IsSeq(rest) /\ Len(rest) = Len(stmts) - t
      /\ \A i \in 1..Len(rest) : rest[i] = stmts[t + i]
  BY Sequence, EndFound DEF IsSeq
<1>2. DOMAIN rest = 1..Len(rest) /\ Len(rest) \in Nat
  BY <1>1, Sequence
<1>3. PICK f : Selects(f, rest, "place")
  BY <1>1, Selected
<1> DEFINE u == [k \in 1..t + K |-> IF k <= t THEN k ELSE t + f[k - t]]
<1>4. chosen \in Seq(ToSet(rest)) /\ K \in Nat
  BY <1>3 DEF Selects
<1>5. \A m \in 1..K : /\ f[m] \in 1..Len(rest) /\ rest[f[m]].stmt = "place"
                      /\ chosen[m] = rest[f[m]]
  BY <1>2, <1>3 DEF Selects
<1>6. \A m, k \in 1..K : m < k => f[m] < f[k]
  BY <1>3 DEF Selects
<1>7. \A i \in 1..Len(rest) : rest[i].stmt = "place" => \E m \in 1..K : f[m] = i
  BY <1>2, <1>3 DEF Selects
<1>8. all = first \o chosen
  BY DEF Remaining, Opening
<1>9. \A i \in 1..Len(rest) : t + i \in DOMAIN stmts /\ t + i > t
  BY <1>1, <1>2
<1>10. \A i \in 1..Len(rest) : rest[i] \in ToSet(stmts)
  BY <1>1, <1>9 DEF ToSet
<1>11. chosen \in Seq(ToSet(stmts))
  <2>1. \A m \in 1..K : chosen[m] \in ToSet(stmts)
    BY <1>5, <1>10
  <2>2. chosen \in [1..K -> ToSet(stmts)]
    BY <1>4, <2>1
  <2> QED
    BY <1>4, <2>2
<1>12. first \in Seq(ToSet(stmts)) /\ Len(first) = t /\ \A k \in 1..t : first[k] = stmts[k]
  BY <1>1
<1> HIDE DEF chosen, t, rest, first, all
<1>13. /\ all \in Seq(ToSet(stmts)) /\ Len(all) = t + K
       /\ \A k \in 1..t + K : all[k] = IF k <= t THEN first[k] ELSE chosen[k - t]
  <2>1. /\ first \o chosen \in Seq(ToSet(stmts))
        /\ Len(first \o chosen) = Len(first) + Len(chosen)
        /\ \A k \in 1..Len(first) + Len(chosen) :
              (first \o chosen)[k] =
                 IF k <= Len(first) THEN first[k] ELSE chosen[k - Len(first)]
    BY <1>11, <1>12, ConcatProperties
  <2> QED
    BY <1>8, <1>12, <2>1, Zenon
<1> HIDE DEF K
<1>14. \A k \in 1..t + K : k <= t \/ (k > t /\ k - t \in 1..K)
  BY <1>1, <1>4
<1>15. ASSUME NEW k \in 1..t + K
       PROVE  /\ u[k] \in DOMAIN stmts /\ all[k] = stmts[u[k]]
              /\ u[k] > t => stmts[u[k]].stmt = "place"
  <2>1. CASE k <= t
    BY <1>1, <1>12, <1>13, <2>1
  <2>2. CASE k > t
    <3>1. PICK m \in 1..K : m = k - t
      BY <1>1, <1>14, <2>2
    <3>2. u[k] = t + f[m] /\ all[k] = chosen[m]
      BY <1>1, <1>13, <2>2, <3>1
    <3> QED
      BY <1>1, <1>5, <1>9, <3>2, SMTT(30), ZenonT(30)
  <2> QED
    BY <1>1, <2>1, <2>2
<1>16. ASSUME NEW j \in 1..t + K, NEW k \in 1..t + K, j < k PROVE u[j] < u[k]
  <2>1. CASE k <= t
    BY <1>1, <1>16, <2>1
  <2>2. CASE k > t
    <3>1. k - t \in 1..K /\ u[k] = t + f[k - t]
      BY <1>1, <1>14, <2>2
    <3>2. f[k - t] \in Int /\ f[k - t] >= 1
      BY <1>2, <1>5, <3>1
    <3>3. CASE j <= t
      <4>1. u[j] = j
        BY <3>3
      <4> QED
        BY <1>1, <3>1, <3>2, <3>3, <4>1
    <3>4. CASE j > t
      <4>1. j - t \in 1..K /\ u[j] = t + f[j - t] /\ j - t < k - t
        BY <1>1, <1>14, <1>16, <3>4
      <4>2. f[j - t] < f[k - t] /\ f[j - t] \in Int
        BY <1>2, <1>5, <1>6, <3>1, <4>1
      <4> QED
        BY <1>1, <3>1, <3>2, <4>1, <4>2
    <3> QED
      BY <1>1, <3>3, <3>4
  <2> QED
    BY <1>1, <2>1, <2>2
<1>17. ASSUME NEW i \in DOMAIN stmts, i <= t \/ stmts[i].stmt = "place"
       PROVE  \E k \in 1..t + K : u[k] = i
  <2>1. CASE i <= t
    <3>1. i \in 1..t + K /\ u[i] = i
      BY <1>1, <1>4, <2>1
    <3> QED
      BY <3>1
  <2>2. CASE i > t /\ stmts[i].stmt = "place"
    <3>1. PICK l : l = i - t
      OBVIOUS
    <3>2. l \in 1..Len(rest) /\ i = t + l
      BY <1>1, <2>2, <3>1
    <3>3. PICK m \in 1..K : f[m] = l
      BY <1>1, <1>7, <2>2, <3>2
    <3>4. PICK k : k = t + m
      OBVIOUS
    <3>5. k \in 1..t + K /\ k > t /\ k - t = m
      BY <1>1, <1>4, <3>4
    <3> QED
      BY <1>1, <3>2, <3>3, <3>5
  <2> QED
    BY <1>1, <1>17, <2>1, <2>2, SMTT(30), ZenonT(30)
<1> HIDE DEF u
<1>18. Len(all) = t + K
  BY <1>13
<1> QED
  BY <1>13, <1>15, <1>16, <1>17, <1>18 DEF Stays, t, all

(* What is left of a body behind its statics.                              *)
LEMMA StmtsShape ==
    ASSUME NEW body, IsSeq(body), InPlace(body)
    PROVE  IsSeq(Stmts(body)) /\ InPlace(Stmts(body))
<1> DEFINE L == Len(body)
           m == Len(Statics(body))
           rest == SubSeq(body, m + 1, L)
<1>1. DOMAIN body = 1..L /\ L \in Nat /\ body \in Seq(ToSet(body)) /\ m \in 0..L
  BY Sequence, StaticsFound DEF IsSeq
<1>2. rest = Stmts(body)
  BY DEF Stmts
<1> HIDE DEF L, m
<1>3. /\ rest \in Seq(ToSet(body)) /\ Len(rest) = L - m /\ DOMAIN rest = 1..L - m
      /\ \A i \in 1..L - m : rest[i] = body[m + i]
  BY <1>1
<1> HIDE DEF rest
<1>4. IsSeq(rest)
  BY <1>3, OwnMembers
<1>5. \A i \in 1..L - m : m + i \in DOMAIN body
  BY <1>1
<1>6. \A i, j \in 1..L - m : i < j => m + i < m + j
  BY <1>1
<1>7. InPlace(rest)
  BY <1>3, <1>5, <1>6 DEF InPlace
<1> QED
  BY <1>2, <1>4, <1>7
=============================================================================
