------------------------------- MODULE MCLlvm -------------------------------
(***************************************************************************)
(* LlvmGen and LlvmRun on small modules, against a reference interpreter    *)
(* of the source language that knows nothing of labels and numbers: it      *)
(* walks a function with an environment of its own for each block and       *)
(* yields the trace that a run of the function leaves.                      *)
(***************************************************************************)
EXTENDS LlvmRun

-----------------------------------------------------------------------------
(* Annotated programs                                                      *)

Record(name) ==
  [name |-> name, dims |-> 0, kind |-> "record", code |-> "", to |-> "", target |-> NULL,
   fields |-> << >>, inner |-> << >>]
ArrayOf(name, t, dims) ==
  [name |-> name, dims |-> dims, kind |-> "alias", code |-> "", to |-> "", target |-> t,
   fields |-> << >>, inner |-> <<t>>]
SmallTypes == BuiltinTypes @@ "p" :> Record("p") @@ "ints" :> ArrayOf("ints", tInt, 1)
                      @@ "chars" :> ArrayOf("chars", tChar, 1)
                      @@ "num" :> ArrayOf("num", tInt, 0)

Lit(text, t) == [kind |-> "lit", text |-> text, type |-> t]
One == Lit("1", tInt)
Two == Lit("2", tInt)
Half == Lit("0.5", tDouble)
Letter == Lit("97", tChar)
Str(s) == [kind |-> "str", text |-> s, type |-> "chars"]
Nil == [kind |-> "null", type |-> tNull]
Name(x) == [kind |-> "direct", name |-> x]
X(x, t) == [kind |-> "var", var |-> Name(x), type |-> t]
N == X("n", tInt)
Dot(e, f) == [kind |-> "field", of |-> e, name |-> f]
Elem(e, i) == [kind |-> "index", of |-> e, by |-> i]
Read(v, t) == [kind |-> "var", var |-> v, type |-> t]
Neg(e) == [kind |-> "unop", op |-> "neg", of |-> e, type |-> e.type]
Size(e) == [kind |-> "unop", op |-> "len", of |-> e, type |-> tInt]
Flip(e) == [kind |-> "unop", op |-> "bitnot", of |-> e, type |-> e.type]
Binop(op, l, r) == [kind |-> "binop", op |-> op, left |-> l, right |-> r, type |-> l.type]
Cast(t, e) == [kind |-> "cast", of |-> e, type |-> t]
New(t) == [kind |-> "new", type |-> t]
NewInts(e) == [kind |-> "newarr", size |-> e, type |-> "ints"]
Choose(c, l, r) == [kind |-> "condexp", cond |-> c, left |-> l, right |-> r, type |-> l.type]
CallTo(f, ret, params, args) == [name |-> f, ret |-> ret, params |-> params, args |-> args]
F(e) == [kind |-> "call", type |-> tInt, call |-> CallTo("f", tInt, <<tInt>>, <<e>>)]

Test(op, l, r) == [kind |-> "compare", op |-> op, left |-> l, right |-> r, negate |-> FALSE]
And(c, d) == [kind |-> "and", left |-> c, right |-> d, negate |-> FALSE]
Or(c, d) == [kind |-> "or", left |-> c, right |-> d, negate |-> FALSE]
Not(c) == [c EXCEPT !.negate = ~@]

\* allPathsExit, as the analysis sets it
StatementExits(s) ==
  \/ s.kind \in {"return", "break", "continue"}
  \/ s.kind = "nested" /\ s.body.exits
  \/ s.kind = "if" /\ s.else # NULL /\ s.then.exits /\ s.else.exits
Body(stmts) == [stmts |-> stmts, exits |-> \E i \in DOMAIN stmts : StatementExits(stmts[i])]

Local(x, t) == [kind |-> "vardef", name |-> x, type |-> t]
If(c, then) == [kind |-> "if", cond |-> c, then |-> Body(then), else |-> NULL]
IfElse(c, then, else) == [kind |-> "if", cond |-> c, then |-> Body(then), else |-> Body(else)]
While(c, stmts) == [kind |-> "while", cond |-> c, body |-> Body(stmts)]
Assign(v, t, e) == [kind |-> "assign", left |-> v, type |-> t, right |-> e]
Set(x, e) == Assign(Name(x), tInt, e)
Ret(e) == [kind |-> "return", exp |-> e]
Break == [kind |-> "break"]
Continue == [kind |-> "continue"]
Do(e) == [kind |-> "callstmt", call |-> e.call]
Nested(stmts) == [kind |-> "nested", body |-> Body(stmts)]
Show(e) == [kind |-> "echo", exp |-> e]

Param(x, t) == [name |-> x, type |-> t]
Function(name, ret, params, stmts) ==
  [def |-> "func", name |-> name, ret |-> ret, params |-> params, body |-> Body(stmts), entry |-> name = "main"]
External(name) ==
  [def |-> "func", name |-> name, ret |-> tInt, params |-> <<Param("n", tInt)>>, body |-> NULL, entry |-> FALSE]
Global(x, t) == [def |-> "var", name |-> x, type |-> t]

Less == Test("lt", N, One)
Same == Test("eq", N, X("m", tInt))
More == Test("gt", F(N), Two)
Mixed == Test("ge", Lit("3", tLong), N)

\* Conditions of every shape
Conditions ==
  {Less, Not(Less), Mixed, And(Less, Same), Or(Less, Same), Not(And(Less, Or(Same, More))),
   Or(And(Less, Not(Same)), Not(Or(More, Less))), And(Not(Or(Less, Same)), More),
   Test("eq", Choose(Less, One, Choose(Same, Two, N)), F(Choose(Not(Less), One, N))),
   Test("ne", X("q", "p"), Nil), Test("eq", Half, Half)}

\* Bodies of  int h(int n, int m)  that are put together from a condition
Shapes(c) ==
  {<<If(c, <<Set("n", Two)>>), Ret(N)>>,
   <<IfElse(c, <<Local("n", tInt), Set("n", One), Show(N)>>, <<Set("m", N)>>), Ret(X("m", tInt))>>,
   <<IfElse(c, <<Ret(One)>>, <<Ret(Two)>>), Show(N)>>,
   <<While(c, <<Show(N), If(Less, <<Break>>), Set("n", F(N))>>), Ret(N)>>,
   <<While(c, <<If(Same, <<Continue>>), While(Less, <<IfElse(c, <<Break>>, <<Continue>>)>>), Show(One)>>),
     Show(Two), Ret(N)>>,
   <<Ret(Choose(c, F(One), Binop("add", N, One)))>>}

Statements ==
  {<<Nested(<<Local("m", tInt), Set("m", N), Nested(<<Local("m", "p"), Show(X("m", "p"))>>), Show(X("m", tInt))>>),
     Ret(X("m", tInt))>>,
   <<While(Less, <<Local("v", tInt), Show(X("v", tInt)), Set("v", N), Local("w", "num")>>),
     Ret(X("g", "num"))>>,
   <<While(Less, <<Ret(One)>>), While(Same, <<Nested(<<Break>>)>>), Ret(Neg(N))>>,
   <<Local("q", "p"), Assign(Name("q"), "p", New("p")),
     Assign(Dot(X("q", "p"), "x"), tInt, Binop("mul", Read(Dot(X("q", "p"), "x"), tInt), Lit("7", tInt))),
     If(Test("ne", X("q", "p"), Nil), <<Assign(Dot(X("q", "p"), "next"), "p", Nil)>>),
     Ret(Read(Dot(Read(Dot(X("q", "p"), "next"), "p"), "x"), tInt))>>,
   <<Local("a", "ints"), Assign(Name("a"), "ints", NewInts(Binop("add", N, One))),
     Assign(Elem(X("a", "ints"), N), tInt, Read(Elem(X("a", "ints"), F(N)), tInt)), Show(X("a", "ints")),
     Ret(Lit("9", tLong))>>,
   <<Local("d", tDouble), Assign(Name("d"), tDouble, Binop("div", X("d", tDouble), Lit("1.5", tFloat))),
     Show(X("d", tDouble)), Show(Cast(tFloat, N)), Show(Cast(tFloat, X("d", tDouble))), Show(Letter),
     Ret(Cast(tInt, Letter))>>,
   <<Show(Str("a")), Local("s", tString), Assign(Name("s"), tString, Str("b")), Show(X("s", tString)),
     Ret(Choose(And(Less, Same), Lit("4", tShort), N))>>,
   <<Do(F(F(N))), If(Not(Less), <<Ret(F(Cast(tByte, Lit("5", tLong))))>>), Ret(Binop("bitand", N, X("g", "num")))>>}

\* Constructs that the code generator gets wrong, see Sound
Flawed ==
  {<<IfElse(Less, <<Ret(One)>>, <<Set("n", Two)>>), Ret(N)>>,
   <<IfElse(Less, <<Set("n", Two)>>, <<Ret(One)>>), Ret(N)>>,
   <<While(Less, <<Break, Set("n", One)>>), Ret(N)>>,
   <<Nested(<<Ret(One)>>), Show(N)>>,
   <<Show(Str("a")), Show(Str("a")), Ret(N)>>,
   <<Show(Nil), Ret(N)>>,
   <<Show(Neg(Half)), Ret(N)>>,
   <<Ret(Cast(tInt, Half))>>,
   <<Show(Cast(tChar, N)), Ret(N)>>,
   <<Show(Size(X("a", "ints"))), Ret(N)>>,
   <<Ret(Flip(N))>>,
   <<Show(Binop("add", X("s", tString), X("s", tString))), Ret(N)>>}

H(stmts) ==
  <<External("f"), Global("g", "num"), Global("q", "p"), Global("s", tString), Global("a", "ints"), Function("h", tInt, <<Param("n", tInt), Param("m", tInt)>>, stmts)>>

Shout(e) == [kind |-> "call", type |-> tVoid, call |-> CallTo("print", tVoid, <<tLong, tInt>>, <<e, One>>)]
Main(stmts) == Function("main", tVoid, << >>, stmts)
WithLocals == Function("f", tInt, <<Param("n", tInt)>>, <<Local("g", tInt), While(Less, <<Set("g", F(N)), Break>>), Ret(X("g", tInt))>>)
Several ==
  {<<Main(<<Do(F(One)), Do(Shout(N))>>), WithLocals, Global("n", tInt), Global("r", "p")>>,
   <<WithLocals, Global("n", tDouble), Main(<<Do(Shout(F(One))), Do(Shout(F(Two))), If(Less, <<Ret(NULL)>>), Do(F(One))>>)>>,
   <<Global("n", tInt), Main(<<If(More, <<Local("n", tInt), While(Same, << >>), Do(F(N))>>), Show(N), Ret(NULL), Show(N)>>)>>,
   <<Function("k", tVoid, <<Param("n", tInt)>>, <<IfElse(Less, <<Ret(NULL)>>, <<Do(Shout(N)), Ret(NULL)>>)>>), External("f"),
     Global("m", tInt), Main(<<While(Or(Less, Same), <<If(More, <<Break>>), Nested(<<Continue>>)>>)>>)>>}

SmallModules ==
  {H(b) : b \in (UNION {Shapes(c) : c \in Conditions}) \cup Statements \cup Flawed} \cup Several

OneSided == {H(<<IfElse(Less, <<Ret(One)>>, <<Set("n", Two)>>), Ret(N)>>)}

-----------------------------------------------------------------------------
(* The source language.  A state holds the trace so far, the memory, the    *)
(* environment, the values of the expressions evaluated last, the number of *)
(* variables made and how control goes on.  What is done to a state does    *)
(* nothing once control does not go on.                                     *)

Go(s) == s.flow = "go"
See(s, event) == [s EXCEPT !.trace = Append(@, event)]
Leave(s, how) == IF Go(s) THEN [s EXCEPT !.flow = how] ELSE s

Push(v, s) == [s EXCEPT !.vals = Append(@, v)]
Pop(n, s) == [s EXCEPT !.vals = SubSeq(@, 1, Len(@) - n)]
Values(n, s) == SubSeq(s.vals, Len(s.vals) - n + 1, Len(s.vals))
Holds(s) == Last(s.vals)

\* The last n values, after the first, make a term.
Joined(first, n, s) == IF Go(s) THEN Push(first \o Values(n, s), Pop(n, s)) ELSE s

\* A call of another function, whose answer is known by its place in the trace
Calls(name, n, s) ==
  IF Go(s)
  THEN Push(<<"answer", Len(s.trace) + 1>>, See(Pop(n, s), <<"call", name, Values(n, s)>>))
  ELSE s

\* The last value, of one type, as a value of another
As(from, to, s) ==
  LET u == Underlying(from)
      v == Underlying(to)
  IN  CASE ~Go(s) \/ u = v -> s
        [] Go(s) /\ u # v /\ u = tNull -> Push(<<"null">>, Pop(1, s))
        [] Go(s) /\ u # v /\ u # tNull /\ v = tString -> Calls("StrFromSZ", 1, s)
        [] OTHER -> IF TypeRef(u) = TypeRef(v) THEN s ELSE Joined(<<"as", TypeRef(u), TypeRef(v)>>, 1, s)

\* A comparison goes as the oracle says, and the run is cut when it says nothing.
Decide(c, s) ==
  LET holds == s.oracle[s.tests + 1]
  IN  CASE ~Go(s) -> s
        [] Go(s) /\ s.tests = Len(s.oracle) -> Leave(s, "cut")
        [] OTHER -> Push(holds, See([Pop(2, s) EXCEPT !.tests = @ + 1],
                                    <<"test", c.op>> \o Values(2, s) \o <<holds>>))
Negated(c, s) == IF Go(s) /\ c.negate THEN Push(~Holds(s), Pop(1, s)) ELSE s

Contents(a, s) == IF a \in DOMAIN s.memory THEN s.memory[a] ELSE <<"initial", a>>
Loaded(s) == IF Go(s) THEN Push(Contents(Last(s.vals), s), Pop(1, s)) ELSE s
Write(a, v, s) == [s EXCEPT !.memory = (a :> v) @@ @]
Stored(s) == IF Go(s) THEN Write(Values(2, s)[1], Values(2, s)[2], Pop(2, s)) ELSE s
Selected(field, s) == IF Go(s) THEN Push(<<"field", Last(s.vals), field>>, Pop(1, s)) ELSE s
Swapped(s) == IF Go(s) THEN Push(Values(2, s)[1], Push(Values(2, s)[2], Pop(2, s))) ELSE s

FirstValue(t) ==
  CASE Underlying(t) \in {tFloat, tDouble} -> <<"lit", "0.0">>
    [] IsRef(t) -> <<"null">>
    [] OTHER -> <<"lit", "0">>

\* A variable is known by its number.
Made(s) == <<"var", s.made>>
Declared(d, v, s) ==
  Write(Made(s), v, [s EXCEPT !.env = (d.name :> Made(s)) @@ @, !.made = @ + 1])
Outer(s, inner) == [inner EXCEPT !.env = s.env]

Returned(n, s) == IF Go(s) THEN Leave(See(s, <<"return", Values(n, s)>>), "return") ELSE s

\* An echo is a call of the runtime's function for the type.
Routine(u) ==
  CASE u = tString \/ IsChars(u) -> "EchoString"
    [] u = tChar -> "EchoChar"
    [] u \in {tFloat, tDouble} -> "EchoReal"
    [] u \notin DOMAIN BuiltinTypes /\ ~IsChars(u) -> IF IsArray(TypeTable, u) THEN "EchoArray" ELSE "EchoObject"
    [] OTHER -> "EchoInteger"
Echoed(u, s) ==
  Calls(Routine(u), 1, As(u, CASE Routine(u) = "EchoString" -> tString
                               [] Routine(u) = "EchoReal" -> tDouble
                               [] Routine(u) = "EchoInteger" -> tLong
                               [] OTHER -> u, s))

\* What is left of a node when its first part has been done
Rest(kind, x) == [kind |-> kind, of |-> x]
Sequence(stmts) == [kind |-> "sequence", stmts |-> stmts]
Arguments(args, params) == [kind |-> "args", args |-> args, params |-> params]

\* The state after a node, which pushes its value: for a variable its address
RECURSIVE Does(_, _)
Does(x, s) ==
  IF ~Go(s) /\ x.kind # "again" THEN s ELSE
  CASE x.kind \in {"lit", "str"} -> Push(<<x.kind, x.text>>, s)
    [] x.kind = "null" -> Push(<<"nothing">>, s)
    [] x.kind = "unop" -> Joined(<<"op", "sub", <<"lit", "0">>>>, 1, Does(x.of, s))
    [] x.kind = "binop" ->
         Joined(<<"op", x.op>>, 2, Does(Arguments(<<x.left, x.right>>, <<x.type, x.type>>), s))
    [] x.kind = "cast" -> As(x.of.type, x.type, Does(x.of, s))
    [] x.kind = "var" -> Loaded(Does(x.var, s))
    [] x.kind \in {"call", "callstmt"} ->
         Calls(x.call.name, Len(x.call.args), Does(Arguments(x.call.args, x.call.params), s))
    [] x.kind = "args" /\ x.args = << >> -> s
    [] x.kind = "args" /\ x.args # << >> ->
         Does(Arguments(Tail(x.args), Tail(x.params)), As(x.args[1].type, x.params[1], Does(x.args[1], s)))
    [] x.kind = "new" -> Calls("GcAlloc", 1, Push(<<"lit", "size">>, s))
    [] x.kind = "newarr" ->
         Calls("GcAlloc", 1, Joined(<<"op", "mul">>, 2, Does(Arguments(<<x.size, Lit("size", tIntPtr)>>,
                                                                       <<tIntPtr, tIntPtr>>), s)))
    [] x.kind = "condexp" -> Does(Rest("either", x), Does(x.cond, s))
    [] x.kind = "either" ->
         Does(Arguments(IF Holds(s) THEN <<x.of.left>> ELSE <<x.of.right>>, <<x.of.type>>), Pop(1, s))
    \* addresses: a variable's, a global's name, a part of an object
    [] x.kind = "direct" -> Push(IF x.name \in DOMAIN s.env THEN s.env[x.name] ELSE <<"g", x.name>>, s)
    [] x.kind = "field" -> Selected(x.name, Does(x.of, s))
    [] x.kind = "index" ->
         Joined(<<"element">>, 2, Swapped(Does(Arguments(<<x.by, x.of>>, <<tLong, x.of.type>>), s)))
    \* conditions
    [] x.kind = "compare" ->
         Negated(x, Decide(x, Does(Arguments(<<x.left, x.right>>, <<x.left.type, x.left.type>>), s)))
    [] x.kind \in {"and", "or"} -> Negated(x, Does(Rest("further", x), Does(x.left, s)))
    [] x.kind = "further" -> IF Holds(s) = (x.of.kind = "and") THEN Does(x.of.right, Pop(1, s)) ELSE s
    \* statements
    [] x.kind = "assign" -> Stored(As(x.right.type, x.type, Does(x.right, Does(x.left, s))))
    [] x.kind = "return" /\ x.exp = NULL -> Returned(0, s)
    [] x.kind = "return" /\ x.exp # NULL -> Returned(1, As(x.exp.type, s.ret, Does(x.exp, s)))
    [] x.kind \in {"break", "continue"} -> Leave(s, x.kind)
    [] x.kind = "echo" -> Echoed(Underlying(x.exp.type), Does(x.exp, s))
    [] x.kind = "vardef" -> Declared(x, FirstValue(x.type), s)
    [] x.kind = "nested" -> Outer(s, Does(Sequence(x.body.stmts), s))
    [] x.kind = "if" -> Does(Rest("branch", x), Does(x.cond, s))
    [] x.kind = "branch" ->
         IF Holds(s) \/ x.of.else # NULL
         THEN Does(Nested((IF Holds(s) THEN x.of.then ELSE x.of.else).stmts), Pop(1, s))
         ELSE Pop(1, s)
    [] x.kind = "while" -> Does(Rest("loop", x), Does(x.cond, s))
    [] x.kind = "loop" ->
         IF Holds(s) THEN Does(Rest("again", x.of), Does(Nested(x.of.body.stmts), Pop(1, s))) ELSE Pop(1, s)
    [] x.kind = "again" ->
         CASE s.flow = "break" -> [s EXCEPT !.flow = "go"]
           [] s.flow \in {"go", "continue"} -> Does(x.of, [s EXCEPT !.flow = "go"])
           [] OTHER -> s
    [] x.kind = "sequence" ->
         IF x.stmts = << >> THEN s ELSE Does(Sequence(Tail(x.stmts)), Does(x.stmts[1], s))

\* A function with its arguments, when comparisons go as in oracle
Meaning(f, oracle) ==
  LET nobody == [trace |-> IF f.entry THEN <<<<"call", "Init", << >>>>>> ELSE << >>, memory |-> << >>,
                 env |-> << >>, vals |-> << >>, made |-> 0, tests |-> 0, oracle |-> oracle, ret |-> f.ret,
                 flow |-> "go"]
      start == FoldLeft(LAMBDA s, i : Declared(f.params[i], <<"argument", i - 1>>, s), nobody,
                        [i \in DOMAIN f.params |-> i])
  IN  Returned(0, Does(Sequence(f.body.stmts), start))

-----------------------------------------------------------------------------
(* What the code generator is known to get wrong: an if of which one of two *)
(* blocks exits; statements after a nested block, a break or a continue     *)
(* that exits, unless the block's text ends in an exit all the same; null   *)
(* that is not converted; a conversion from a float or to a char; len and   *)
(* complement; a negated float; the sum of strings.                         *)

Converts(from, to) ==
  LET u == Underlying(from)
      v == Underlying(to)
  IN  u = v \/ (IF u = tNull \/ v = tString THEN TRUE
                ELSE (IsFloat(u) => IsFloat(v)) /\ (v = tChar => u = tChar))

\* The statements of a block that are compiled
Stops(x) == x.kind = "return" \/ (x.kind = "if" /\ StatementExits(x))
Compiled(b) ==
  LET stops == {i \in DOMAIN b.stmts : Stops(b.stmts[i])}
  IN  IF stops = {} THEN b.stmts ELSE SubSeq(b.stmts, 1, Min(stops))

\* A node, an expression being converted to the target, is compiled right.
RECURSIVE Sound(_, _)
Sound(x, target) ==
  LET Own(e) == Sound(e, e.type)
      Inside(b) == /\ \A i \in DOMAIN Compiled(b) : Sound(Compiled(b)[i], tVoid)
                   /\ b.exits => StatementExits(Last(Compiled(b)))
  IN
  /\ x.kind \in {"null", "unop", "binop", "cast", "var", "call", "lit", "condexp"} => Converts(x.type, target)
  /\ CASE x.kind = "null" -> Underlying(target) # tNull
       [] x.kind = "unop" -> x.op = "neg" /\ IsInteger(x.type) /\ Own(x.of)
       [] x.kind = "binop" -> ~IsRef(x.type) /\ Sound(x.left, x.type) /\ Sound(x.right, x.type)
       [] x.kind = "cast" -> Sound(x.of, x.type)
       [] x.kind = "var" -> Sound(x.var, target)
       [] x.kind \in {"call", "callstmt"} -> \A i \in DOMAIN x.call.args : Sound(x.call.args[i], x.call.params[i])
       [] x.kind = "newarr" -> Sound(x.size, tIntPtr)
       [] x.kind = "condexp" -> Sound(x.cond, tVoid) /\ Own(x.left) /\ Sound(x.right, x.type)
       [] x.kind = "field" -> Own(x.of)
       [] x.kind = "index" -> Own(x.of) /\ Sound(x.by, tLong)
       [] x.kind = "compare" -> Own(x.left) /\ Sound(x.right, x.left.type)
       [] x.kind \in {"and", "or"} -> Sound(x.left, tVoid) /\ Sound(x.right, tVoid)
       [] x.kind = "assign" -> Sound(x.left, tVoid) /\ Sound(x.right, x.type)
       [] x.kind = "return" -> x.exp # NULL => Own(x.exp)
       [] x.kind = "echo" -> Own(x.exp)
       [] x.kind = "nested" -> Inside(x.body)
       [] x.kind = "while" -> Sound(x.cond, tVoid) /\ Inside(x.body)
       [] x.kind = "if" ->
            /\ Sound(x.cond, tVoid) /\ Inside(x.then)
            /\ x.else # NULL => Inside(x.else) /\ x.then.exits = x.else.exits
       [] OTHER -> TRUE

\* A body is compiled like a nested block.
SoundBody(f) == Sound([kind |-> "nested", body |-> f.body], tVoid)

Named(name) == module[CHOOSE i \in DOMAIN module : module[i].def = "func" /\ module[i].name = name]

-----------------------------------------------------------------------------
(* Properties                                                              *)

LabelsOf(lines) == SelectSeq(lines, LAMBDA l : l.op = "label")

Terminators == {"br", "condbr", "ret"}
Reaches(l) == IF l.op \in {"br", "condbr"} THEN ToSet(l.info) ELSE {}
BlocksClosed(lines) ==
  /\ lines # << >> /\ Last(lines).op \in Terminators
  /\ \A i \in DOMAIN lines : lines[i].op = "label" /\ i > 1 => lines[i - 1].op \in Terminators
TargetsPrinted(lines) == (UNION {Reaches(l) : l \in ToSet(lines)}) \subseteq {l.info[1] : l \in ToSet(LabelsOf(lines))}

\* The text of a function is a sequence of basic blocks, each ended by a branch
\* or a return, whose branches lead to blocks of the function: the flags that
\* the analysis computed and the generator's own early stops agree on where a
\* block has ended already.
BasicBlocks ==
  status = "idle" => \A f \in DOMAIN output : SoundBody(Named(f)) =>
                        BlocksClosed(output[f]) /\ TargetsPrinted(output[f])

\* Running the text does what the source says: the same calls with the same
\* arguments, the same comparisons in the same order, the same returned value,
\* whatever way the comparisons go, and it never gets stuck.
RunsAsWritten ==
  status \in {"returned", "cut", "stuck"} /\ SoundBody(Named(running)) =>
    \E end \in {Meaning(Named(running), outcomes)} :
      /\ status = (IF end.flow = "cut" THEN "cut" ELSE "returned")
      /\ trace = end.trace

-----------------------------------------------------------------------------
(* What a comment says, and the code does not do                            *)

\* llvmgen.c:673, of an if whose then block exits: "Create end label, then
\* does not branch, else does."
EndLabelsCreated == \A f \in DOMAIN output : TargetsPrinted(output[f])
=============================================================================
