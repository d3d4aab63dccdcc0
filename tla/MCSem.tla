-------------------------------- MODULE MCSem --------------------------------
(***************************************************************************)
(* Sem on small programs, with reference definitions of what its answers   *)
(* should be: they walk a program from its root with an environment,       *)
(* whatever the order in which the analyser visits it.                     *)
(***************************************************************************)
EXTENDS Sem

-----------------------------------------------------------------------------
(* Programs                                                                *)

TypeDef(name, dims, kind, to, fields) ==
  [def |-> "type", name |-> name,
   desc |-> [name |-> name, dims |-> dims, kind |-> kind, code |-> "", to |-> to, target |-> JUNK,
             fields |-> fields, inner |-> [k \in 1 .. dims |-> JUNK]]]
Alias(name, to) == TypeDef(name, 0, "alias", to, << >>)
Array(name, dims, to) == TypeDef(name, dims, "alias", to, << >>)
Field(name, type) == [name |-> name, type |-> type, sem |-> NULL]
Record(name, fields) == TypeDef(name, 0, "record", "", fields)
Records(name, dims, fields) == TypeDef(name, dims, "record", "", fields)
Var(name, type) == [def |-> "var", name |-> name, type |-> type]
Param(name, type) == [name |-> name, type |-> type]
Function(name, ret, params, body) ==
  [def |-> "func", name |-> name, ret |-> ret, params |-> params, body |-> body]

Lit(t) == [kind |-> "lit", type |-> t]
One == Lit(tInt)
Str == [kind |-> "str"]
Nil == [kind |-> "null"]
Name(x) == [kind |-> "direct", name |-> x]
Dot(e, f) == [kind |-> "field", of |-> e, name |-> f]
Elem(e, i) == [kind |-> "index", of |-> e, by |-> i]
Exp(v) == [kind |-> "var", var |-> v]
X(x) == Exp(Name(x))
Unop(op, e) == [kind |-> "unop", op |-> op, of |-> e]
Binop(op, l, r) == [kind |-> "binop", op |-> op, left |-> l, right |-> r]
Cast(t, e) == [kind |-> "cast", name |-> t, of |-> e]
New(t) == [kind |-> "new", name |-> t]
NewArr(t, e) == [kind |-> "newarr", name |-> t, size |-> e]
CallTo(f, args) == [name |-> f, args |-> args]
CallExp(f, args) == [kind |-> "call", call |-> CallTo(f, args)]
Compare(op, l, r) == [kind |-> "compare", op |-> op, left |-> l, right |-> r]
And(c, d) == [kind |-> "and", left |-> c, right |-> d]
Choose(c, l, r) == [kind |-> "condexp", cond |-> c, left |-> l, right |-> r]
Yes == Compare("eq", One, One)

Local(name, type) == [kind |-> "vardef", name |-> name, type |-> type]
If(c, then, else) == [kind |-> "if", cond |-> c, then |-> then, else |-> else]
WhileDo(c, body) == [kind |-> "while", cond |-> c, body |-> body]
Assign(v, e) == [kind |-> "assign", left |-> v, right |-> e]
Ret(e) == [kind |-> "return", exp |-> e]
Break == [kind |-> "break"]
Continue == [kind |-> "continue"]
CallStmt(f, args) == [kind |-> "callstmt", call |-> CallTo(f, args)]
Nested(body) == [kind |-> "nested", body |-> body]
Echo(e) == [kind |-> "echo", exp |-> e]

\* Bodies of  int f(int n)  over  var g: int;  type p = {int x; p next}
Bodies ==
  {<<Ret(X("n"))>>,
   <<Local("v", "int"), Nested(<<Local("v", "p"), Assign(Name("v"), New("p")), Echo(X("v"))>>),
     Assign(Name("v"), X("n")), Ret(X("v"))>>,
   <<If(Yes, <<Local("n", "p"), Ret(One)>>, <<Ret(X("n"))>>), Echo(X("g"))>>,
   <<If(Compare("lt", X("zz"), One), <<Local("v", "int"), Ret(X("v"))>>, NULL), Ret(X("v"))>>,
   <<WhileDo(And(Yes, Compare("ne", X("n"), One)), <<Local("v", "int"), Break>>), Break, Ret(One)>>,
   <<WhileDo(Compare("lt", X("g"), X("zz")), <<Continue>>), Local("v", "int"), Ret(X("v"))>>,
   <<If(Yes, <<Ret(One)>>, <<Nested(<<Echo(Nil)>>)>>)>>,
   <<Assign(Dot(New("p"), "x"), Unop("neg", X("n"))), Assign(Dot(X("g"), "x"), One), Ret(Nil)>>,
   <<Local("v", "p"), Assign(Dot(Exp(Dot(X("v"), "next")), "next"), Nil), Ret(Exp(Dot(X("v"), "y")))>>,
   <<Local("s", "string"), Assign(Name("s"), Str), Assign(Elem(X("s"), One), Lit(tChar)), Ret(One)>>,
   <<Assign(Elem(NewArr("int", X("n")), X("g")), One), Ret(Exp(Elem(NewArr("int", Nil), One)))>>,
   <<Echo(Str), Nested(<<Echo(Str)>>), Ret(Choose(Yes, One, Lit(tLong)))>>,
   <<CallStmt("f", <<One, One>>), CallStmt("g", << >>), Ret(CallExp("f", <<CallExp("f", <<X("n")>>)>>))>>,
   <<CallStmt("f", <<Nil>>), Ret(Binop("add", Cast("int", Lit(tDouble)), Cast("p", One)))>>,
   <<Local("p", "p"), Local("q", "p"), Ret(NULL)>>,
   <<Local("int", "int"), Local("n", "int"), Ret(Binop("modulo", One, Lit(tDouble)))>>,
   <<Local("q", "p"), Assign(Dot(Exp(Dot(X("q"), "next")), "x"), Unop("bitnot", X("n"))),
     WhileDo(Compare("gt", X("n"), X("g")), <<If(Yes, <<Break>>, <<Continue>>)>>), Ret(Exp(Dot(X("q"), "x")))>>,
   <<Local("p", "long"), Assign(Name("p"), Binop("shl", X("n"), X("p"))), Ret(Cast("int", X("p")))>>,
   <<Local("d", "double"), Assign(Name("d"), Choose(Yes, X("d"), Lit(tFloat))), Ret(Choose(Yes, One, X("d")))>>,
   <<Echo(Unop("len", NewArr("int", One))), Echo(Unop("neg", New("p"))), Ret(Unop("len", X("n")))>>,
   <<Echo(New("int")), Echo(Cast("zz", One)), Echo(NewArr("zz", One)), Ret(Cast("char", Lit(tFloat)))>>,
   <<Echo(X("f")), Assign(Name("p"), One), CallStmt("p", <<X("n")>>), Ret(CallExp("g", << >>))>>,
   <<Nested(<<WhileDo(Yes, <<Local("g", "p"), Assign(Dot(X("g"), "next"), X("g"))>>), Echo(X("g"))>>),
     Ret(Binop("add", X("g"), CallExp("f", <<X("g")>>)))>>,
   <<Local("f", "int"), Echo(CallExp("f", <<One>>)), Nested(<<Local("g", "int"), Local("g", "p"), Ret(X("g"))>>)>>,
   <<If(Yes, <<Local("v", "int")>>, <<Assign(Name("v"), One)>>), If(Yes, <<Ret(One)>>, NULL), Ret(Exp(Elem(Str, X("n"))))>>}

\* Type definitions, two at a time, with a function that uses them
Definitions ==
  {Alias("a", "int"), Alias("a", "b"), Alias("b", "a"), Alias("b", "zz"), Alias("int", "a"),
   Record("a", <<Field("x", "int"), Field("x", "b")>>),
   Record("b", <<Field("x", "zz"), Field("y", "a")>>),
   Records("b", 1, <<Field("x", "int")>>), Array("b", 1, "a"), Array("a", 3, "int"), Array("a", 2, "zz")}
User == Function("f", "a", <<Param("n", "b")>>,
          <<Local("v", "a"), Assign(Name("v"), Exp(Elem(X("n"), One))), Ret(X("v"))>>)

G == Var("g", "int")
P == Record("p", <<Field("x", "int"), Field("next", "p")>>)
F(body) == Function("f", "int", <<Param("n", "int")>>, body)
Main == Function("main", "void", << >>, <<CallStmt("f", <<One>>), Echo(Str)>>)
Echoing == Function("e", "void", <<Param("p", "string")>>, <<Echo(X("p")), Echo(Str), Ret(NULL)>>)
Twice(ret) ==
  Function("f", ret, <<Param("n", "int"), Param("n", "int"), Param("m", "int")>>, <<Ret(X("m"))>>)
Missing == Function("h", "zz", <<Param("m", "zz"), Param("int", "p")>>, <<Ret(X("m"))>>)
External == Function("f", "int", <<Param("n", "int")>>, NULL)

\* Two statements that declare, use or leave scopes, before a use
Statements ==
  {Local("v", "int"), Local("v", "p"), Local("v", "zz"), Assign(Name("v"), One), Ret(X("n")), Echo(Str),
   Nested(<<Local("v", "int"), Assign(Name("v"), X("v"))>>),
   If(Compare("eq", X("v"), One), <<Local("v", "p")>>, <<Assign(Name("v"), X("g")), Ret(X("v"))>>),
   WhileDo(Compare("lt", X("v"), One), <<Local("v", "int"), Echo(X("v")), Break>>)}
Pairs == {<<s, t, Ret(X("v"))>> : s \in Statements, t \in Statements}

BodyPrograms == {<<<<G, F(body), P>>>> : body \in Bodies \cup Pairs}
TypePrograms == {<<<<d, e, User>>>> : d \in Definitions, e \in Definitions}
ModulePrograms ==
  {<<<<Main>>, <<F(<<Ret(One)>>), F(<<Ret(Str)>>)>>>>,
   <<<<Main, Echoing>>, <<G, F(<<CallStmt("main", << >>), Ret(X("g"))>>), P>>>>,
   <<<<Main, Echoing, Var("q", "p")>>, <<External, Record("p", <<Field("next", "q")>>)>>>>,
   <<<<Main, External>>, <<Var("f", "p"), P>>>>,
   <<<<Twice("int"), Main>>, <<External>>>>,
   <<<<Twice("zz"), Var("f", "zz")>>, <<Missing, P>>>>,
   <<<<Main, F(<<Ret(One)>>)>>, <<Main, Alias("main", "f")>>>>}

SmallPrograms == BodyPrograms \cup TypePrograms \cup ModulePrograms

-----------------------------------------------------------------------------
(* Reference: the nodes of a function body and where its names are declared *)

Point(path, what, name) == [at |-> path, what |-> what, name |-> name]

RECURSIVE WalkExp(_, _), WalkVar(_, _), WalkCall(_, _), WalkCond(_, _), WalkBlock(_, _)

WalkVar(v, path) ==
  CASE v.kind = "direct" -> {Point(path, "var", v.name)}
    [] v.kind = "field" -> {Point(path, "field", v.name)} \cup WalkExp(v.of, path \o <<1>>)
    [] v.kind = "index" -> {Point(path, "index", "")} \cup WalkExp(v.of, path \o <<1>>)
                             \cup WalkExp(v.by, path \o <<2>>)

WalkCall(c, path) ==
  {Point(path, "call", c.name)} \cup UNION {WalkExp(c.args[i], path \o <<i>>) : i \in DOMAIN c.args}

WalkCond(c, path) ==
  IF c.kind = "compare"
  THEN WalkExp(c.left, path \o <<1>>) \cup WalkExp(c.right, path \o <<2>>)
  ELSE WalkCond(c.left, path \o <<1>>) \cup WalkCond(c.right, path \o <<2>>)

WalkExp(e, path) ==
  {Point(path, "exp", "")} \cup
  CASE e.kind \in {"unop", "cast"} -> WalkExp(e.of, path \o <<1>>)
    [] e.kind \in {"binop", "condexp"} ->
         WalkExp(e.left, path \o <<1>>) \cup WalkExp(e.right, path \o <<2>>)
           \cup (IF e.kind = "condexp" THEN WalkCond(e.cond, path \o <<3>>) ELSE {})
    [] e.kind = "newarr" -> WalkExp(e.size, path \o <<1>>)
    [] e.kind = "var" -> WalkVar(e.var, path \o <<1>>)
    [] e.kind = "call" -> WalkCall(e.call, path \o <<1>>)
    [] OTHER -> {}

WalkStatement(s, p) ==
  CASE s.kind = "vardef" -> {Point(p, "local", s.name)}
    [] s.kind = "if" -> WalkCond(s.cond, p \o <<3>>) \cup WalkBlock(s.then, p \o <<1>>)
                          \cup (IF s.else = NULL THEN {} ELSE WalkBlock(s.else, p \o <<2>>))
    [] s.kind = "while" -> WalkCond(s.cond, p \o <<3>>) \cup WalkBlock(s.body, p \o <<1>>)
    [] s.kind = "nested" -> WalkBlock(s.body, p \o <<1>>)
    [] s.kind = "assign" -> WalkVar(s.left, p \o <<1>>) \cup WalkExp(s.right, p \o <<2>>)
    [] s.kind = "callstmt" -> WalkCall(s.call, p \o <<1>>)
    [] s.kind = "echo" -> WalkExp(s.exp, p \o <<1>>)
    [] s.kind = "return" /\ s.exp # NULL -> WalkExp(s.exp, p \o <<1>>)
    [] OTHER -> {}

WalkBlock(block, path) == UNION {WalkStatement(block[i], path \o <<i>>) : i \in DOMAIN block}

ParamNames(f) == {Params(f)[i].name : i \in DOMAIN Params(f)}

Functions == {d \in UNION {{<<a, i>> : i \in DOMAIN asts[a]} : a \in DOMAIN asts} :
                asts[d[1]][d[2]].def = "func"}
Body(f) == asts[f[1]][f[2]].body
Points == UNION {IF Body(f) = NULL THEN {} ELSE WalkBlock(Body(f), f) : f \in Functions}

\* A local is declared unless its name is a builtin's, a parameter's for a
\* local of the function's own block, or that of a local before it.
Declared(points) ==
  {d \in points : /\ d.what = "local" /\ d.name \notin BuiltinNames
                  /\ Len(d.at) = 3 => d.name \notin ParamNames(Func(d.at))
                  /\ ~\E e \in points : /\ e.what = "local" /\ e.name = d.name
                                        /\ Front(e.at) = Front(d.at) /\ Last(e.at) < Last(d.at)}

\* Lexical scope: the local of the innermost block around the use that is
\* declared in a statement before it, else a parameter, else a global.
Meaning(points, use) ==
  LET visible == {d \in Declared(points) :
                    /\ d.name = use.name
                    /\ Len(d.at) <= Len(use.at)
                    /\ Front(d.at) = SubSeq(use.at, 1, Len(d.at) - 1)
                    /\ Last(d.at) < use.at[Len(d.at)]}
      f == Func(use.at)
      globals == {g \in GlobalSymbols : g.name = use.name}
  IN  CASE visible # {} -> (CHOOSE d \in visible : \A e \in visible : Len(e.at) <= Len(d.at)).at
        [] visible = {} /\ use.name \in ParamNames(f) ->
             ParamAt(f, Min({i \in DOMAIN Params(f) : Params(f)[i].name = use.name}))
        [] visible = {} /\ use.name \notin ParamNames(f) /\ globals # {} ->
             (CHOOSE g \in globals : TRUE).node
        [] OTHER -> NULL

\* Every path through a block ends in a return, break or continue.
RECURSIVE AllPathsExit(_)
AllPathsExit(block) ==
  \E i \in DOMAIN block :
    \/ block[i].kind \in {"return", "break", "continue"}
    \/ block[i].kind = "nested" /\ AllPathsExit(block[i].body)
    \/ /\ block[i].kind = "if" /\ block[i].else # NULL
       /\ AllPathsExit(block[i].then) /\ AllPathsExit(block[i].else)

\* What a rejected program may hide.
UnknownFieldType ==
  \E d \in TypeDefinitions :
    \E i \in DOMAIN types[d].fields :
      ~\E s \in GlobalSymbols \cup BuiltinScope : s.kind = "type" /\ s.name = types[d].fields[i].type

RECURSIVE AliasesFrom(_, _)
AliasesFrom(name, seen) ==
  \/ name \in seen
  \/ \E d \in TypeDefinitions :
       /\ types[d].name = name /\ types[d].dims = 0 /\ types[d].kind = "alias"
       /\ AliasesFrom(types[d].to, seen \cup {name})
CyclicAlias == \E d \in TypeDefinitions : AliasesFrom(types[d].name, {})

-----------------------------------------------------------------------------
(* Properties                                                              *)

Answered == result \in {"SUCCESS", "ERR_SEMANTIC"}

\* Every node's annotation is a type definition the analyser knows, a null
\* pointer or memory nobody wrote, and the markers keep the counters in range.
TypeOK ==
  /\ \A n \in DOMAIN sem : sem[n] \in DOMAIN types \cup {NULL, JUNK}
  /\ \A a \in DOMAIN asts : used[a] \subseteq DOMAIN types
  /\ \A i \in DOMAIN vals : vals[i] \in DOMAIN types \cup {NULL, JUNK}
  /\ loopLevel \in Nat /\ anonRec \in Nat
  /\ phase \in 0 .. 5 /\ ast \in 0 .. Len(asts)
  /\ \A n \in DOMAIN exits : exits[n] \in BOOLEAN

\* mon_sem.h promises that after MON_SUCCESS all semantic fields are filled:
\* every expression and variable has a type, every call its callee, every
\* alias, field and array layer the type it names, every AST state SEM_OK.
SuccessFillsSemantics ==
  result = "SUCCESS" =>
    /\ \A p \in Points : /\ p.what # "call" => TypeOf(p.at) \in DOMAIN types
                         /\ p.what \in {"var", "call", "field"} => p.at \in DOMAIN bind
    /\ \A t \in DOMAIN types :
         /\ types[t].kind = "alias" => types[t].target \in DOMAIN types \ {tError}
         /\ \A i \in DOMAIN types[t].fields : types[t].fields[i].sem \in DOMAIN types \ {tError}
         /\ \A k \in DOMAIN types[t].inner : types[t].inner[k] \in DOMAIN types \ {tError}

\* Once the analyser answers, every variable and call it resolved is bound to
\* the declaration that lexical scoping gives, shadowing and order included,
\* whatever scopes failed statements left behind.
LexicalBinding ==
  Answered /\ ~UnknownFieldType =>
    \A points \in {Points} : \A p \in points :
      p.what \in {"var", "call"} /\ p.at \in DOMAIN bind => bind[p.at] = Meaning(points, p)

\* A function all of whose paths return is never told "Not all paths are
\* returning a value": whatever garbage the flag started with and whatever
\* follows the return, its body's allPathsExit is true at the check.
NoFalseMissingReturn ==
  At("retcheck") /\ AllPathsExit(Body(here)) => exits[here]

\* The analysis ends, unless the program has an alias cycle.
Termination == ~CyclicAlias => <>(result # "running")

-----------------------------------------------------------------------------
(* What comments and assertions say, and the code does not do               *)

FieldPrograms == {<<<<Record("b", <<Field("x", "zz"), Field("y", "int")>>), P>>>>}
ExitPrograms == {<<<<F(<<Echo(One)>>)>>>>}

\* sem.c:1078: "Enter a new scope in order to properly create the record
\* fields": a field's name never shows up in the scope around the record.
FieldsStayInRecords ==
  phase = 4 /\ scopes # << >> => \A i \in DOMAIN scopes[1] : scopes[1][i].kind # "field"

\* mon_block.h: allPathsExit is "true if all paths of this block have a
\* return/break/continue statement": no function that can run off its end is
\* accepted.
AcceptedFunctionsReturn ==
  result = "SUCCESS" =>
    \A f \in Functions : Body(f) # NULL /\ ReturnType(f) # tVoid => AllPathsExit(Body(f))
=============================================================================
